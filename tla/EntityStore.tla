----------------------------- MODULE EntityStore -----------------------------
(***************************************************************************)
(* The domain entity store behind the Repository SPI: versioned records    *)
(* with soft delete, an append-only audit log and a transactional outbox.  *)
(* There are two in-memory bindings, packages/api/src/store.ts and         *)
(* core/.../entity/store/InMemoryEntityRepository.kt; calls are synchronous*)
(* in both, a call that throws changes nothing, and they differ in what    *)
(* may be created anew and in the integers of a query.  One entity type.   *)
(***************************************************************************)
EXTENDS Integers, Sequences, FiniteSets, SequencesExt

CONSTANTS
  Ids,       \* record ids, compared as the code compares strings
  Data,      \* what a record says, also the value it is sorted and filtered by
  Cases,     \* Case ids
  None,      \* `undefined', null
  Bindings,  \* the bindings under consideration
  IntMax,    \* the largest Int of the Kotlin binding (2^31 - 1)
  MaxSeq     \* bound: mutations

\* The seq of an audit entry or outbox record is its place.
EntityOp == {"create", "update", "delete"}
StoredEntity == [caseId: Cases \cup {None}, version: Nat, createdSeq: Nat,
                 updatedSeq: Nat, deleted: BOOLEAN, data: Data]
AuditEntry   == [id: Ids, operation: EntityOp, version: Nat, caseId: Cases \cup {None}]
OutboxRecord == [id: Ids, operation: EntityOp, caseId: Cases \cup {None},
                 delivered: BOOLEAN]

ASSUME StoreAssumption ==
  /\ Ids \subseteq Nat /\ Data \subseteq Nat
  /\ None \notin Ids \cup Data /\ None \notin Cases /\ None \notin StoredEntity
  /\ Bindings \subseteq {"ts", "kotlin"}
  /\ IntMax \in Nat /\ MaxSeq \in Nat

VARIABLES
  binding,     \* the binding at work
  rows,        \* the records, deleted ones included
  audit,       \* the audit log
  outbox,      \* the outbox
  seqCounter,  \* the next sequence stamp
  dispatched   \* history: the sum of what relayOutbox() returned

store == <<binding, rows, audit, outbox, seqCounter, dispatched>>

StoreTypeOK ==
  /\ binding \in Bindings
  /\ rows \in [Ids -> StoredEntity \cup {None}]
  /\ audit \in Seq(AuditEntry) /\ outbox \in Seq(OutboxRecord)
  /\ seqCounter \in Nat /\ dispatched \in Nat

-----------------------------------------------------------------------------

Live(id) == rows[id] # None /\ ~rows[id].deleted

FreeAlways(id) == TRUE                 \* mutant: create does not look

\* create() may take the id: the Kotlin binding refuses one that was ever used,
\* the TypeScript binding only one in use.
Free(id) == IF binding = "ts" THEN ~Live(id) ELSE rows[id] = None

RecordCaseless(id, op, row) ==         \* mutant: the Case is not stamped
  /\ audit' = Append(audit, [id |-> id, operation |-> op, version |-> row.version])
  /\ outbox' = Append(outbox, [id |-> id, operation |-> op, delivered |-> FALSE])

\* The audit entry and the outbox record of a mutation that left row behind.
Record(id, op, row) ==
  /\ audit' = Append(audit, [id |-> id, operation |-> op, caseId |-> row.caseId,
                             version |-> row.version])
  /\ outbox' = Append(outbox, [id |-> id, operation |-> op, caseId |-> row.caseId,
                               delivered |-> FALSE])

\* A mutation leaves row, stamped with the next sequence number.
Mutate(id, op, row) ==
  /\ seqCounter < MaxSeq
  /\ rows' = [rows EXCEPT ![id] = row]
  /\ seqCounter' = seqCounter + 1
  /\ Record(id, op, row)
  /\ UNCHANGED <<binding, dispatched>>

Create(id, caseId, d) ==
  /\ Free(id)
  /\ Mutate(id, "create", [caseId |-> caseId, version |-> 1, createdSeq |-> seqCounter,
                           updatedSeq |-> seqCounter, deleted |-> FALSE, data |-> d])

NextVersionFrozen(id) == rows[id].version   \* mutant: the version is not bumped

NextVersion(id) == rows[id].version + 1

Update(id, d) ==
  /\ Live(id)
  /\ Mutate(id, "update", [rows[id] EXCEPT !.version = NextVersion(id),
                                           !.updatedSeq = seqCounter, !.data = d])

Delete(id) ==
  /\ Live(id)
  /\ Mutate(id, "delete", [rows[id] EXCEPT !.version = NextVersion(id),
                                           !.updatedSeq = seqCounter, !.deleted = TRUE])

UndeliveredAll == DOMAIN outbox        \* mutant: delivered records are not skipped

Undelivered == {i \in DOMAIN outbox : ~outbox[i].delivered}

RelayOutbox ==
  /\ outbox' = [i \in DOMAIN outbox |-> [outbox[i] EXCEPT !.delivered = TRUE]]
  /\ dispatched' = dispatched + Cardinality(Undelivered)
  /\ UNCHANGED <<binding, rows, audit, seqCounter>>

-----------------------------------------------------------------------------
(* query(): live records that pass the filter, sorted by the sort field    *)
(* and then by id, one page of them.                                       *)

Before(sorted, a, b) ==
  \/ sorted /\ rows[a].data < rows[b].data
  \/ (sorted => rows[a].data = rows[b].data) /\ a < b

Found(wanted) == {id \in Ids : Live(id) /\ (wanted # None => rows[id].data = wanted)}

\* The record at place i is the one that i - 1 of those found are before.
Matches(wanted, sorted) ==
  LET rank(x) == Cardinality({y \in Found(wanted) : Before(sorted, y, x)})
  IN [i \in 1..Cardinality(Found(wanted)) |-> CHOOSE x \in Found(wanted) : rank(x) = i - 1]

\* 32-bit arithmetic, and coerceIn(0, total).
Wrap(n) == ((n + IntMax + 1) % (2 * (IntMax + 1))) - (IntMax + 1)
CoerceIn(n, total) == IF n < 0 THEN 0 ELSE IF n > total THEN total ELSE n

WindowOneBased(page, size, total) ==   \* mutant: pages counted from one
  [from |-> CoerceIn((page - 1) * size, total), to |-> CoerceIn(page * size, total)]

\* The window a page is, as offsets; the Kotlin binding computes it in Int.
Window(page, size, total) ==
  IF binding = "ts"
  THEN [from |-> CoerceIn(page * size, total), to |-> CoerceIn(page * size + size, total)]
  ELSE LET from == CoerceIn(Wrap(page * size), total)
       IN [from |-> from, to |-> CoerceIn(Wrap(from + size), total)]

\* Its items; None: subList throws, for a window that ends before it begins.
Page(m, page, size) ==
  LET w == Window(page, size, Len(m))
  IN IF w.to < w.from THEN None ELSE SubSeq(m, w.from + 1, w.to)

-----------------------------------------------------------------------------

StoreInit ==
  /\ binding \in Bindings
  /\ rows = [id \in Ids |-> None]
  /\ audit = <<>> /\ outbox = <<>>
  /\ seqCounter = 0 /\ dispatched = 0

StoreNext ==
  \/ \E id \in Ids, c \in Cases \cup {None}, d \in Data : Create(id, c, d)
  \/ \E id \in Ids, d \in Data : Update(id, d)
  \/ \E id \in Ids : Delete(id)
  \/ RelayOutbox

StoreSpec == StoreInit /\ [][StoreNext]_store

-----------------------------------------------------------------------------
(* Properties.                                                             *)

\* Entry i of the audit log is the last one of its record before entry j.
Precedes(i, j) ==
  /\ i < j /\ audit[i].id = audit[j].id
  /\ \A k \in DOMAIN audit : i < k /\ k < j => audit[k].id # audit[j].id

\* An audit log is legal: each life of a record begins with a creation at version
\* one, goes on in steps of one version for one Case, and ends with a deletion; the
\* Kotlin binding knows one life only.
LegalLog ==
  \A j \in DOMAIN audit :
    IF audit[j].operation = "create"
    THEN /\ audit[j].version = 1
         /\ \A i \in DOMAIN audit :
              Precedes(i, j) => binding = "ts" /\ audit[i].operation = "delete"
    ELSE \E i \in DOMAIN audit :
           /\ Precedes(i, j) /\ audit[i].operation # "delete"
           /\ audit[j].version = audit[i].version + 1
           /\ audit[j].caseId = audit[i].caseId

\* Entry n is the last one of record id; the one that created it as it is now.
LastEntry(id, n) ==
  /\ n \in DOMAIN audit /\ audit[n].id = id
  /\ \A k \in DOMAIN audit : k > n => audit[k].id # id

CreationEntry(id, n) ==
  /\ n \in DOMAIN audit /\ audit[n].id = id /\ audit[n].operation = "create"
  /\ \A k \in DOMAIN audit : k > n /\ audit[k].id = id => audit[k].operation # "create"

\* The audit log alone tells the records: what lives, at which version, for which
\* Case, last changed when and created when; and it is a legal one.
AuditTellsRows ==
  /\ LegalLog
  /\ \A id \in Ids :
       /\ rows[id] = None <=> \A i \in DOMAIN audit : audit[i].id # id
       /\ rows[id] # None =>
            LET last == rows[id].updatedSeq + 1
            IN /\ LastEntry(id, last)
               /\ CreationEntry(id, rows[id].createdSeq + 1)
               /\ rows[id].deleted <=> audit[last].operation = "delete"
               /\ rows[id].version = audit[last].version
               /\ rows[id].caseId = audit[last].caseId

\* "There is no window in which one exists without the other"
\* (InMemoryEntityRepository.kt:22): the outbox repeats the audit log, a relay gets
\* all that was written before it, and over all relays each record is dispatched
\* once.
OutboxFollowsAudit ==
  /\ Len(outbox) = Len(audit)
  /\ \A i \in DOMAIN outbox :
       /\ outbox[i].id = audit[i].id /\ outbox[i].operation = audit[i].operation
       /\ outbox[i].caseId = audit[i].caseId
       /\ outbox[i].delivered <=> i <= dispatched

\* The pages of a query are the matching records in order, none twice and none left
\* out, for every size of page; up to the Int range, beyond which the Kotlin
\* binding answers another page or throws.
PagesPartition ==
  \A wanted \in Data \cup {None}, sorted \in BOOLEAN, size \in 1..IntMax :
    LET m     == Matches(wanted, sorted)
        pages == [p \in 1..(Len(m) \div size + 1) |-> Page(m, p - 1, size)]
        all   == FlattenSeq(pages)
    IN (Len(m) + size <= IntMax) =>
         /\ {all[i] : i \in DOMAIN all} = Found(wanted)
         /\ \A i, j \in DOMAIN all : i < j => Before(sorted, all[i], all[j])
=============================================================================
