---------------------------- MODULE StoreProofs ----------------------------
(***************************************************************************)
(* Proofs about the entity store and its callers, for all sets of records, *)
(* Cases and callers and every bound.  Every step of the callers is a step *)
(* of the store or leaves it alone (CallersImplementStore), and a step of  *)
(* the store is a relay or one mutation (StoreSteps).  The pages of a      *)
(* query are arithmetic on the ranks of the records found.                 *)
(***************************************************************************)
EXTENDS Bff, LeastNumber, FiniteSetTheorems, FunctionTheorems

\* What create(), update() and delete() have in common: row is what operation op
\* leaves of record id.
Mutation(id, op, row) ==
  /\ Mutate(id, op, row)
  /\ row.updatedSeq = seqCounter
  /\ \/ /\ op = "create" /\ Free(id)
        /\ row.version = 1 /\ row.createdSeq = seqCounter /\ ~row.deleted
     \/ /\ op # "create" /\ Live(id)
        /\ row.version = rows[id].version + 1
        /\ row.createdSeq = rows[id].createdSeq /\ row.caseId = rows[id].caseId
        /\ row.deleted <=> op = "delete"

LEMMA RowType ==
  ASSUME StoreTypeOK, NEW id \in Ids, rows[id] # None
  PROVE  rows[id] \in StoredEntity
  BY DEF StoreTypeOK

\* s is record r with another version and stamp, in the same life.
StampedFrom(s, r, v, n) ==
  /\ s \in StoredEntity /\ s.version = v /\ s.updatedSeq = n
  /\ s.createdSeq = r.createdSeq /\ s.caseId = r.caseId

LEMMA Stamped ==
  ASSUME NEW r \in StoredEntity, NEW v \in Nat, NEW n \in Nat, NEW d \in Data
  PROVE  /\ StampedFrom([r EXCEPT !.version = v, !.updatedSeq = n, !.data = d], r, v, n)
         /\ StampedFrom([r EXCEPT !.version = v, !.updatedSeq = n, !.deleted = TRUE], r, v, n)
<1> DEFINE s == [r EXCEPT !.version = v, !.updatedSeq = n, !.data = d]
           t == [r EXCEPT !.version = v, !.updatedSeq = n, !.deleted = TRUE]
<1>1. s \in StoredEntity /\ t \in StoredEntity
  BY DEF StoredEntity
<1>2. s.version = v /\ s.updatedSeq = n /\ t.version = v /\ t.updatedSeq = n
  BY DEF StoredEntity
<1>3. s.createdSeq = r.createdSeq /\ t.createdSeq = r.createdSeq
  BY DEF StoredEntity
<1>4. s.caseId = r.caseId /\ t.caseId = r.caseId
  BY DEF StoredEntity
<1> QED
  BY <1>1, <1>2, <1>3, <1>4 DEF StampedFrom

LEMMA StampedDeleted ==
  ASSUME NEW r \in StoredEntity, NEW v \in Nat, NEW n \in Nat, NEW d \in Data
  PROVE  /\ [r EXCEPT !.version = v, !.updatedSeq = n, !.data = d].deleted = r.deleted
         /\ [r EXCEPT !.version = v, !.updatedSeq = n, !.deleted = TRUE].deleted = TRUE
  BY DEF StoredEntity

LEMMA CreateMutates ==
  ASSUME StoreTypeOK, NEW id \in Ids, NEW k \in Cases \cup {None}, NEW d \in Data,
         Create(id, k, d)
  PROVE  \E row \in StoredEntity : Mutation(id, "create", row)
<1> DEFINE row == [caseId |-> k, version |-> 1, createdSeq |-> seqCounter,
                   updatedSeq |-> seqCounter, deleted |-> FALSE, data |-> d]
<1>1. row \in StoredEntity
  BY DEF StoredEntity, StoreTypeOK
<1>2. Mutation(id, "create", row)
  BY DEF Mutation, Create
<1> QED
  BY <1>1, <1>2

LEMMA UpdateMutates ==
  ASSUME StoreTypeOK, NEW id \in Ids, NEW d \in Data, Update(id, d)
  PROVE  \E row \in StoredEntity : Mutation(id, "update", row)
<1> DEFINE row == [rows[id] EXCEPT !.version = NextVersion(id),
                                   !.updatedSeq = seqCounter, !.data = d]
<1>1. rows[id] \in StoredEntity /\ Live(id)
  BY RowType DEF Update, Live
<1>2. NextVersion(id) \in Nat /\ seqCounter \in Nat
  BY <1>1 DEF StoredEntity, NextVersion, StoreTypeOK
<1>3. row.deleted = rows[id].deleted
  BY <1>1, <1>2, StampedDeleted
<1>4. StampedFrom(row, rows[id], NextVersion(id), seqCounter)
  BY <1>1, <1>2, Stamped
<1>5. Mutate(id, "update", row)
  BY DEF Update
<1> HIDE DEF row
<1>6. Mutation(id, "update", row)
  BY <1>1, <1>3, <1>4, <1>5 DEF Mutation, StampedFrom, NextVersion, Live
<1> QED
  BY <1>4, <1>6 DEF StampedFrom

LEMMA DeleteMutates ==
  ASSUME StoreTypeOK, NEW id \in Ids, Delete(id)
  PROVE  \E row \in StoredEntity : Mutation(id, "delete", row)
<1> DEFINE row == [rows[id] EXCEPT !.version = NextVersion(id),
                                   !.updatedSeq = seqCounter, !.deleted = TRUE]
<1>1. rows[id] \in StoredEntity /\ Live(id)
  BY RowType DEF Delete, Live
<1>2. NextVersion(id) \in Nat /\ seqCounter \in Nat /\ rows[id].data \in Data
  BY <1>1 DEF StoredEntity, NextVersion, StoreTypeOK
<1>3. row.deleted = TRUE
  BY <1>1, <1>2, StampedDeleted
<1>4. StampedFrom(row, rows[id], NextVersion(id), seqCounter)
  BY <1>1, <1>2, Stamped
<1>5. Mutate(id, "delete", row)
  BY DEF Delete
<1> HIDE DEF row
<1>6. Mutation(id, "delete", row)
  BY <1>1, <1>3, <1>4, <1>5 DEF Mutation, StampedFrom, NextVersion
<1> QED
  BY <1>4, <1>6 DEF StampedFrom

\* A step of the store is a relay or a mutation of one record.
LEMMA StoreSteps ==
  ASSUME StoreTypeOK, StoreNext
  PROVE  \/ RelayOutbox
         \/ \E id \in Ids, op \in EntityOp, row \in StoredEntity : Mutation(id, op, row)
  BY CreateMutates, UpdateMutates, DeleteMutates DEF StoreNext, EntityOp

\* What a mutation writes: the row, one audit entry and one outbox record.
LEMMA MutateWrites ==
  ASSUME StoreTypeOK, NEW id \in Ids, NEW op \in EntityOp, NEW row \in StoredEntity,
         Mutate(id, op, row)
  PROVE  /\ rows' \in [Ids -> StoredEntity \cup {None}]
         /\ rows'[id] = row /\ \A other \in Ids \ {id} : rows'[other] = rows[other]
         /\ audit' \in Seq(AuditEntry) /\ Len(audit') = Len(audit) + 1
         /\ \A i \in 1..Len(audit) : audit'[i] = audit[i]
         /\ audit'[Len(audit) + 1] = [id |-> id, operation |-> op, caseId |-> row.caseId,
                                      version |-> row.version]
         /\ outbox' \in Seq(OutboxRecord) /\ Len(outbox') = Len(outbox) + 1
         /\ \A i \in 1..Len(outbox) : outbox'[i] = outbox[i]
         /\ outbox'[Len(outbox) + 1] = [id |-> id, operation |-> op,
                                        caseId |-> row.caseId, delivered |-> FALSE]
         /\ seqCounter' = seqCounter + 1
         /\ binding' = binding /\ dispatched' = dispatched
<1> DEFINE entry == [id |-> id, operation |-> op, caseId |-> row.caseId,
                     version |-> row.version]
           record == [id |-> id, operation |-> op, caseId |-> row.caseId,
                      delivered |-> FALSE]
<1>1. entry \in AuditEntry /\ record \in OutboxRecord
  BY DEF AuditEntry, OutboxRecord, StoredEntity
<1>2. audit \in Seq(AuditEntry) /\ outbox \in Seq(OutboxRecord)
      /\ rows \in [Ids -> StoredEntity \cup {None}]
  BY DEF StoreTypeOK
<1>3. /\ audit' = Append(audit, entry) /\ outbox' = Append(outbox, record)
      /\ rows' = [rows EXCEPT ![id] = row] /\ seqCounter' = seqCounter + 1
      /\ binding' = binding /\ dispatched' = dispatched
  BY DEF Mutate, Record
<1> HIDE DEF entry, record
<1>4. /\ audit' \in Seq(AuditEntry) /\ Len(audit') = Len(audit) + 1
      /\ \A i \in 1..Len(audit) : audit'[i] = audit[i]
      /\ audit'[Len(audit) + 1] = entry
  BY <1>1, <1>2, <1>3
<1>5. /\ outbox' \in Seq(OutboxRecord) /\ Len(outbox') = Len(outbox) + 1
      /\ \A i \in 1..Len(outbox) : outbox'[i] = outbox[i]
      /\ outbox'[Len(outbox) + 1] = record
  BY <1>1, <1>2, <1>3
<1>6. /\ rows' \in [Ids -> StoredEntity \cup {None}]
      /\ rows'[id] = row /\ \A other \in Ids \ {id} : rows'[other] = rows[other]
  BY <1>2, <1>3
<1> QED
  BY <1>3, <1>4, <1>5, <1>6 DEF entry, record
\* What a relay writes: every outbox record is delivered, those that were not before
\* are counted.
LEMMA RelayWrites ==
  ASSUME StoreTypeOK, RelayOutbox
  PROVE  /\ outbox' \in Seq(OutboxRecord) /\ Len(outbox') = Len(outbox)
         /\ \A i \in 1..Len(outbox) :
              /\ outbox'[i].id = outbox[i].id /\ outbox'[i].operation = outbox[i].operation
              /\ outbox'[i].caseId = outbox[i].caseId
              /\ outbox'[i].delivered = TRUE
         /\ dispatched' = dispatched + Cardinality(Undelivered)
         /\ Cardinality(Undelivered) \in Nat
         /\ UNCHANGED <<binding, rows, audit, seqCounter>>
<1>1. /\ outbox \in Seq(OutboxRecord) /\ DOMAIN outbox = 1..Len(outbox)
      /\ Len(outbox) \in Nat
      /\ \A i \in 1..Len(outbox) : outbox[i] \in OutboxRecord
  BY DEF StoreTypeOK
<1>2. ASSUME NEW o \in OutboxRecord
      PROVE  /\ [o EXCEPT !.delivered = TRUE] \in OutboxRecord
             /\ [o EXCEPT !.delivered = TRUE].id = o.id
             /\ [o EXCEPT !.delivered = TRUE].operation = o.operation
             /\ [o EXCEPT !.delivered = TRUE].caseId = o.caseId
             /\ [o EXCEPT !.delivered = TRUE].delivered = TRUE
  <2>1. /\ [o EXCEPT !.delivered = TRUE] \in OutboxRecord
        /\ [o EXCEPT !.delivered = TRUE].id = o.id
    BY DEF OutboxRecord
  <2>2. [o EXCEPT !.delivered = TRUE].operation = o.operation
    BY DEF OutboxRecord
  <2>3. [o EXCEPT !.delivered = TRUE].caseId = o.caseId
    BY DEF OutboxRecord
  <2>4. [o EXCEPT !.delivered = TRUE].delivered = TRUE
    BY DEF OutboxRecord
  <2> QED
    BY <2>1, <2>2, <2>3, <2>4
<1>3. outbox' = [i \in 1..Len(outbox) |-> [outbox[i] EXCEPT !.delivered = TRUE]]
  BY <1>1 DEF RelayOutbox
<1>4. \A i \in 1..Len(outbox) : outbox'[i] = [outbox[i] EXCEPT !.delivered = TRUE]
  BY <1>3
<1>5. outbox' \in [1..Len(outbox) -> OutboxRecord]
  BY <1>1, <1>2, <1>3
<1>6. outbox' \in Seq(OutboxRecord) /\ Len(outbox') = Len(outbox)
  BY <1>1, <1>5
<1>7. IsFiniteSet(Undelivered)
  <2>1. Undelivered \subseteq 1..Len(outbox)
    BY <1>1 DEF Undelivered
  <2>2. 1 \in Int /\ Len(outbox) \in Int
    BY <1>1
  <2>3. IsFiniteSet(1..Len(outbox))
    BY <2>2, FS_Interval
  <2> QED
    BY <2>1, <2>3, FS_Subset
<1>8. Cardinality(Undelivered) \in Nat
  BY <1>7, FS_CardinalityType
<1> QED
  BY <1>1, <1>2, <1>4, <1>6, <1>8 DEF RelayOutbox

-----------------------------------------------------------------------------

LEMMA StoreInitType == StoreInit => StoreTypeOK
  BY DEF StoreInit, StoreTypeOK

LEMMA StoreStepType ==
  ASSUME StoreTypeOK, [StoreNext]_store
  PROVE  StoreTypeOK'
<1>1. CASE RelayOutbox
  <2>1. /\ outbox' \in Seq(OutboxRecord)
        /\ dispatched' = dispatched + Cardinality(Undelivered)
        /\ Cardinality(Undelivered) \in Nat
        /\ UNCHANGED <<binding, rows, audit, seqCounter>>
    BY <1>1, RelayWrites
  <2> QED
    BY <2>1 DEF StoreTypeOK
<1>2. ASSUME NEW id \in Ids, NEW op \in EntityOp, NEW row \in StoredEntity,
             Mutate(id, op, row)
      PROVE  StoreTypeOK'
  <2>1. /\ rows' \in [Ids -> StoredEntity \cup {None}]
        /\ audit' \in Seq(AuditEntry) /\ outbox' \in Seq(OutboxRecord)
        /\ seqCounter' = seqCounter + 1 /\ binding' = binding /\ dispatched' = dispatched
    BY <1>2, MutateWrites
  <2> QED
    BY <2>1 DEF StoreTypeOK
<1>3. CASE UNCHANGED store
  BY <1>3 DEF store, StoreTypeOK
<1> QED
  BY <1>1, <1>2, <1>3, StoreSteps DEF Mutation

\* The callers' routes change the store through its operations alone.
LEMMA CallerSteps ==
  ASSUME BffTypeOK, [BffNext]_bff
  PROVE  [StoreNext]_store
<1>1. ASSUME NEW id \in Ids, NEW d \in Data, Create(id, None, d)
      PROVE  StoreNext
  BY <1>1 DEF StoreNext
<1>2. ASSUME NEW c \in Clients, NEW named \in Ids \cup {None}, PostCreate(c, named)
      PROVE  [StoreNext]_store
  BY <1>1, <1>2 DEF PostCreate
<1>3. ASSUME NEW c \in Clients, NEW id \in Ids, PatchUpdate(c, id)
      PROVE  [StoreNext]_store
  BY <1>3 DEF PatchUpdate, StoreNext
<1>4. ASSUME NEW id \in Ids, RemoveRecord(id)
      PROVE  [StoreNext]_store
  BY <1>4 DEF RemoveRecord, StoreNext
<1>5. ASSUME binding = "kotlin", Call
      PROVE  [StoreNext]_store
  BY <1>5 DEF Call, StoreNext
<1>6. CASE UNCHANGED store
  BY <1>6
<1>7. ASSUME BffNext
      PROVE  [StoreNext]_store
  <2>1. CASE Relay
    BY <2>1 DEF Relay, StoreNext
  <2>2. CASE binding = "ts" /\ Route
    BY <1>2, <1>3, <1>4, <1>6, <2>2 DEF Route, GetRead, BoundaryRejection
  <2> QED
    BY <1>5, <1>7, <2>1, <2>2 DEF BffNext
<1> QED
  BY <1>6, <1>7 DEF bff

-----------------------------------------------------------------------------

\* What the store keeps in step: a stamp, an audit entry and an outbox record for
\* each mutation; no more is counted as dispatched than was written.
Counted ==
  /\ seqCounter = Len(audit) /\ Len(outbox) = Len(audit)
  /\ dispatched <= Len(outbox)

StoreIInv == StoreTypeOK /\ Counted /\ OutboxFollowsAudit /\ AuditTellsRows

\* The records not yet delivered are those after the ones dispatched.
LEMMA UndeliveredCount ==
  ASSUME StoreTypeOK, Counted, OutboxFollowsAudit
  PROVE  Cardinality(Undelivered) = Len(outbox) - dispatched
<1>1. Len(outbox) \in Nat /\ DOMAIN outbox = 1..Len(outbox) /\ dispatched \in Nat
  BY DEF StoreTypeOK
<1>2. Undelivered = (dispatched + 1)..Len(outbox)
  BY <1>1 DEF Undelivered, OutboxFollowsAudit
<1>3. dispatched + 1 \in Int /\ Len(outbox) \in Int
  BY <1>1
<1>4. Cardinality((dispatched + 1)..Len(outbox)) =
        IF dispatched + 1 > Len(outbox) THEN 0 ELSE Len(outbox) - (dispatched + 1) + 1
  BY <1>3, FS_Interval
<1> QED
  BY <1>1, <1>2, <1>4 DEF Counted

LEMMA OutboxStep ==
  ASSUME StoreTypeOK, Counted, OutboxFollowsAudit, [StoreNext]_store
  PROVE  Counted' /\ OutboxFollowsAudit'
<1>1. Len(outbox) \in Nat /\ DOMAIN outbox = 1..Len(outbox) /\ dispatched \in Nat
  BY DEF StoreTypeOK
<1>2. CASE RelayOutbox
  <2>1. /\ outbox' \in Seq(OutboxRecord) /\ Len(outbox') = Len(outbox)
        /\ \A i \in 1..Len(outbox) :
             /\ outbox'[i].id = outbox[i].id /\ outbox'[i].operation = outbox[i].operation
             /\ outbox'[i].caseId = outbox[i].caseId
             /\ outbox'[i].delivered = TRUE
        /\ dispatched' = dispatched + Cardinality(Undelivered)
        /\ UNCHANGED <<binding, rows, audit, seqCounter>>
    BY <1>2, RelayWrites
  <2>2. dispatched' = Len(outbox)
    BY <1>1, <2>1, UndeliveredCount
  <2>3. DOMAIN outbox' = 1..Len(outbox)
    BY <2>1
  <2>4. Counted'
    BY <1>1, <2>1, <2>2 DEF Counted
  <2>5. OutboxFollowsAudit'
    BY <1>1, <2>1, <2>2, <2>3 DEF OutboxFollowsAudit
  <2> QED
    BY <2>4, <2>5
<1>3. ASSUME NEW id \in Ids, NEW op \in EntityOp, NEW row \in StoredEntity,
             Mutate(id, op, row)
      PROVE  Counted' /\ OutboxFollowsAudit'
  <2> DEFINE n == Len(outbox) + 1
  <2>1. /\ audit' \in Seq(AuditEntry) /\ Len(audit') = Len(audit) + 1
        /\ \A i \in 1..Len(audit) : audit'[i] = audit[i]
        /\ audit'[Len(audit) + 1] = [id |-> id, operation |-> op, caseId |-> row.caseId,
                                     version |-> row.version]
    BY <1>3, MutateWrites
  <2>2. /\ outbox' \in Seq(OutboxRecord) /\ Len(outbox') = n
        /\ \A i \in 1..Len(outbox) : outbox'[i] = outbox[i]
        /\ outbox'[n] = [id |-> id, operation |-> op, caseId |-> row.caseId,
                         delivered |-> FALSE]
        /\ seqCounter' = seqCounter + 1 /\ dispatched' = dispatched
    BY <1>3, MutateWrites
  <2>3. Counted'
    BY <1>1, <2>1, <2>2 DEF Counted
  <2>4. DOMAIN outbox' = 1..n
    BY <2>2
  <2>5. ASSUME NEW i \in 1..Len(outbox)
        PROVE  /\ outbox'[i].id = audit'[i].id /\ outbox'[i].operation = audit'[i].operation
               /\ outbox'[i].caseId = audit'[i].caseId
               /\ outbox'[i].delivered <=> i <= dispatched'
    BY <1>1, <2>1, <2>2 DEF Counted, OutboxFollowsAudit
  <2>6. /\ outbox'[n].id = audit'[n].id /\ outbox'[n].operation = audit'[n].operation
        /\ outbox'[n].caseId = audit'[n].caseId
    BY <2>1, <2>2 DEF Counted
  <2>7. outbox'[n].delivered = FALSE /\ ~(n <= dispatched')
    BY <1>1, <2>2 DEF Counted
  <2>8. 1..n = 1..Len(outbox) \cup {n}
    BY <1>1
  <2>9. Len(outbox') = Len(audit')
    BY <2>1, <2>2 DEF Counted
  <2> QED
    BY <2>3, <2>4, <2>5, <2>6, <2>7, <2>8, <2>9 DEF OutboxFollowsAudit
<1>4. CASE UNCHANGED store
  BY <1>4 DEF store, Counted, OutboxFollowsAudit
<1> QED
  BY <1>2, <1>3, <1>4, StoreSteps DEF Mutation
\* What the audit log says of one record.
Told(id) ==
  /\ rows[id] = None <=> \A i \in DOMAIN audit : audit[i].id # id
  /\ rows[id] # None =>
       LET last == rows[id].updatedSeq + 1
       IN /\ LastEntry(id, last)
          /\ CreationEntry(id, rows[id].createdSeq + 1)
          /\ rows[id].deleted <=> audit[last].operation = "delete"
          /\ rows[id].version = audit[last].version
          /\ rows[id].caseId = audit[last].caseId

\* What a mutation appends to the log, as the properties of the log read it.
LEMMA LogGrows ==
  ASSUME StoreTypeOK, Counted, NEW id \in Ids, NEW op \in EntityOp,
         NEW row \in StoredEntity, Mutation(id, op, row)
  PROVE  LET n == Len(audit) + 1
         IN /\ DOMAIN audit = 1..Len(audit) /\ Len(audit) \in Nat /\ n \notin DOMAIN audit
            /\ DOMAIN audit' = DOMAIN audit \cup {n} /\ row.updatedSeq + 1 = n
            /\ \A i \in DOMAIN audit : audit'[i] = audit[i] /\ i < n
            /\ audit'[n].id = id /\ audit'[n].operation = op
            /\ audit'[n].caseId = row.caseId /\ audit'[n].version = row.version
<1> DEFINE n == Len(audit) + 1
<1>1. DOMAIN audit = 1..Len(audit) /\ Len(audit) \in Nat
  BY DEF StoreTypeOK
<1>2. /\ audit' \in Seq(AuditEntry) /\ Len(audit') = n
      /\ \A i \in 1..Len(audit) : audit'[i] = audit[i]
      /\ audit'[n] = [id |-> id, operation |-> op, caseId |-> row.caseId,
                      version |-> row.version]
  BY MutateWrites DEF Mutation
<1>3. DOMAIN audit' = 1..n
  BY <1>2
<1>4. row.updatedSeq + 1 = n
  BY DEF Mutation, Counted
<1> QED
  BY <1>1, <1>2, <1>3, <1>4

LEMMA PrecedesKept ==
  ASSUME StoreTypeOK, Counted, NEW id \in Ids, NEW op \in EntityOp,
         NEW row \in StoredEntity, Mutation(id, op, row),
         NEW i \in DOMAIN audit, NEW j \in DOMAIN audit
  PROVE  Precedes(i, j)' <=> Precedes(i, j)
<1> DEFINE n == Len(audit) + 1
<1>1. /\ DOMAIN audit = 1..Len(audit) /\ Len(audit) \in Nat
      /\ DOMAIN audit' = DOMAIN audit \cup {n}
      /\ \A k \in DOMAIN audit : audit'[k] = audit[k] /\ k < n
  BY LogGrows
<1>2. ~(n < j)
  BY <1>1
<1> QED
  BY <1>1, <1>2 DEF Precedes

\* The entry before a new one of a record is the last one so far.
LEMMA LastPrecedes ==
  ASSUME StoreTypeOK, Counted, NEW id \in Ids, NEW op \in EntityOp,
         NEW row \in StoredEntity, Mutation(id, op, row), Told(id),
         NEW i \in DOMAIN audit, NEW n, n = Len(audit) + 1
  PROVE  Precedes(i, n)' <=> rows[id] # None /\ i = rows[id].updatedSeq + 1
<1> DEFINE last == rows[id].updatedSeq + 1
<1>1. /\ DOMAIN audit = 1..Len(audit) /\ Len(audit) \in Nat /\ n \notin DOMAIN audit
      /\ DOMAIN audit' = DOMAIN audit \cup {n}
      /\ \A k \in DOMAIN audit : audit'[k] = audit[k] /\ k < n
      /\ audit'[n].id = id
  BY LogGrows
<1>2. Precedes(i, n)' <=> /\ audit[i].id = id
                          /\ \A k \in DOMAIN audit : i < k => audit[k].id # id
  BY <1>1 DEF Precedes
<1>3. ASSUME rows[id] # None
      PROVE  /\ last \in DOMAIN audit /\ audit[last].id = id
             /\ \A k \in DOMAIN audit : k > last => audit[k].id # id
  BY <1>3 DEF Told, LastEntry
<1>4. ASSUME rows[id] # None, Precedes(i, n)'
      PROVE  i = last
  <2>1. ~(i < last) /\ ~(i > last)
    BY <1>2, <1>3, <1>4
  <2>2. i \in Int /\ last \in Int
    BY <1>1, <1>3, <1>4
  <2> QED
    BY <2>1, <2>2
<1>5. ASSUME rows[id] = None
      PROVE  ~Precedes(i, n)'
  BY <1>2, <1>5 DEF Told
<1>6. ASSUME rows[id] # None, i = last
      PROVE  Precedes(i, n)'
  BY <1>2, <1>3, <1>6
<1> QED
  BY <1>4, <1>5, <1>6

\* An entry that may follow the log so far.
LEMMA LegalStep ==
  ASSUME StoreTypeOK, Counted, NEW id \in Ids, NEW op \in EntityOp,
         NEW row \in StoredEntity, Mutation(id, op, row), Told(id), LegalLog,
         NEW n, n = Len(audit) + 1, NEW last, last = rows[id].updatedSeq + 1
  PROVE  LegalLog'
<1>1. /\ DOMAIN audit' = DOMAIN audit \cup {n} /\ n \notin DOMAIN audit
      /\ \A k \in DOMAIN audit : audit'[k] = audit[k] /\ k < n
      /\ audit'[n].id = id /\ audit'[n].operation = op
      /\ audit'[n].caseId = row.caseId /\ audit'[n].version = row.version
  BY LogGrows
<1>2. binding' = binding /\ DOMAIN audit = 1..Len(audit) /\ Len(audit) \in Nat
  BY MutateWrites, LogGrows DEF Mutation
<1>3. \A i, j \in DOMAIN audit : Precedes(i, j)' <=> Precedes(i, j)
  BY PrecedesKept
<1>4. \A i \in DOMAIN audit : Precedes(i, n)' <=> rows[id] # None /\ i = last
  BY LastPrecedes
<1>5. \A i : \A j : Precedes(i, j)' => i < j
  BY DEF Precedes
<1> SUFFICES ASSUME NEW j \in DOMAIN audit'
             PROVE  IF audit'[j].operation = "create"
                    THEN /\ audit'[j].version = 1
                         /\ \A i \in DOMAIN audit' :
                              Precedes(i, j)' => /\ binding' = "ts"
                                                 /\ audit'[i].operation = "delete"
                    ELSE \E i \in DOMAIN audit' :
                           /\ Precedes(i, j)' /\ audit'[i].operation # "delete"
                           /\ audit'[j].version = audit'[i].version + 1
                           /\ audit'[j].caseId = audit'[i].caseId
  BY DEF LegalLog
<1>6. CASE j \in DOMAIN audit
  <2>1. ~Precedes(n, j)'
    BY <1>1, <1>2, <1>5, <1>6
  <2> QED
    BY <1>1, <1>2, <1>3, <1>6, <2>1 DEF LegalLog
<1>7. CASE j = n
  <2>1. ~Precedes(n, n)'
    BY <1>2, <1>5
  <2>2. ASSUME op = "create", NEW i \in DOMAIN audit, Precedes(i, n)'
        PROVE  binding = "ts" /\ audit[i].operation = "delete"
    <3>1. rows[id] # None /\ i = last
      BY <1>4, <2>2
    <3>2. Free(id)
      BY <2>2 DEF Mutation
    <3>3. binding = "ts" /\ rows[id].deleted
      BY <3>1, <3>2 DEF Free, Live
    <3> QED
      BY <3>1, <3>3 DEF Told
  <2>3. CASE op = "create"
    <3>1. row.version = 1
      BY <2>3 DEF Mutation
    <3> QED
      BY <1>1, <1>2, <1>7, <2>1, <2>2, <2>3, <3>1
  <2>4. CASE op # "create"
    <3>1. /\ Live(id) /\ row.version = rows[id].version + 1
          /\ row.caseId = rows[id].caseId
      BY <2>4 DEF Mutation
    <3>2. rows[id] # None /\ ~rows[id].deleted
      BY <3>1 DEF Live
    <3>3. /\ last \in DOMAIN audit /\ audit[last].operation # "delete"
          /\ rows[id].version = audit[last].version /\ rows[id].caseId = audit[last].caseId
      BY <3>2 DEF Told, LastEntry
    <3>4. Precedes(last, n)'
      BY <1>4, <3>2, <3>3
    <3> QED
      BY <1>1, <1>7, <2>4, <3>1, <3>3, <3>4
  <2> QED
    BY <2>3, <2>4
<1> QED
  BY <1>1, <1>6, <1>7

\* The log tells the record that was mutated, and goes on telling the others.
LEMMA ToldMutated ==
  ASSUME StoreTypeOK, Counted, NEW id \in Ids, NEW op \in EntityOp,
         NEW row \in StoredEntity, Mutation(id, op, row), Told(id)
  PROVE  Told(id)'
<1> SUFFICES ASSUME NEW n, n = Len(audit) + 1
             PROVE  Told(id)'
  OBVIOUS
<1>1. /\ DOMAIN audit' = DOMAIN audit \cup {n} /\ n \notin DOMAIN audit
      /\ \A k \in DOMAIN audit : audit'[k] = audit[k] /\ k < n
      /\ audit'[n].id = id /\ audit'[n].operation = op
      /\ audit'[n].caseId = row.caseId /\ audit'[n].version = row.version
      /\ row.updatedSeq + 1 = n
  BY LogGrows
<1>2. rows'[id] = row /\ row # None
  BY MutateWrites, StoreAssumption DEF Mutation
<1>3. n \in Nat /\ DOMAIN audit \subseteq Nat
  BY LogGrows
<1>4. \A k \in DOMAIN audit' : ~(k > n)
  BY <1>1, <1>3
<1>5. LastEntry(id, n)'
  BY <1>1, <1>4 DEF LastEntry
<1>6. CreationEntry(id, row.createdSeq + 1)'
  <2>1. CASE op = "create"
    <3>1. row.createdSeq + 1 = n
      BY <1>1, <2>1 DEF Mutation
    <3>2. CreationEntry(id, n)'
      BY <1>1, <1>4, <2>1 DEF CreationEntry
    <3> QED
      BY <3>1, <3>2
  <2>2. CASE op # "create"
    <3>1. Live(id) /\ row.createdSeq = rows[id].createdSeq
      BY <2>2 DEF Mutation
    <3>2. CreationEntry(id, row.createdSeq + 1)
      BY <3>1 DEF Live, Told
    <3> QED
      BY <1>1, <2>2, <3>2 DEF CreationEntry
  <2> QED
    BY <2>1, <2>2
<1>7. row.deleted <=> op = "delete"
  BY DEF Mutation
<1>8. rows'[id] # None /\ n \in DOMAIN audit' /\ audit'[n].id = id
  BY <1>1, <1>2
<1> QED
  BY <1>1, <1>2, <1>5, <1>6, <1>7, <1>8 DEF Told

LEMMA ToldOther ==
  ASSUME StoreTypeOK, Counted, NEW id \in Ids, NEW op \in EntityOp,
         NEW row \in StoredEntity, Mutation(id, op, row),
         NEW other \in Ids \ {id}, Told(other)
  PROVE  Told(other)'
<1> SUFFICES ASSUME NEW n, n = Len(audit) + 1
             PROVE  Told(other)'
  OBVIOUS
<1>1. /\ DOMAIN audit' = DOMAIN audit \cup {n}
      /\ \A k \in DOMAIN audit : audit'[k] = audit[k]
      /\ audit'[n].id = id
  BY LogGrows
<1>2. rows'[other] = rows[other]
  BY MutateWrites DEF Mutation
<1>3. \A m : LastEntry(other, m) => LastEntry(other, m)'
  BY <1>1 DEF LastEntry
<1>4. \A m : CreationEntry(other, m) => CreationEntry(other, m)'
  BY <1>1 DEF CreationEntry
<1>5. (\A i \in DOMAIN audit : audit[i].id # other) <=>
        (\A i \in DOMAIN audit' : audit'[i].id # other)
  BY <1>1
<1>6. CASE rows[other] = None
  BY <1>2, <1>5, <1>6 DEF Told
<1>7. CASE rows[other] # None
  <2> DEFINE last == rows[other].updatedSeq + 1
  <2>1. LastEntry(other, last) /\ CreationEntry(other, rows[other].createdSeq + 1)
    BY <1>7 DEF Told
  <2>2. last \in DOMAIN audit /\ audit'[last] = audit[last]
    BY <1>1, <2>1 DEF LastEntry
  <2>3. ~(\A i \in DOMAIN audit' : audit'[i].id # other)
    BY <1>5, <1>7 DEF Told
  <2>4. \A m : m = last => LastEntry(other, m)'
    BY <1>3, <2>1
  <2>5. \A m : m = rows[other].createdSeq + 1 => CreationEntry(other, m)'
    BY <1>4, <2>1
  <2>6. \A m : m = last => /\ rows'[other].deleted <=> audit'[m].operation = "delete"
                          /\ rows'[other].version = audit'[m].version
                          /\ rows'[other].caseId = audit'[m].caseId
    BY <1>2, <1>7, <2>2 DEF Told
  <2> QED
    BY <1>2, <1>7, <2>3, <2>4, <2>5, <2>6 DEF Told
<1> QED
  BY <1>6, <1>7

LEMMA AuditStep ==
  ASSUME StoreTypeOK, Counted, AuditTellsRows, [StoreNext]_store
  PROVE  AuditTellsRows'
<1>1. LegalLog /\ \A id \in Ids : Told(id)
  BY DEF AuditTellsRows, Told
<1>2. ASSUME UNCHANGED <<binding, rows, audit>>
      PROVE  AuditTellsRows'
  <2>1. LegalLog'
    BY <1>1, <1>2 DEF LegalLog, Precedes
  <2>2. \A id \in Ids : Told(id)'
    BY <1>1, <1>2 DEF Told, LastEntry, CreationEntry
  <2> QED
    BY <2>1, <2>2 DEF AuditTellsRows, Told
<1>3. ASSUME NEW id \in Ids, NEW op \in EntityOp, NEW row \in StoredEntity,
             Mutation(id, op, row)
      PROVE  AuditTellsRows'
  <2>1. LegalLog'
    BY <1>1, <1>3, LegalStep
  <2>2. \A other \in Ids : Told(other)'
    BY <1>1, <1>3, ToldMutated, ToldOther
  <2> QED
    BY <2>1, <2>2 DEF AuditTellsRows, Told
<1> QED
  BY <1>2, <1>3, StoreSteps DEF RelayOutbox, store

-----------------------------------------------------------------------------

\* The store alone keeps its inductive invariant, whoever calls it.
THEOREM StoreInvariance == StoreSpec => []StoreIInv
<1>1. StoreInit => StoreIInv
  <2> SUFFICES ASSUME StoreInit
               PROVE  StoreIInv
    OBVIOUS
  <2>1. Len(audit) = 0 /\ Len(outbox) = 0 /\ DOMAIN audit = {} /\ DOMAIN outbox = {}
    BY DEF StoreInit
  <2>2. Counted /\ OutboxFollowsAudit
    BY <2>1 DEF StoreInit, Counted, OutboxFollowsAudit
  <2>3. AuditTellsRows
    BY <2>1 DEF StoreInit, AuditTellsRows, LegalLog
  <2> QED
    BY <2>2, <2>3, StoreInitType DEF StoreIInv
<1>2. StoreIInv /\ [StoreNext]_store => StoreIInv'
  BY StoreStepType, OutboxStep, AuditStep DEF StoreIInv
<1> QED
  BY <1>1, <1>2, PTL DEF StoreSpec

LEMMA ViewSteps ==
  ASSUME BffTypeOK, [BffNext]_bff
  PROVE  \/ UNCHANGED view
         \/ \E c \in Clients, id \in Ids : See(c, id) /\ rows'[id] \in StoredEntity
<1>1. StoreTypeOK
  BY DEF BffTypeOK
<1>2. ASSUME NEW id \in Ids, NEW k \in Cases \cup {None}, NEW d \in Data, Create(id, k, d)
      PROVE  rows'[id] \in StoredEntity
  <2>1. PICK row \in StoredEntity : Mutate(id, "create", row)
    BY <1>1, <1>2, CreateMutates DEF Mutation
  <2>2. "create" \in EntityOp
    BY DEF EntityOp
  <2> QED
    BY <1>1, <2>1, <2>2, MutateWrites
<1>3. ASSUME NEW id \in Ids, NEW d \in Data, Update(id, d)
      PROVE  rows'[id] \in StoredEntity
  <2>1. PICK row \in StoredEntity : Mutate(id, "update", row)
    BY <1>1, <1>3, UpdateMutates DEF Mutation
  <2>2. "update" \in EntityOp
    BY DEF EntityOp
  <2> QED
    BY <1>1, <2>1, <2>2, MutateWrites
<1>4. ASSUME NEW id \in Ids, Live(id), UNCHANGED store
      PROVE  rows'[id] \in StoredEntity
  BY <1>1, <1>4, RowType DEF Live, store
<1>5. ASSUME NEW c \in Clients, NEW named \in Ids \cup {None}, PostCreate(c, named)
      PROVE  \/ UNCHANGED view
             \/ \E id \in Ids : See(c, id) /\ rows'[id] \in StoredEntity
  BY <1>2, <1>5 DEF PostCreate
<1>6. ASSUME NEW c \in Clients, NEW id \in Ids, GetRead(c, id) \/ PatchUpdate(c, id)
      PROVE  UNCHANGED view \/ (See(c, id) /\ rows'[id] \in StoredEntity)
  BY <1>3, <1>4, <1>6 DEF GetRead, PatchUpdate
<1>7. ASSUME Call
      PROVE  \/ UNCHANGED view
             \/ \E c \in Clients, id \in Ids : See(c, id) /\ rows'[id] \in StoredEntity
  BY <1>2, <1>3, <1>4, <1>7 DEF Call
<1>8. ASSUME Route
      PROVE  \/ UNCHANGED view
             \/ \E c \in Clients, id \in Ids : See(c, id) /\ rows'[id] \in StoredEntity
  BY <1>5, <1>6, <1>8 DEF Route, RemoveRecord, BoundaryRejection
<1> QED
  BY <1>7, <1>8 DEF BffNext, Relay, bff

\* Every response has one of the six statuses, and every caller holds a snapshot of
\* a record or none: the types of the callers.
THEOREM CallersType == BffSpec => []BffTypeOK
<1>1. BffInit => BffTypeOK
  BY StoreInitType DEF BffInit, BffTypeOK
<1>2. ASSUME BffTypeOK, [BffNext]_bff
      PROVE  BffTypeOK'
  <2>1. StoreTypeOK'
    BY <1>2, CallerSteps, StoreStepType DEF BffTypeOK
  <2>2. idCounter' \in Nat
    BY <1>2 DEF BffTypeOK, BffNext, Route, Call, Relay, PostCreate, GetRead, PatchUpdate,
                RemoveRecord, BoundaryRejection, bff
  <2>3. status' \in {200, 201, 204, 404, 422, 500}
    BY <1>2 DEF BffTypeOK, BffNext, Route, Call, Relay, PostCreate, GetRead, PatchUpdate,
                RemoveRecord, BoundaryRejection, Respond, bff
  <2>4. view' \in [Clients -> [id: Ids, row: StoredEntity] \cup {None}]
    BY <1>2, ViewSteps DEF BffTypeOK, See
  <2> QED
    BY <2>1, <2>2, <2>3, <2>4 DEF BffTypeOK
<1> QED
  BY <1>1, <1>2, PTL DEF BffSpec

\* The routes of the BFF and the callers of the repository implement the store: they
\* change it through create, update, delete and relay and never in another way.
THEOREM CallersImplementStore == BffSpec => StoreSpec
<1>1. BffInit => StoreInit
  BY DEF BffInit
<1>2. BffTypeOK /\ [BffNext]_bff => [StoreNext]_store
  BY CallerSteps
<1> QED
  BY <1>1, <1>2, CallersType, PTL DEF BffSpec, StoreSpec

\* The outbox repeats the audit log, entry for entry, and over all relays each record
\* is dispatched once: the "no window" of the transactional outbox.
THEOREM OutboxComplete == BffSpec => []OutboxFollowsAudit
  BY CallersImplementStore, StoreInvariance, PTL DEF StoreIInv

\* The audit log is a legal one and tells every record, its version, its Case and its
\* stamps, under both bindings.
THEOREM AuditComplete == BffSpec => []AuditTellsRows
  BY CallersImplementStore, StoreInvariance, PTL DEF StoreIInv

-----------------------------------------------------------------------------

\* What a snapshot of record id still says of it: it has not been forgotten, and in
\* the same life a later version is a higher one.
SnapshotOK(id, seen) ==
  /\ rows[id] # None /\ seen.createdSeq < seqCounter
  /\ binding = "kotlin" => rows[id].createdSeq = seen.createdSeq
  /\ rows[id].createdSeq = seen.createdSeq =>
       seen.version <= rows[id].version /\ (seen.version = rows[id].version => rows[id] = seen)

SnapshotsOK == \A c \in Clients : view[c] # None => SnapshotOK(view[c].id, view[c].row)

LEMMA SnapshotKept ==
  ASSUME StoreTypeOK, [StoreNext]_store, NEW id \in Ids, NEW seen \in StoredEntity,
         SnapshotOK(id, seen)
  PROVE  SnapshotOK(id, seen)'
<1>1. CASE UNCHANGED <<binding, rows, seqCounter>>
  BY <1>1 DEF SnapshotOK
<1>2. ASSUME NEW other \in Ids, NEW op \in EntityOp, NEW row \in StoredEntity,
             Mutation(other, op, row)
      PROVE  SnapshotOK(id, seen)'
  <2>1. /\ rows'[other] = row /\ (id # other => rows'[id] = rows[id])
        /\ seqCounter' = seqCounter + 1 /\ binding' = binding
    BY <1>2, MutateWrites DEF Mutation
  <2>2. /\ seqCounter \in Nat /\ row # None /\ binding \in {"ts", "kotlin"}
        /\ seen.createdSeq \in Nat /\ seen.version \in Nat
    BY StoreAssumption DEF StoreTypeOK, StoredEntity
  <2>3. rows[id] \in StoredEntity /\ rows[id].version \in Nat
    BY RowType DEF SnapshotOK, StoredEntity
  <2>4. CASE id # other
    BY <2>1, <2>2, <2>4 DEF SnapshotOK
  <2>5. CASE id = other /\ op = "create"
    <3>1. binding # "kotlin"
      BY <1>2, <2>5 DEF Mutation, Free, SnapshotOK
    <3>2. row.createdSeq = seqCounter
      BY <1>2, <2>5 DEF Mutation
    <3>3. row.createdSeq # seen.createdSeq /\ seen.createdSeq < seqCounter + 1
      BY <2>2, <3>2 DEF SnapshotOK
    <3> QED
      BY <2>1, <2>2, <2>5, <3>1, <3>3 DEF SnapshotOK
  <2>6. CASE id = other /\ op # "create"
    <3>1. row.createdSeq = rows[id].createdSeq /\ row.version = rows[id].version + 1
      BY <1>2, <2>6 DEF Mutation
    <3>2. row.createdSeq = seen.createdSeq =>
            seen.version <= row.version /\ seen.version # row.version
      BY <2>2, <2>3, <3>1 DEF SnapshotOK
    <3>3. seen.createdSeq < seqCounter + 1
      BY <2>2 DEF SnapshotOK
    <3> QED
      BY <2>1, <2>2, <2>6, <3>1, <3>2, <3>3 DEF SnapshotOK
  <2> QED
    BY <2>4, <2>5, <2>6
<1> QED
  BY <1>1, <1>2, StoreSteps DEF RelayOutbox, store

\* A version a caller has read names one state of the record, for the Kotlin binding
\* by itself and for the TypeScript one with the stamp of the creation: the token
\* that an optimistic update would compare detects every change.
THEOREM VersionsDetect == BffSpec => []VersionDetectsChange
<1>1. BffInit => SnapshotsOK
  BY DEF BffInit, SnapshotsOK
<1>2. ASSUME BffTypeOK, BffTypeOK', StoreIInv', SnapshotsOK, [BffNext]_bff
      PROVE  SnapshotsOK'
  <2>1. [StoreNext]_store /\ StoreTypeOK
    BY <1>2, CallerSteps DEF BffTypeOK
  <2>2. ASSUME NEW c \in Clients, view[c] # None
        PROVE  SnapshotOK(view[c].id, view[c].row) /\ view[c].id \in Ids
               /\ view[c].row \in StoredEntity
    BY <1>2, <2>2 DEF SnapshotsOK, BffTypeOK
  <2>3. \A c \in Clients : \A id, seen :
          view[c] # None /\ id = view[c].id /\ seen = view[c].row => SnapshotOK(id, seen)'
    BY <2>1, <2>2, SnapshotKept
  <2>4. CASE UNCHANGED view
    BY <2>3, <2>4 DEF SnapshotsOK
  <2>5. ASSUME NEW c \in Clients, NEW id \in Ids, See(c, id), rows'[id] \in StoredEntity
        PROVE  SnapshotsOK'
    <3>1. view' = [view EXCEPT ![c] = [id |-> id, row |-> rows'[id]]]
      BY <2>5 DEF See
    <3>2. /\ view'[c] = [id |-> id, row |-> rows'[id]]
          /\ \A k \in Clients \ {c} : view'[k] = view[k]
      BY <1>2, <3>1 DEF BffTypeOK
    <3>3. rows'[id] # None
      BY <2>5, StoreAssumption
    <3>4. rows'[id].createdSeq < seqCounter' /\ rows'[id].version \in Nat
      <4>1. CreationEntry(id, rows[id].createdSeq + 1)'
        BY <1>2, <3>3 DEF StoreIInv, AuditTellsRows
      <4>2. rows'[id].createdSeq + 1 \in DOMAIN audit'
        BY <4>1 DEF CreationEntry
      <4>3. DOMAIN audit' = 1..Len(audit') /\ Len(audit') \in Nat /\ seqCounter' = Len(audit')
        BY <1>2 DEF StoreIInv, StoreTypeOK, Counted
      <4>4. rows'[id].createdSeq \in Nat /\ rows'[id].version \in Nat
        BY <2>5 DEF StoredEntity
      <4> QED
        BY <4>2, <4>3, <4>4
    <3>5. \A seen : seen = rows'[id] => SnapshotOK(id, seen)'
      BY <3>3, <3>4 DEF SnapshotOK
    <3>6. \A k \in Clients \ {c} : \A i, seen :
            view'[k] # None /\ i = view'[k].id /\ seen = view'[k].row => SnapshotOK(i, seen)'
      BY <2>3, <3>2
    <3> QED
      BY <3>2, <3>5, <3>6 DEF SnapshotsOK
  <2> QED
    BY <1>2, <2>4, <2>5, ViewSteps
<1>3. BffTypeOK /\ SnapshotsOK => VersionDetectsChange
  <2> SUFFICES ASSUME BffTypeOK, SnapshotsOK, NEW c \in Clients, view[c] # None,
                      rows[view[c].id].version = view[c].row.version,
                      binding = "ts" =>
                        rows[view[c].id].createdSeq = view[c].row.createdSeq
               PROVE  rows[view[c].id] = view[c].row
    BY DEF VersionDetectsChange
  <2>1. SnapshotOK(view[c].id, view[c].row) /\ binding \in {"ts", "kotlin"}
    BY StoreAssumption DEF SnapshotsOK, BffTypeOK, StoreTypeOK
  <2> QED
    BY <2>1 DEF SnapshotOK
<1>4. BffSpec => []StoreIInv
  BY CallersImplementStore, StoreInvariance, PTL
<1> QED
  BY <1>1, <1>2, <1>3, <1>4, CallersType, PTL DEF BffSpec

-----------------------------------------------------------------------------

LEMMA CutFacts ==
  ASSUME NEW S, NEW m \in Seq(S), NEW a \in 0..Len(m), NEW b \in 0..Len(m), a <= b
  PROVE  /\ SubSeq(m, a + 1, b) \in Seq(S)
         /\ Len(SubSeq(m, a + 1, b)) = b - a
         /\ \A i \in 1..(b - a) : SubSeq(m, a + 1, b)[i] = m[a + i]
  OBVIOUS

\* Two cuts that meet are one.
LEMMA CutsMeet ==
  ASSUME NEW S, NEW m \in Seq(S), NEW a \in 0..Len(m), NEW b \in 0..Len(m), a <= b
  PROVE  SubSeq(m, 1, a) \o SubSeq(m, a + 1, b) = SubSeq(m, 1, b)
<1> DEFINE s == SubSeq(m, 1, a)  t == SubSeq(m, a + 1, b)  u == SubSeq(m, 1, b)
<1>1. /\ s \in Seq(S) /\ Len(s) = a /\ \A i \in 1..a : s[i] = m[i]
      /\ u \in Seq(S) /\ Len(u) = b /\ \A i \in 1..b : u[i] = m[i]
  OBVIOUS
<1>2. t \in Seq(S) /\ Len(t) = b - a /\ \A i \in 1..(b - a) : t[i] = m[a + i]
  BY CutFacts
<1> HIDE DEF s, t, u
<1>3. /\ s \o t \in Seq(S) /\ Len(s \o t) = b
      /\ \A i \in 1..a : (s \o t)[i] = s[i]
      /\ \A i \in (a + 1)..b : (s \o t)[i] = t[i - a]
  BY <1>1, <1>2
<1>4. ASSUME NEW i \in 1..b PROVE (s \o t)[i] = u[i]
  <2>1. CASE i \in 1..a
    BY <1>1, <1>3, <2>1
  <2>2. CASE i \notin 1..a
    <3>1. i \in (a + 1)..b /\ i - a \in 1..(b - a) /\ a + (i - a) = i
      BY <2>2
    <3> QED
      BY <1>1, <1>2, <1>3, <3>1
  <2> QED
    BY <2>1, <2>2
<1>5. s \o t = u
  BY <1>1, <1>3, <1>4
<1> QED
  BY <1>5 DEF s, t, u

\* A sequence cut at successive places is the concatenation of the cuts.
LEMMA CutsTile ==
  ASSUME NEW S, NEW m \in Seq(S), NEW K \in Nat \ {0}, NEW e \in [0..K -> 0..Len(m)],
         e[0] = 0, e[K] = Len(m), \A p \in 1..K : e[p - 1] <= e[p]
  PROVE  FlattenSeq([p \in 1..K |-> SubSeq(m, e[p - 1] + 1, e[p])]) = m
<1> DEFINE pages == [p \in 1..K |-> SubSeq(m, e[p - 1] + 1, e[p])]
           Unfolds(f) == f = [i \in 1..K |-> IF i = 1 THEN pages[i] ELSE f[i - 1] \o pages[i]]
           heads == [p \in 1..K |-> SubSeq(m, 1, e[p])]
           flat == CHOOSE f : Unfolds(f)
<1>1. \A p \in 1..K : p - 1 \in 0..K /\ p \in 0..K
  OBVIOUS
<1>2. ASSUME NEW p \in 1..K, p # 1 PROVE heads[p] = heads[p - 1] \o pages[p]
  <2>1. p - 1 \in 1..K /\ e[p - 1] \in 0..Len(m) /\ e[p] \in 0..Len(m) /\ e[p - 1] <= e[p]
    BY <1>1, <1>2
  <2> QED
    BY <2>1, CutsMeet
<1>3. heads[1] = pages[1]
  OBVIOUS
<1>4. Unfolds(heads)
  BY <1>2, <1>3
<1>5. Unfolds(flat)
  <2> HIDE DEF heads, pages
  <2>1. \E f : Unfolds(f)
    BY <1>4
  <2> QED
    BY <2>1
<1> HIDE DEF heads, pages, flat
<1>6. \A i \in 1..K : flat[i] = IF i = 1 THEN pages[i] ELSE flat[i - 1] \o pages[i]
  BY <1>5
<1>7. flat[K] = heads[K]
  <2> SUFFICES ASSUME flat[K] # heads[K] PROVE FALSE
    OBVIOUS
  <2> DEFINE Bad == {i \in 1..K : flat[i] # heads[i]}
  <2>1. Bad \subseteq Nat /\ K \in Bad
    OBVIOUS
  <2>2. PICK i \in Bad : \A j \in Bad : i <= j
    BY <2>1, LeastNatural
  <2>3. CASE i = 1
    BY <1>3, <1>6, <2>3
  <2>4. CASE i # 1
    <3>1. i - 1 \in 1..K /\ i - 1 \notin Bad
      BY <2>2, <2>4
    <3> QED
      BY <1>2, <1>6, <2>4, <3>1
  <2> QED
    BY <2>3, <2>4
<1>8. heads[K] = m
  BY DEF heads
<1>9. Len(pages) = K
  BY DEF pages
<1>10. FlattenSeq(pages) = flat[K]
  BY <1>9 DEF FlattenSeq, flat
<1> QED
  BY <1>7, <1>8, <1>10 DEF pages

LEMMA SmallRemainder == \A x, k \in Nat : x < k => x % k = x
  OBVIOUS

LEMMA Division ==
  ASSUME NEW n \in Nat, NEW size \in Nat \ {0}
  PROVE  /\ n \div size \in Nat
         /\ (n \div size) * size <= n /\ n < (n \div size) * size + size
  OBVIOUS

LEMMA Multiples ==
  ASSUME NEW size \in Nat, NEW p \in Nat, NEW k \in Nat
  PROVE  /\ p * size \in Nat /\ (p + 1) * size = p * size + size
         /\ p <= k => p * size <= k * size
  OBVIOUS

LEMMA WrapInRange ==
  ASSUME NEW x \in 0..IntMax
  PROVE  Wrap(x) = x
<1>1. IntMax \in Nat
  BY StoreAssumption
<1>2. PICK y, k \in Nat : y = x + IntMax + 1 /\ k = 2 * (IntMax + 1)
  BY <1>1
<1>3. y < k
  BY <1>1, <1>2
<1>4. y % k = y
  BY <1>3, SmallRemainder
<1> QED
  BY <1>1, <1>2, <1>4 DEF Wrap

\* Within the Int range the Kotlin binding's window is the other one's: page p ends
\* where the records do, or p + 1 whole pages in.
Ends(n, size, p) == IF p * size <= n THEN p * size ELSE n

LEMMA WindowInRange ==
  ASSUME StoreTypeOK, NEW n \in Nat, NEW size \in Nat \ {0}, n + size <= IntMax,
         NEW p \in Nat, p * size <= n
  PROVE  /\ Window(p, size, n).from = Ends(n, size, p)
         /\ Window(p, size, n).to = Ends(n, size, p + 1)
<1>1. PICK x \in Nat : x = p * size
  BY Multiples
<1>2. x \in 0..n /\ Ends(n, size, p) = x
  BY <1>1 DEF Ends
<1>3. (p + 1) * size = x + size
  BY <1>1, Multiples
<1>4. Ends(n, size, p + 1) = CoerceIn(x + size, n)
  BY <1>3 DEF Ends, CoerceIn
<1>5. CoerceIn(x, n) = x
  BY <1>2 DEF CoerceIn
<1>6. Wrap(x) = x /\ Wrap(x + size) = x + size
  <2>1. IntMax \in Nat
    BY StoreAssumption
  <2>2. x \in 0..IntMax /\ x + size \in 0..IntMax
    BY <1>2, <2>1
  <2> QED
    BY <2>2, WrapInRange
<1>7. binding \in {"ts", "kotlin"}
  BY StoreAssumption DEF StoreTypeOK
<1> QED
  BY <1>1, <1>2, <1>4, <1>5, <1>6, <1>7 DEF Window

LEMMA PagesTile ==
  ASSUME StoreTypeOK, NEW S, NEW m \in Seq(S), NEW size \in Nat \ {0}, Len(m) + size <= IntMax
  PROVE  FlattenSeq([p \in 1..(Len(m) \div size + 1) |-> Page(m, p - 1, size)]) = m
<1> DEFINE n == Len(m)
<1>1. n \in Nat
  OBVIOUS
<1>2. PICK k \in Nat : k = n \div size /\ k * size <= n /\ n < k * size + size
  BY <1>1, Division
<1> DEFINE e == [p \in 0..(k + 1) |-> Ends(n, size, p)]
<1> HIDE DEF n
<1>3. ASSUME NEW p \in 0..(k + 1) PROVE e[p] \in 0..n
  <2>1. p \in Nat
    OBVIOUS
  <2>2. p * size \in Nat
    BY <2>1, Multiples
  <2>3. Ends(n, size, p) \in 0..n
    BY <1>1, <2>2 DEF Ends
  <2> QED
    BY <2>3
<1>4. ASSUME NEW p \in 1..(k + 1)
      PROVE  /\ Page(m, p - 1, size) = SubSeq(m, e[p - 1] + 1, e[p]) /\ e[p - 1] <= e[p]
  <2>1. PICK q \in 0..k : q = p - 1 /\ p = q + 1
    OBVIOUS
  <2>2. PICK x \in Nat : x = q * size /\ (q + 1) * size = x + size /\ x <= n
    BY <1>1, <1>2, Multiples
  <2>3. /\ Window(q, size, n).from = Ends(n, size, q)
        /\ Window(q, size, n).to = Ends(n, size, q + 1)
    <3>1. n + size <= IntMax
      BY DEF n
    <3>2. q \in Nat /\ q * size <= n
      BY <1>2, <2>2
    <3> QED
      BY <1>1, <3>1, <3>2, WindowInRange
  <2>4. /\ Ends(n, size, q) = x /\ Ends(n, size, q + 1) \in Nat
        /\ Ends(n, size, q) <= Ends(n, size, q + 1)
    BY <1>1, <2>2 DEF Ends
  <2>5. Page(m, q, size) = SubSeq(m, Ends(n, size, q) + 1, Ends(n, size, q + 1))
    BY <2>3, <2>4 DEF Page, n
  <2>6. e[p - 1] = Ends(n, size, q) /\ e[p] = Ends(n, size, q + 1)
    BY <2>1
  <2> QED
    BY <2>1, <2>4, <2>5, <2>6
<1>5. e[0] = 0
  <2>1. 0 * size = 0
    OBVIOUS
  <2> QED
    BY <1>1, <2>1 DEF Ends
<1>6. e[k + 1] = n
  <2>1. (k + 1) * size = k * size + size /\ k * size \in Nat
    BY Multiples
  <2>2. ~((k + 1) * size <= n)
    BY <1>1, <1>2, <2>1
  <2> QED
    BY <2>2 DEF Ends
<1>7. e \in [0..(k + 1) -> 0..Len(m)]
  BY <1>3 DEF n
<1>8. k + 1 \in Nat \ {0} /\ e[0] = 0 /\ e[k + 1] = Len(m)
  BY <1>5, <1>6 DEF n
<1>9. \A p \in 1..(k + 1) : e[p - 1] <= e[p]
  BY <1>4
<1>10. [p \in 1..(n \div size + 1) |-> Page(m, p - 1, size)]
         = [p \in 1..(k + 1) |-> SubSeq(m, e[p - 1] + 1, e[p])]
  BY <1>2, <1>4
<1> HIDE DEF e
<1>11. FlattenSeq([p \in 1..(k + 1) |-> SubSeq(m, e[p - 1] + 1, e[p])]) = m
  BY <1>7, <1>8, <1>9, CutsTile
<1> QED
  BY <1>10, <1>11 DEF n

\* The order of a query is a strict total one on the records found.
LEMMA BeforeOrders ==
  ASSUME StoreTypeOK, NEW wanted, NEW sorted \in BOOLEAN
  PROVE  \A x, y, z \in Found(wanted) :
           /\ ~Before(sorted, x, x)
           /\ Before(sorted, x, y) /\ Before(sorted, y, z) => Before(sorted, x, z)
           /\ x = y \/ Before(sorted, x, y) \/ Before(sorted, y, x)
<1>1. \A x \in Found(wanted) : x \in Nat /\ rows[x].data \in Nat
  <2> SUFFICES ASSUME NEW x \in Found(wanted) PROVE x \in Nat /\ rows[x].data \in Nat
    OBVIOUS
  <2>1. x \in Ids /\ rows[x] # None
    BY DEF Found, Live
  <2>2. rows[x] \in StoredEntity
    BY <2>1 DEF StoreTypeOK
  <2> QED
    BY <2>1, <2>2, StoreAssumption DEF StoredEntity
<1> QED
  BY <1>1 DEF Before

\* The answer lists the records found, each once and in order.
LEMMA MatchesList ==
  ASSUME StoreTypeOK, NEW wanted, NEW sorted \in BOOLEAN, IsFiniteSet(Found(wanted))
  PROVE  LET m == Matches(wanted, sorted) IN
         /\ m \in Seq(Found(wanted)) /\ {m[i] : i \in DOMAIN m} = Found(wanted)
         /\ \A i, j \in DOMAIN m : i < j => Before(sorted, m[i], m[j])
<1> DEFINE S == Found(wanted)
           n == Cardinality(S)
           before(x) == {y \in S : Before(sorted, y, x)}
           rank(x) == Cardinality(before(x))
           m == [i \in 1..n |-> CHOOSE x \in S : rank(x) = i - 1]
<1>1. IsFiniteSet(S) /\ n \in Nat
  BY FS_CardinalityType
<1>2. /\ \A x \in S : ~Before(sorted, x, x)
      /\ \A x, y, z \in S : Before(sorted, x, y) /\ Before(sorted, y, z) => Before(sorted, x, z)
      /\ \A x, y \in S : x = y \/ Before(sorted, x, y) \/ Before(sorted, y, x)
  BY BeforeOrders
<1>3. Matches(wanted, sorted) = m
  BY DEF Matches
<1> HIDE DEF S
<1>4. ASSUME NEW x \in S
      PROVE  rank(x) \in 0..(n - 1) /\ IsFiniteSet(before(x))
  <2>1. PICK T : T = before(x)
    OBVIOUS
  <2>2. T \in SUBSET S /\ T # S
    BY <1>2, <2>1
  <2>3. IsFiniteSet(T) /\ Cardinality(T) <= n /\ Cardinality(T) # n
    <3> HIDE DEF before
    <3> QED
      BY <1>1, <2>2, FS_Subset
  <2>4. Cardinality(T) \in Nat
    BY <2>3, FS_CardinalityType
  <2>5. Cardinality(T) \in 0..(n - 1)
    <3> HIDE DEF n
    <3> QED
      BY <1>1, <2>3, <2>4
  <2> QED
    BY <2>1, <2>3, <2>5
<1>5. ASSUME NEW x \in S, NEW y \in S, Before(sorted, x, y)
      PROVE  rank(x) < rank(y)
  <2>1. PICK T, U : T = before(x) /\ U = before(y)
    OBVIOUS
  <2>2. T \in SUBSET U /\ T # U
    BY <1>2, <1>5, <2>1
  <2>3. IsFiniteSet(U) /\ IsFiniteSet(T)
    BY <1>4, <2>1
  <2>4. Cardinality(T) <= Cardinality(U) /\ Cardinality(T) # Cardinality(U)
    BY <2>2, <2>3, FS_Subset
  <2>5. Cardinality(T) \in Nat /\ Cardinality(U) \in Nat
    BY <2>3, FS_CardinalityType
  <2>6. Cardinality(T) < Cardinality(U)
    BY <2>4, <2>5
  <2> QED
    BY <2>1, <2>6
<1> HIDE DEF before, n
<1>6. ASSUME NEW x \in S, NEW y \in S, rank(x) = rank(y) PROVE x = y
  <2>1. rank(x) \in Int /\ rank(y) \in Int
    BY <1>1, <1>4
  <2>2. ~(rank(x) < rank(y)) /\ ~(rank(y) < rank(x))
    BY <1>6, <2>1
  <2> QED
    BY <1>2, <1>5, <2>2
<1>7. ASSUME NEW i \in 1..n PROVE \E x \in S : rank(x) = i - 1
  <2> DEFINE g == [x \in S |-> rank(x) + 1]
  <2>1. \A x \in S : rank(x) + 1 \in 1..n
    BY <1>1, <1>4
  <2>2. g \in Injection(S, 1..n)
    <3>1. g \in [S -> 1..n]
      BY <2>1
    <3>2. ASSUME NEW x \in S, NEW y \in S, g[x] = g[y] PROVE x = y
      <4>1. rank(x) \in Int /\ rank(y) \in Int /\ rank(x) + 1 = rank(y) + 1
        BY <1>1, <1>4, <3>2
      <4>2. rank(x) = rank(y)
        BY <4>1
      <4> QED
        BY <1>6, <4>2
    <3> HIDE DEF g
    <3> QED
      BY <3>1, <3>2 DEF Injection, IsInjective
  <2> HIDE DEF g
  <2>3. IsFiniteSet(1..n) /\ Cardinality(1..n) = n
    <3>1. 1 \in Int /\ n \in Int
      BY <1>1
    <3> QED
      BY <1>1, <3>1, FS_Interval
  <2>4. g \in Surjection(S, 1..n)
    BY <2>2, <2>3, FS_Injection DEF n
  <2>5. PICK x \in S : g[x] = i
    BY <2>4 DEF Surjection
  <2>6. rank(x) + 1 = i /\ rank(x) \in Int
    BY <1>1, <1>4, <2>5 DEF g
  <2> QED
    BY <2>6
<1>8. ASSUME NEW i \in 1..n PROVE m[i] \in S /\ rank(m[i]) = i - 1
  BY <1>7
<1>9. m \in Seq(S) /\ DOMAIN m = 1..n
  <2>1. m \in [1..n -> S]
    BY <1>8
  <2> HIDE DEF m
  <2> QED
    BY <1>1, <2>1
<1> HIDE DEF m
<1>10. {m[i] : i \in DOMAIN m} = S
  <2>1. ASSUME NEW x \in S PROVE \E i \in 1..n : m[i] = x
    <3>1. PICK i \in 1..n : i = rank(x) + 1 /\ rank(x) = i - 1
      BY <1>1, <1>4
    <3> QED
      BY <1>6, <1>8, <3>1
  <2> QED
    BY <1>8, <1>9, <2>1
<1>11. ASSUME NEW i \in 1..n, NEW j \in 1..n, i < j PROVE Before(sorted, m[i], m[j])
  <2>1. rank(m[i]) = i - 1 /\ rank(m[j]) = j - 1 /\ m[i] \in S /\ m[j] \in S
    BY <1>8
  <2>2. m[i] # m[j]
    BY <1>11, <2>1
  <2>3. ~(rank(m[j]) < rank(m[i]))
    BY <1>11, <2>1
  <2> QED
    BY <1>2, <1>5, <2>1, <2>2, <2>3
<1>12. /\ m \in Seq(S) /\ {m[i] : i \in DOMAIN m} = S
       /\ \A i, j \in DOMAIN m : i < j => Before(sorted, m[i], m[j])
  BY <1>9, <1>10, <1>11
<1> QED
  BY <1>3, <1>12 DEF S

\* Only so many records were ever created, however many ids there are.
RowsFinite == IsFiniteSet({id \in Ids : rows[id] # None})

LEMMA RowsStayFinite ==
  ASSUME StoreTypeOK, RowsFinite, [StoreNext]_store
  PROVE  RowsFinite'
<1> DEFINE K == {id \in Ids : rows[id] # None}
<1>1. CASE UNCHANGED rows
  BY <1>1 DEF RowsFinite
<1>2. ASSUME NEW id \in Ids, NEW row \in StoredEntity, rows' = [rows EXCEPT ![id] = row]
      PROVE  RowsFinite'
  <2>1. {x \in Ids : rows'[x] # None} \subseteq K \union {id}
    BY <1>2 DEF StoreTypeOK
  <2>2. IsFiniteSet(K)
    BY DEF RowsFinite
  <2> HIDE DEF K
  <2>3. IsFiniteSet(K \union {id})
    BY <2>2, FS_AddElement
  <2>4. IsFiniteSet({x \in Ids : rows'[x] # None})
    BY <2>1, <2>3, FS_Subset
  <2> QED
    BY <2>4 DEF RowsFinite
<1>3. CASE StoreNext
  <2>1. CASE RelayOutbox
    BY <1>1, <2>1 DEF RelayOutbox
  <2>2. CASE \E id \in Ids, op \in EntityOp, row \in StoredEntity : Mutation(id, op, row)
    BY <1>2, <2>2 DEF Mutation, Mutate
  <2> QED
    BY <1>3, <2>1, <2>2, StoreSteps
<1> QED
  BY <1>1, <1>3 DEF store

LEMMA PagesMeetQuery ==
  ASSUME StoreTypeOK, RowsFinite
  PROVE  PagesPartition
<1> SUFFICES ASSUME NEW wanted \in Data \cup {None}, NEW sorted \in BOOLEAN,
                    NEW size \in 1..IntMax, Len(Matches(wanted, sorted)) + size <= IntMax
             PROVE  LET m     == Matches(wanted, sorted)
                        pages == [p \in 1..(Len(m) \div size + 1) |-> Page(m, p - 1, size)]
                        all   == FlattenSeq(pages)
                    IN  /\ {all[i] : i \in DOMAIN all} = Found(wanted)
                        /\ \A i, j \in DOMAIN all : i < j => Before(sorted, all[i], all[j])
  BY DEF PagesPartition
<1>1. IsFiniteSet(Found(wanted))
  <2>1. Found(wanted) \subseteq {id \in Ids : rows[id] # None}
    BY DEF Found, Live
  <2> QED
    BY <2>1, FS_Subset DEF RowsFinite
<1>2. PICK m : m = Matches(wanted, sorted)
  OBVIOUS
<1>3. /\ m \in Seq(Found(wanted)) /\ {m[i] : i \in DOMAIN m} = Found(wanted)
      /\ \A i, j \in DOMAIN m : i < j => Before(sorted, m[i], m[j])
  BY <1>1, <1>2, MatchesList
<1>4. size \in Nat \ {0}
  BY StoreAssumption
<1>5. FlattenSeq([p \in 1..(Len(m) \div size + 1) |-> Page(m, p - 1, size)]) = m
  BY <1>2, <1>3, <1>4, PagesTile
<1> QED
  BY <1>2, <1>3, <1>5

\* The pages of a query are the records it finds, each once and in order, for every
\* store, filter, order and size of page within the range of Int.
THEOREM PagesListMatches == BffSpec => []PagesPartition
<1>1. StoreInit => RowsFinite
  <2> SUFFICES ASSUME StoreInit
               PROVE  RowsFinite
    OBVIOUS
  <2>1. {id \in Ids : rows[id] # None} = {}
    BY DEF StoreInit
  <2> QED
    BY <2>1, FS_EmptySet DEF RowsFinite
<1>2. StoreTypeOK /\ RowsFinite /\ [StoreNext]_store => RowsFinite'
  BY RowsStayFinite
<1>3. StoreTypeOK /\ RowsFinite => PagesPartition
  BY PagesMeetQuery
<1> QED
  BY <1>1, <1>2, <1>3, CallersImplementStore, StoreInvariance, PTL DEF StoreSpec, StoreIInv
=============================================================================
