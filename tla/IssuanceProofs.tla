--------------------------- MODULE IssuanceProofs ---------------------------
(***************************************************************************)
(* Proofs about the Document registry, for all registers, keys and bounds, *)
(* and about the activities that use it, for any number of Cases, lost     *)
(* completions and restarts of the worker.                                 *)
(* What concerns references is proved for contracts that have prefixes of  *)
(* their own (DistinctPrefixes); without it these properties are false.    *)
(***************************************************************************)
EXTENDS IssuanceActivity, TLAPS

\* A step that may consume a number, whatever else it does.
Allocates(k) == k \in Keys /\ ~Issued(k) /\ Fits(k) /\ Allocate(k)

LEMMA AllocationType ==
  ASSUME TypeOK, NEW k \in Keys, Fits(k)
  PROVE  AllocationFor(k) \in Allocation
<1>1. ContractOf[k] \in Contracts /\ MaxNumber \in Nat
  BY IssuanceAssumption
<1>2. CASE allocated[k] # None
  BY <1>2 DEF AllocationFor, TypeOK
<1>3. CASE allocated[k] = None
  <2>1. next[ContractOf[k]] \in Numbers
    BY <1>1, <1>3 DEF Fits, TypeOK, Numbers
  <2> QED
    BY <1>1, <1>3, <2>1 DEF AllocationFor, Allocation
<1> QED
  BY <1>2, <1>3

LEMMA ReferenceType ==
  ASSUME NEW a \in Allocation
  PROVE  ReferenceOf(a) \in References
  BY IssuanceAssumption DEF ReferenceOf, References, Allocation

LEMMA AllocateType ==
  ASSUME TypeOK, NEW k \in Keys, Fits(k), Allocate(k)
  PROVE  /\ next' \in [Contracts -> 0..(MaxNumber + 1)]
         /\ allocated' \in [Keys -> Allocation \cup {None}]
<1>1. ContractOf[k] \in Contracts /\ MaxNumber \in Nat
  BY IssuanceAssumption
<1>2. allocated' \in [Keys -> Allocation \cup {None}]
  BY AllocationType DEF Allocate, TypeOK
<1>3. CASE allocated[k] # None
  BY <1>2, <1>3 DEF Allocate, TypeOK
<1>4. CASE allocated[k] = None
  <2>1. /\ next[ContractOf[k]] + 1 \in 0..(MaxNumber + 1)
        /\ next' = [next EXCEPT ![ContractOf[k]] = next[ContractOf[k]] + 1]
    BY <1>1, <1>4 DEF Fits, Allocate, TypeOK
  <2> QED
    BY <1>1, <1>2, <2>1 DEF TypeOK
<1> QED
  BY <1>3, <1>4

LEMMA TrailType ==
  ASSUME NEW k \in Keys, NEW r \in References
  PROVE  /\ IssueTrail(k, r) \in Seq(AuditEvent)
         /\ \A t \in AuditTypes : Audit(t, k, r) \in AuditEvent
<1>1. \A t \in AuditTypes : Audit(t, k, r) \in AuditEvent
  BY DEF Audit, AuditEvent
<1> QED
  BY <1>1 DEF IssueTrail, AuditTypes

LEMMA IssueType ==
  ASSUME TypeOK, NEW k \in Keys, NEW p \in Payloads, NEW prior \in Claims, Issue(k, p, prior)
  PROVE  TypeOK'
<1> DEFINE r == ReferenceOf(AllocationFor(k))
<1>1. Fits(k) /\ Allocate(k)
  BY DEF Issue
<1>2. r \in References
  BY <1>1, AllocationType, ReferenceType
<1>3. NewDocument(k, p, prior) \in Document
  BY IssuanceAssumption DEF NewDocument, Document, Statuses
<1>4. byReference' \in [References -> Document \cup {None}]
  BY <1>2, <1>3 DEF Issue, TypeOK
<1>5. memo' \in [Keys -> References \cup {None}]
  BY <1>2 DEF Issue, TypeOK
<1>6. audit' \in Seq(AuditEvent)
  BY <1>2, TrailType DEF Issue, TypeOK
<1>7. handed' \subseteq [key: Keys, hash: Hash]
  BY <1>2 DEF Issue, TypeOK, HashOf, Hash
<1>8. voids' \subseteq Allocation /\ claimed' \subseteq References
  BY <1>2 DEF Issue, TypeOK
<1> QED
  BY <1>1, <1>4, <1>5, <1>6, <1>7, <1>8, AllocateType DEF TypeOK

LEMMA TransitionType ==
  ASSUME TypeOK, NEW r \in References, NEW status \in Statuses,
         NEW event \in AuditTypes, Transition(r, status, event)
  PROVE  TypeOK'
<1>1. byReference[r] \in Document
  BY DEF Transition, MayTransition, TypeOK
<1>2. [byReference[r] EXCEPT !.status = status] \in Document
  BY <1>1 DEF Document
<1>3. byReference' \in [References -> Document \cup {None}]
  BY <1>2 DEF Transition, TypeOK
<1>4. Audit(event, byReference[r].key, r) \in AuditEvent
  BY <1>1, TrailType DEF Document
<1>5. audit' \in Seq(AuditEvent)
  BY <1>4 DEF Transition, TypeOK
<1> QED
  BY <1>3, <1>5 DEF Transition, TypeOK

LEMMA SupersedeType ==
  ASSUME TypeOK, NEW r \in References, NEW k \in Keys, NEW p \in Payloads,
         Supersede(r, k, p)
  PROVE  TypeOK'
<1> DEFINE new   == ReferenceOf(AllocationFor(k))
           prior == [byReference[r] EXCEPT !.status = "superseded"]
<1>1. Fits(k) /\ Allocate(k)
  BY DEF Supersede
<1>2. new \in References
  BY <1>1, AllocationType, ReferenceType
<1>3. NewDocument(k, p, r) \in Document
  BY IssuanceAssumption DEF NewDocument, Document, Statuses
<1>4. byReference[r] \in Document
  BY DEF Supersede, MayTransition, TypeOK
<1>5. prior \in Document /\ prior.key \in Keys
  BY <1>4 DEF Document, Statuses
<1>6. byReference' \in [References -> Document \cup {None}]
  BY <1>2, <1>3, <1>5 DEF Supersede, TypeOK
<1>7. memo' \in [Keys -> References \cup {None}]
  BY <1>2 DEF Supersede, TypeOK
<1>8. audit' \in Seq(AuditEvent)
  <2>1. Audit("document.superseded", prior.key, r) \in AuditEvent
    BY <1>5, TrailType DEF AuditTypes
  <2>2. Append(IssueTrail(k, new), Audit("document.superseded", prior.key, r))
          \in Seq(AuditEvent)
    BY <1>2, <2>1, TrailType
  <2> QED
    BY <2>2 DEF Supersede, TypeOK
<1>9. handed' \subseteq [key: Keys, hash: Hash]
  BY <1>2 DEF Supersede, TypeOK, HashOf, Hash
<1>10. voids' \subseteq Allocation /\ claimed' \subseteq References
  BY DEF Supersede, TypeOK
<1> QED
  BY <1>1, <1>6, <1>7, <1>8, <1>9, <1>10, AllocateType DEF TypeOK

\* One case for each kind of step, which the proofs below go by.
LEMMA StepCases ==
  ASSUME Next
  PROVE  \/ \E k \in Keys : RenderFails(k)
         \/ \E k \in Keys, p \in Payloads, prior \in Claims : Issue(k, p, prior)
         \/ \E r \in References, k \in Keys, p \in Payloads : Supersede(r, k, p)
         \/ \E r \in References, status \in Statuses \ {"issued"}, event \in AuditTypes :
              Transition(r, status, event)
         \/ \E c \in Contracts : VoidNext(c)
  BY DEF Next, SupersedeReplayed, Revoke, Accept, Statuses, AuditTypes

LEMMA TypeStep ==
  ASSUME TypeOK, [Next]_service
  PROVE  TypeOK'
<1>1. ASSUME NEW k \in Keys, RenderFails(k) PROVE TypeOK'
  BY <1>1, AllocateType DEF RenderFails, TypeOK
<1>2. ASSUME NEW c \in Contracts, VoidNext(c) PROVE TypeOK'
  <2>1. next[c] \in 0..MaxNumber /\ MaxNumber \in Nat
    BY <1>2, IssuanceAssumption DEF VoidNext, TypeOK
  <2>2. next' \in [Contracts -> 0..(MaxNumber + 1)]
    BY <1>2, <2>1 DEF VoidNext, TypeOK
  <2>3. voids' \subseteq Allocation
    BY <1>2, <2>1 DEF VoidNext, TypeOK, Allocation, Numbers
  <2> QED
    BY <1>2, <2>2, <2>3 DEF VoidNext, TypeOK
<1>3. CASE Next
  BY <1>1, <1>2, <1>3, StepCases, IssueType, SupersedeType, TransitionType
<1>4. CASE UNCHANGED service
  BY <1>4 DEF service, TypeOK
<1> QED
  BY <1>3, <1>4

\* The state of the Document registry has its type in every reachable state.
THEOREM TypeCorrect == Spec => []TypeOK
<1>1. Init => TypeOK
  BY IssuanceAssumption DEF Init, TypeOK, Numbers
<1>2. TypeOK /\ [Next]_service => TypeOK'
  BY TypeStep
<1> QED
  BY <1>1, <1>2, PTL DEF Spec

-----------------------------------------------------------------------------
(* The registers of numbers.                                               *)

Drawn(a) == StartsAt[a.contract] <= a.value /\ a.value < next[a.contract]

NumbersInv ==
  /\ TypeOK
  /\ NumbersAccounted
  /\ \A c \in Contracts : StartsAt[c] <= next[c]

\* The number an allocation draws was neither drawn nor voided before.
LEMMA NumbersStep ==
  ASSUME NumbersInv, TypeOK', NEW k \in Keys, ~Issued(k), Fits(k), Allocate(k), UNCHANGED voids
  PROVE  NumbersInv'
<1>1. CASE allocated[k] # None
  <2>1. allocated' = allocated /\ next' = next
    BY <1>1 DEF Allocate, AllocationFor, NumbersInv, TypeOK
  <2> QED
    BY <2>1 DEF NumbersInv, NumbersAccounted
<1>2. CASE allocated[k] = None
  <2> DEFINE c == ContractOf[k]
             new == [contract |-> c, value |-> next[c]]
  <2>1. /\ c \in Contracts /\ MaxNumber \in Nat
        /\ next \in [Contracts -> 0..(MaxNumber + 1)] /\ next[c] \in Numbers
        /\ allocated \in [Keys -> Allocation \cup {None}] /\ voids \subseteq Allocation
        /\ StartsAt \in [Contracts -> Numbers]
        /\ None \notin Allocation
    BY <1>2, IssuanceAssumption DEF NumbersInv, TypeOK, Fits, Numbers
  <2>2. new \in Allocation
    BY <2>1 DEF Allocation
  <2>3. /\ allocated' = [allocated EXCEPT ![k] = new]
        /\ next' = [next EXCEPT ![c] = next[c] + 1]
    BY <1>2 DEF Allocate, AllocationFor
  <2>4. ~Drawn(new)
    BY <2>1 DEF Drawn, Numbers
  <2>5. new \notin voids /\ \A l \in Keys : allocated[l] # new
    BY <2>2, <2>4 DEF NumbersInv, NumbersAccounted, Drawn
  <2>6. ASSUME NEW a \in Allocation
        PROVE  Drawn(a)' <=> Drawn(a) \/ a = new
    <3>1. a.contract \in Contracts /\ a.value \in Nat
          /\ a = [contract |-> a.contract, value |-> a.value]
      BY <2>1 DEF Allocation, Numbers
    <3>2. CASE a.contract = c
      <4>1. next'[a.contract] = next[c] + 1 /\ StartsAt[c] <= next[c] /\ next[c] \in Nat
            /\ StartsAt[c] \in Nat
        BY <2>1, <2>3, <3>2 DEF NumbersInv, Numbers
      <4>2. a = new <=> a.value = next[c]
        BY <3>1, <3>2
      <4> QED
        BY <3>1, <3>2, <4>1, <4>2 DEF Drawn
    <3>3. CASE a.contract # c
      BY <2>1, <2>3, <3>1, <3>3 DEF Drawn
    <3> QED
      BY <3>2, <3>3
  <2>7. \A a \in Allocation : Drawn(a)' <=> (a \in voids' \/ \E l \in Keys : allocated'[l] = a)
    <3>1. \A a \in Allocation : (\E l \in Keys : allocated'[l] = a)
                                <=> a = new \/ \E l \in Keys : allocated[l] = a
      BY <1>2, <2>1, <2>2, <2>3
    <3>2. \A a \in Allocation : Drawn(a) <=> (a \in voids \/ \E l \in Keys : allocated[l] = a)
      BY DEF NumbersInv, NumbersAccounted, Drawn
    <3> QED
      BY <2>6, <3>1, <3>2
  <2>8. \A l, m \in Keys :
          /\ allocated'[l] \notin voids'
          /\ allocated'[l] = allocated'[m] /\ allocated'[l] # None => l = m
    BY <2>1, <2>3, <2>5 DEF NumbersInv, NumbersAccounted
  <2>9. \A d \in Contracts : StartsAt[d] <= next'[d]
    BY <2>1, <2>3 DEF NumbersInv, Numbers
  <2> QED
    BY <2>7, <2>8, <2>9 DEF NumbersInv, NumbersAccounted, Drawn
<1> QED
  BY <1>1, <1>2

LEMMA VoidStep ==
  ASSUME NumbersInv, TypeOK', NEW c \in Contracts, VoidNext(c)
  PROVE  NumbersInv'
<1> DEFINE new == [contract |-> c, value |-> next[c]]
<1>1. /\ MaxNumber \in Nat
      /\ next \in [Contracts -> 0..(MaxNumber + 1)] /\ next[c] \in Numbers
      /\ allocated \in [Keys -> Allocation \cup {None}] /\ voids \subseteq Allocation
      /\ StartsAt \in [Contracts -> Numbers]
      /\ None \notin Allocation
  <2>1. /\ MaxNumber \in Nat /\ StartsAt \in [Contracts -> Numbers] /\ None \notin Allocation
    BY IssuanceAssumption
  <2>2. /\ next \in [Contracts -> 0..(MaxNumber + 1)]
        /\ allocated \in [Keys -> Allocation \cup {None}] /\ voids \subseteq Allocation
    BY DEF NumbersInv, TypeOK
  <2>3. next[c] \in Numbers
    BY <2>1, <2>2 DEF VoidNext, Numbers
  <2> QED
    BY <2>1, <2>2, <2>3
<1>2. new \in Allocation
  BY <1>1 DEF Allocation
<1>3. /\ allocated' = allocated /\ voids' = voids \cup {new}
      /\ next' = [next EXCEPT ![c] = next[c] + 1]
  BY DEF VoidNext
<1>4. \A l \in Keys : allocated[l] # new
  BY <1>1, <1>2 DEF NumbersInv, NumbersAccounted, Numbers
<1>5. ASSUME NEW a \in Allocation
      PROVE  Drawn(a)' <=> Drawn(a) \/ a = new
  <2>1. a.contract \in Contracts /\ a.value \in Nat
        /\ a = [contract |-> a.contract, value |-> a.value]
    BY <1>1 DEF Allocation, Numbers
  <2>2. CASE a.contract = c
    <3>1. next'[a.contract] = next[c] + 1 /\ StartsAt[c] <= next[c] /\ next[c] \in Nat
          /\ StartsAt[c] \in Nat
      BY <1>1, <1>3, <2>2 DEF NumbersInv, Numbers
    <3>2. a = new <=> a.value = next[c]
      BY <2>1, <2>2
    <3> QED
      BY <2>1, <2>2, <3>1, <3>2 DEF Drawn
  <2>3. CASE a.contract # c
    BY <1>1, <1>3, <2>1, <2>3 DEF Drawn
  <2> QED
    BY <2>2, <2>3
<1>6. \A a \in Allocation : Drawn(a)' <=> (a \in voids' \/ \E l \in Keys : allocated'[l] = a)
  BY <1>3, <1>5 DEF NumbersInv, NumbersAccounted, Drawn
<1>7. \A l, m \in Keys :
        /\ allocated'[l] \notin voids'
        /\ allocated'[l] = allocated'[m] /\ allocated'[l] # None => l = m
  BY <1>3, <1>4 DEF NumbersInv, NumbersAccounted
<1>8. \A d \in Contracts : StartsAt[d] <= next'[d]
  BY <1>1, <1>3 DEF NumbersInv, Numbers
<1> QED
  BY <1>6, <1>7, <1>8 DEF NumbersInv, NumbersAccounted, Drawn

LEMMA NumbersInit == ASSUME Init PROVE NumbersInv
<1>1. TypeOK
  BY IssuanceAssumption DEF Init, TypeOK, Numbers
<1>2. \A a \in Allocation : ~(StartsAt[a.contract] <= a.value /\ a.value < next[a.contract])
  BY IssuanceAssumption DEF Init, Allocation, Numbers
<1>3. \A c \in Contracts : StartsAt[c] <= next[c]
  BY IssuanceAssumption DEF Init, Numbers
<1> QED
  BY <1>1, <1>2, <1>3, IssuanceAssumption DEF Init, NumbersInv, NumbersAccounted

LEMMA NumbersInvStep ==
  ASSUME NumbersInv, [Next]_service
  PROVE  NumbersInv'
<1>0. TypeOK'
  BY TypeStep DEF NumbersInv
<1>1. ASSUME NEW k \in Keys, ~Issued(k), Fits(k), Allocate(k), UNCHANGED voids
      PROVE  NumbersInv'
  BY <1>0, <1>1, NumbersStep
<1>2. ASSUME NEW r \in References, NEW status, NEW event, Transition(r, status, event)
      PROVE  NumbersInv'
  BY <1>0, <1>2 DEF Transition, NumbersInv, NumbersAccounted
<1>3. CASE Next
  BY <1>0, <1>1, <1>2, <1>3, StepCases, VoidStep DEF RenderFails, Issue, Supersede
<1>4. CASE UNCHANGED service
  BY <1>0, <1>4 DEF service, NumbersInv, NumbersAccounted
<1> QED
  BY <1>3, <1>4

LEMMA NumbersInvariance == Spec => []NumbersInv
<1>1. Init => NumbersInv
  BY NumbersInit
<1>2. NumbersInv /\ [Next]_service => NumbersInv'
  BY NumbersInvStep
<1> QED
  BY <1>1, <1>2, PTL DEF Spec

\* Every number drawn from a register is one key's allocation or in the void ledger.
THEOREM NoNumberLost == Spec => []NumbersAccounted
<1>1. NumbersInv => NumbersAccounted
  BY DEF NumbersInv
<1> QED
  BY <1>1, NumbersInvariance, PTL

-----------------------------------------------------------------------------
(* The registry of Documents.                                              *)

HandedOut ==
  /\ \A r \in References :
       byReference[r] # None =>
         \E c \in handed : c.hash = HashOf(byReference[r].payload, r)
  /\ \A c \in handed :
       /\ byReference[c.hash.ref] # None
       /\ byReference[c.hash.ref].payload = c.hash.payload

RegistryInv == NumbersInv /\ RegistersAgree /\ HandedOut /\ VersionsChain

LEMMA ReferenceInjective ==
  ASSUME DistinctPrefixes, NEW a \in Allocation, NEW b \in Allocation,
         ReferenceOf(a) = ReferenceOf(b)
  PROVE  a = b
<1>1. /\ a.contract \in Contracts /\ a = [contract |-> a.contract, value |-> a.value]
      /\ b.contract \in Contracts /\ b = [contract |-> b.contract, value |-> b.value]
  BY DEF Allocation
<1>2. PrefixOf[a.contract] = PrefixOf[b.contract] /\ a.value = b.value
  BY DEF ReferenceOf
<1> QED
  BY <1>1, <1>2 DEF DistinctPrefixes

\* The reference a key is about to be issued names no Document yet.
LEMMA FreshReference ==
  ASSUME DistinctPrefixes, NumbersInv, RegistersAgree,
         NEW k \in Keys, ~Issued(k), Fits(k)
  PROVE  byReference[ReferenceOf(AllocationFor(k))] = None
<1> DEFINE a == AllocationFor(k)
           r == ReferenceOf(a)
<1>1. TypeOK /\ a \in Allocation /\ r \in References
  BY AllocationType, ReferenceType DEF NumbersInv
<1> SUFFICES ASSUME byReference[r] # None PROVE FALSE
  OBVIOUS
<1> DEFINE l == byReference[r].key
           b == allocated[l]
<1>2. l \in Keys
  BY <1>1 DEF TypeOK, Document
<1>3. memo[l] = r /\ memo[l] # None
  BY <1>1, IssuanceAssumption DEF RegistersAgree
<1>4. b # None /\ ReferenceOf(b) = r
  BY <1>2, <1>3 DEF RegistersAgree
<1>5. b \in Allocation
  BY <1>1, <1>2, <1>4 DEF TypeOK
<1>6. a = b
  BY <1>1, <1>4, <1>5, ReferenceInjective
<1>7. CASE allocated[k] # None
  <2>1. k = l
    BY <1>2, <1>4, <1>6, <1>7 DEF AllocationFor, NumbersInv, NumbersAccounted
  <2> QED
    BY <1>3, <2>1 DEF Issued
<1>8. CASE allocated[k] = None
  <2>1. b.value = next[b.contract]
    BY <1>6, <1>8 DEF AllocationFor
  <2>2. b.value < next[b.contract]
    BY <1>2, <1>5 DEF NumbersInv, NumbersAccounted
  <2>3. next[b.contract] \in Nat
    BY <1>1, <1>5, IssuanceAssumption DEF TypeOK, Allocation
  <2> QED
    BY <2>1, <2>2, <2>3
<1> QED
  BY <1>7, <1>8

\* What issue() (marked = None) and supersede() have in common: the new Document names
\* `prior', and `marked' becomes superseded.
Enters(k, p, prior, marked, new) ==
  /\ Fits(k) /\ Allocate(k)
  /\ memo[k] = None /\ byReference[new] = None
  /\ prior \in References \cup {None}
  /\ marked # None => marked = prior /\ MayTransition(marked)
  /\ claimed' = IF marked = prior THEN claimed ELSE claimed \cup {new}
  /\ byReference' =
       [q \in References |->
          IF q = new THEN NewDocument(k, p, prior)
          ELSE IF q = marked THEN [byReference[q] EXCEPT !.status = "superseded"]
          ELSE byReference[q]]
  /\ memo' = [memo EXCEPT ![k] = new]
  /\ handed' = handed \cup {[key |-> k, hash |-> HashOf(p, new)]}

LEMMA IssueEnters ==
  ASSUME DistinctPrefixes, RegistryInv, NEW k \in Keys, NEW p \in Payloads,
         NEW prior \in Claims, Issue(k, p, prior)
  PROVE  Enters(k, p, prior, None, ReferenceOf(AllocationFor(k)))
<1> DEFINE new == ReferenceOf(AllocationFor(k))
<1>1. byReference[new] = None
  BY FreshReference DEF Issue, RegistryInv
<1>2. None \notin References /\ byReference \in [References -> Document \cup {None}]
  BY IssuanceAssumption DEF RegistryInv, NumbersInv, TypeOK
<1>3. /\ byReference' = [byReference EXCEPT ![new] = NewDocument(k, p, prior)]
      /\ claimed' = IF None = prior THEN claimed ELSE claimed \cup {new}
  BY DEF Issue
<1>4. byReference' =
        [q \in References |->
           IF q = new THEN NewDocument(k, p, prior)
           ELSE IF q = None THEN [byReference[q] EXCEPT !.status = "superseded"]
           ELSE byReference[q]]
  BY <1>2, <1>3
<1> QED
  BY <1>1, <1>3, <1>4, IssuanceAssumption DEF Enters, Issue, Issued

LEMMA SupersedeEnters ==
  ASSUME DistinctPrefixes, RegistryInv, NEW r \in References, NEW k \in Keys,
         NEW p \in Payloads, Supersede(r, k, p)
  PROVE  Enters(k, p, r, r, ReferenceOf(AllocationFor(k)))
<1> DEFINE new == ReferenceOf(AllocationFor(k))
<1>1. byReference[new] = None
  BY FreshReference DEF Supersede, RegistryInv
<1>2. new # r
  BY <1>1 DEF Supersede, MayTransition
<1>3. byReference \in [References -> Document \cup {None}]
  BY DEF RegistryInv, NumbersInv, TypeOK
<1>4. byReference' = [byReference EXCEPT ![new] = NewDocument(k, p, r),
                                         ![r] = [byReference[r] EXCEPT !.status = "superseded"]]
  BY DEF Supersede
<1>5. byReference' =
        [q \in References |->
           IF q = new THEN NewDocument(k, p, r)
           ELSE IF q = r THEN [byReference[q] EXCEPT !.status = "superseded"]
           ELSE byReference[q]]
  BY <1>2, <1>3, <1>4
<1> QED
  BY <1>1, <1>5 DEF Enters, Supersede, Issued

LEMMA EntersKeeps ==
  ASSUME RegistryInv, NumbersInv', NEW k \in Keys, NEW p \in Payloads,
         NEW prior, NEW marked, NEW new \in References, new = ReferenceOf(AllocationFor(k)),
         Enters(k, p, prior, marked, new)
  PROVE  RegistryInv'
<1>1. TypeOK /\ TypeOK' /\ None \notin References /\ None \notin Document
      /\ None \notin Allocation
  BY IssuanceAssumption DEF RegistryInv, NumbersInv
<1>2. NewDocument(k, p, prior) # None
  <2>1. NewDocument(k, p, prior) \in Document
    BY <1>1, IssuanceAssumption DEF Enters, NewDocument, Document, Statuses
  <2> QED
    BY <1>1, <2>1
\* What the step leaves of the Documents that were there.
<1>3. ASSUME NEW q \in References, q # new
      PROVE  /\ byReference'[q] # None <=> byReference[q] # None
             /\ byReference[q] # None =>
                  /\ byReference'[q].key = byReference[q].key
                  /\ byReference'[q].payload = byReference[q].payload
                  /\ byReference'[q].supersedes = byReference[q].supersedes
                  /\ byReference'[q].status =
                       IF q = marked THEN "superseded" ELSE byReference[q].status
  <2>1. CASE q = marked
    <3>1. byReference[q] \in Document /\ byReference[q] # None
      BY <1>1, <1>3, <2>1 DEF Enters, MayTransition, TypeOK
    <3>2. byReference'[q] = [byReference[q] EXCEPT !.status = "superseded"]
      BY <1>3, <2>1 DEF Enters
    <3>3. byReference'[q] \in Document
      BY <3>1, <3>2 DEF Document, Statuses
    <3> QED
      BY <1>1, <2>1, <3>1, <3>2, <3>3 DEF Document
  <2>2. CASE q # marked
    BY <1>3, <2>2 DEF Enters
  <2> QED
    BY <2>1, <2>2
<1>4. byReference'[new] = NewDocument(k, p, prior) /\ byReference[new] = None
  BY DEF Enters
<1>5. memo' = [memo EXCEPT ![k] = new] /\ memo \in [Keys -> References \cup {None}]
      /\ memo[k] = None
  BY <1>1 DEF Enters, TypeOK
<1>6. allocated' = [allocated EXCEPT ![k] = AllocationFor(k)] /\ AllocationFor(k) # None
      /\ allocated \in [Keys -> Allocation \cup {None}]
  BY <1>1, AllocationType DEF Enters, Allocate, TypeOK
<1>7. \A q \in References : byReference[q] # None => byReference[q].key # k
  BY <1>1, <1>5 DEF RegistryInv, RegistersAgree
<1>8. RegistersAgree'
  <2>1. ASSUME NEW l \in Keys, memo'[l] # None
        PROVE  /\ allocated'[l] # None /\ memo'[l] = ReferenceOf(allocated'[l])
               /\ byReference'[memo'[l]] # None /\ byReference'[memo'[l]].key = l
    <3>1. CASE l = k
      BY <1>2, <1>4, <1>5, <1>6, <3>1 DEF NewDocument
    <3>2. CASE l # k
      <4>1. memo'[l] = memo[l] /\ allocated'[l] = allocated[l] /\ memo[l] \in References
            /\ memo[l] # None
        BY <1>5, <1>6, <2>1, <3>2
      <4>2. /\ allocated[l] # None /\ memo[l] = ReferenceOf(allocated[l])
            /\ byReference[memo[l]] # None /\ byReference[memo[l]].key = l
        BY <4>1 DEF RegistryInv, RegistersAgree
      <4>3. memo[l] # new
        BY <1>4, <4>2
      <4> QED
        BY <1>3, <4>1, <4>2, <4>3
    <3> QED
      BY <3>1, <3>2
  <2>2. ASSUME NEW q \in References, byReference'[q] # None
        PROVE  memo'[byReference'[q].key] = q
    <3>1. CASE q = new
      BY <1>4, <1>5, <3>1 DEF NewDocument
    <3>2. CASE q # new
      <4>1. byReference[q] # None /\ byReference'[q].key = byReference[q].key
        BY <1>3, <2>2, <3>2
      <4>2. byReference[q].key # k /\ memo[byReference[q].key] = q
            /\ byReference[q].key \in Keys
        BY <1>1, <1>7, <4>1 DEF RegistryInv, RegistersAgree, TypeOK, Document
      <4> QED
        BY <1>5, <4>1, <4>2
    <3> QED
      BY <3>1, <3>2
  <2> QED
    BY <2>1, <2>2 DEF RegistersAgree
<1>9. HandedOut'
  <2> DEFINE copy == [key |-> k, hash |-> HashOf(p, new)]
  <2>1. handed' = handed \cup {copy} /\ handed \subseteq [key: Keys, hash: Hash]
    BY <1>1 DEF Enters, TypeOK
  <2>2. ASSUME NEW q \in References, byReference'[q] # None
        PROVE  \E c \in handed' : c.hash = HashOf(byReference'[q].payload, q)
    <3>1. CASE q = new
      <4>1. copy \in handed'
        BY <2>1
      <4>2. copy.hash = HashOf(byReference'[q].payload, q)
        BY <1>4, <3>1 DEF NewDocument
      <4> QED
        BY <4>1, <4>2
    <3>2. CASE q # new
      <4>1. byReference[q] # None /\ byReference'[q].payload = byReference[q].payload
        BY <1>3, <2>2, <3>2
      <4>2. PICK c \in handed : c.hash = HashOf(byReference[q].payload, q)
        BY <4>1 DEF RegistryInv, HandedOut
      <4> QED
        BY <2>1, <4>1, <4>2
    <3> QED
      BY <3>1, <3>2
  <2>3. ASSUME NEW c \in handed'
        PROVE  /\ byReference'[c.hash.ref] # None
               /\ byReference'[c.hash.ref].payload = c.hash.payload
    <3>1. CASE c = copy
      BY <1>2, <1>4, <3>1 DEF HashOf, NewDocument
    <3>2. CASE c \in handed
      <4>1. c.hash.ref \in References /\ byReference[c.hash.ref] # None
            /\ byReference[c.hash.ref].payload = c.hash.payload
        BY <2>1, <3>2 DEF RegistryInv, HandedOut, Hash
      <4> QED
        BY <1>3, <1>4, <4>1
    <3> QED
      BY <2>1, <2>3, <3>1, <3>2
  <2> QED
    BY <2>2, <2>3 DEF HandedOut
<1>10. VersionsChain'
  <2>1. /\ References \ claimed' \subseteq References \ claimed
        /\ new \notin claimed' => prior = marked
        /\ byReference'[new].supersedes = prior
    BY <1>4 DEF Enters, NewDocument
  <2>2. ASSUME NEW r \in References \ claimed', byReference'[r] # None,
               byReference'[r].supersedes # None
        PROVE  /\ byReference'[byReference'[r].supersedes] # None
               /\ byReference'[byReference'[r].supersedes].status = "superseded"
    <3>1. CASE r = new
      <4>1. byReference'[r].supersedes = marked /\ marked # None
        BY <2>1, <2>2, <3>1
      <4>2. marked \in References /\ byReference[marked] # None
        BY <1>1, <4>1 DEF Enters, MayTransition
      <4> QED
        BY <1>3, <1>4, <4>1, <4>2
    <3>2. CASE r # new
      <4> DEFINE s == byReference[r].supersedes
      <4>1. byReference[r] # None /\ byReference'[r].supersedes = s /\ s # None
        BY <1>3, <2>2, <3>2
      <4>2. s \in References
        BY <1>1, <4>1 DEF TypeOK, Document
      <4>3. byReference[s] # None /\ byReference[s].status = "superseded"
        BY <2>1, <4>1 DEF RegistryInv, VersionsChain
      <4> QED
        BY <1>3, <1>4, <4>1, <4>2, <4>3
    <3> QED
      BY <3>1, <3>2
  <2>3. ASSUME NEW q \in References \ claimed', q # new, byReference'[q] # None,
               byReference'[q].supersedes # None
        PROVE  /\ byReference[q] # None /\ byReference[q].supersedes # None
               /\ byReference'[q].supersedes = byReference[q].supersedes
               /\ byReference'[q].supersedes # marked
    <3>1. /\ byReference[q] # None /\ byReference[q].supersedes # None
          /\ byReference'[q].supersedes = byReference[q].supersedes
      BY <1>3, <2>3
    <3>2. byReference[byReference[q].supersedes].status = "superseded"
      BY <2>1, <3>1 DEF RegistryInv, VersionsChain
    <3>3. marked # None => byReference[marked].status = "issued"
      BY DEF Enters, MayTransition
    <3> QED
      BY <3>1, <3>2, <3>3
  <2>4. ASSUME NEW r \in References \ claimed', NEW q \in References \ claimed',
               byReference'[r] # None, byReference'[r].supersedes # None,
               byReference'[q] # None, byReference'[q].supersedes = byReference'[r].supersedes
        PROVE  q = r
    <3>1. CASE r = new \/ q = new
      BY <2>1, <2>3, <2>4, <3>1
    <3>2. CASE r # new /\ q # new
      <4>1. /\ byReference[r] # None /\ byReference[r].supersedes # None
            /\ byReference[q] # None /\ byReference[q].supersedes = byReference[r].supersedes
        BY <2>3, <2>4, <3>2
      <4> QED
        BY <2>1, <4>1 DEF RegistryInv, VersionsChain
    <3> QED
      BY <3>1, <3>2
  <2>5. \A r, q \in References \ claimed' :
          byReference'[r] # None /\ byReference'[r].supersedes # None =>
            /\ byReference'[byReference'[r].supersedes] # None
            /\ byReference'[byReference'[r].supersedes].status = "superseded"
            /\ byReference'[q] # None /\ byReference'[q].supersedes = byReference'[r].supersedes
                 => q = r
    <3>1. \A r \in References \ claimed' :
            byReference'[r] # None /\ byReference'[r].supersedes # None =>
              /\ byReference'[byReference'[r].supersedes] # None
              /\ byReference'[byReference'[r].supersedes].status = "superseded"
      BY <2>2
    <3> QED
      BY <2>4, <3>1
  <2> QED
    BY <2>5 DEF VersionsChain
<1> QED
  BY <1>8, <1>9, <1>10 DEF RegistryInv

LEMMA TransitionKeeps ==
  ASSUME RegistryInv, NumbersInv', NEW r \in References,
         NEW status \in Statuses \ {"issued"}, NEW event, Transition(r, status, event)
  PROVE  RegistryInv'
<1>1. TypeOK /\ TypeOK' /\ None \notin Document
  BY IssuanceAssumption DEF RegistryInv, NumbersInv
<1>2. /\ byReference[r] \in Document /\ byReference[r] # None
      /\ byReference[r].status = "issued"
  BY <1>1 DEF Transition, MayTransition, TypeOK
<1>3. /\ byReference' = [byReference EXCEPT ![r] = [byReference[r] EXCEPT !.status = status]]
      /\ memo' = memo /\ allocated' = allocated /\ handed' = handed /\ claimed' = claimed
  BY DEF Transition
<1>4. ASSUME NEW q \in References
      PROVE  /\ byReference'[q] # None <=> byReference[q] # None
             /\ byReference[q] # None =>
                  /\ byReference'[q].key = byReference[q].key
                  /\ byReference'[q].payload = byReference[q].payload
                  /\ byReference'[q].supersedes = byReference[q].supersedes
                  /\ byReference[q].status = "superseded" =>
                       byReference'[q].status = "superseded"
  <2>1. CASE q = r
    <3>1. byReference'[q] = [byReference[r] EXCEPT !.status = status]
      BY <1>1, <1>3, <2>1 DEF TypeOK
    <3>2. byReference'[q] \in Document
      BY <1>2, <3>1 DEF Document
    <3> QED
      BY <1>1, <1>2, <2>1, <3>1, <3>2 DEF Document
  <2>2. CASE q # r
    BY <1>1, <1>3, <2>2 DEF TypeOK
  <2> QED
    BY <2>1, <2>2
<1>5. RegistersAgree'
  <2>1. \A k \in Keys : memo[k] \in References \cup {None}
    BY <1>1 DEF TypeOK
  <2> QED
    BY <1>3, <1>4, <2>1 DEF RegistryInv, RegistersAgree
<1>6. HandedOut'
  <2>1. \A c \in handed : c.hash.ref \in References
    BY <1>1 DEF TypeOK, Hash
  <2> QED
    BY <1>3, <1>4, <2>1 DEF RegistryInv, HandedOut
<1>7. VersionsChain'
  <2>1. \A q \in References :
          byReference[q] # None => byReference[q].supersedes \in References \cup {None}
    BY <1>1 DEF TypeOK, Document
  <2> QED
    BY <1>3, <1>4, <2>1 DEF RegistryInv, VersionsChain
<1> QED
  BY <1>5, <1>6, <1>7 DEF RegistryInv

LEMMA RegistryInvStep ==
  ASSUME DistinctPrefixes, RegistryInv, [Next]_service
  PROVE  RegistryInv'
<1>0. NumbersInv'
  BY NumbersInvStep DEF RegistryInv
<1>1. ASSUME NEW k \in Keys, Fits(k) PROVE ReferenceOf(AllocationFor(k)) \in References
  BY <1>1, AllocationType, ReferenceType DEF RegistryInv, NumbersInv
<1>2. ASSUME NEW k \in Keys, NEW p \in Payloads, NEW prior \in Claims, Issue(k, p, prior)
      PROVE  RegistryInv'
  <2>1. Enters(k, p, prior, None, ReferenceOf(AllocationFor(k)))
    BY <1>2, IssueEnters
  <2>2. Fits(k)
    BY <2>1 DEF Enters
  <2> QED
    BY <1>0, <1>1, <2>1, <2>2, EntersKeeps
<1>3. ASSUME NEW r \in References, NEW k \in Keys, NEW p \in Payloads, Supersede(r, k, p)
      PROVE  RegistryInv'
  <2>1. Enters(k, p, r, r, ReferenceOf(AllocationFor(k)))
    BY <1>3, SupersedeEnters
  <2>2. Fits(k)
    BY <2>1 DEF Enters
  <2> QED
    BY <1>0, <1>1, <2>1, <2>2, EntersKeeps
<1>4. ASSUME NEW k \in Keys, RenderFails(k) PROVE RegistryInv'
  <2>1. /\ UNCHANGED <<memo, byReference, handed, claimed>> /\ memo[k] = None
        /\ allocated' = [allocated EXCEPT ![k] = AllocationFor(k)]
        /\ allocated \in [Keys -> Allocation \cup {None}]
    BY <1>4 DEF RenderFails, Issued, Allocate, RegistryInv, NumbersInv, TypeOK
  <2>2. \A l \in Keys : memo[l] # None => allocated'[l] = allocated[l]
    BY <2>1
  <2>3. RegistersAgree'
    BY <2>1, <2>2 DEF RegistryInv, RegistersAgree
  <2>4. HandedOut' /\ VersionsChain'
    BY <2>1 DEF RegistryInv, HandedOut, VersionsChain
  <2> QED
    BY <1>0, <2>3, <2>4 DEF RegistryInv
<1>5. ASSUME NEW c \in Contracts, VoidNext(c) PROVE RegistryInv'
  BY <1>0, <1>5 DEF VoidNext, RegistryInv, RegistersAgree, HandedOut, VersionsChain
<1>6. CASE Next
  BY <1>0, <1>2, <1>3, <1>4, <1>5, <1>6, StepCases, TransitionKeeps
<1>7. CASE UNCHANGED service
  BY <1>0, <1>7 DEF service, RegistryInv, RegistersAgree, HandedOut, VersionsChain
<1> QED
  BY <1>6, <1>7

LEMMA RegistryInit == ASSUME Init PROVE RegistryInv
<1>1. NumbersInv
  BY NumbersInit
<1>2. RegistersAgree /\ HandedOut /\ VersionsChain
  BY DEF Init, RegistersAgree, HandedOut, VersionsChain
<1> QED
  BY <1>1, <1>2 DEF RegistryInv

LEMMA RegistryInvariance == ASSUME DistinctPrefixes PROVE Spec => []RegistryInv
<1>1. Init => RegistryInv
  BY RegistryInit
<1>2. RegistryInv /\ [Next]_service => RegistryInv'
  BY RegistryInvStep
<1> QED
  BY <1>1, <1>2, PTL DEF Spec

\* The registry, its memo and the allocator never disagree on whose a reference is.
THEOREM RegistersNeverDisagree == ASSUME DistinctPrefixes PROVE Spec => []RegistersAgree
<1>1. RegistryInv => RegistersAgree
  BY DEF RegistryInv
<1> QED
  BY <1>1, RegistryInvariance, PTL

\* What was handed out verifies for good, and nothing else ever does.
THEOREM VerificationSound == ASSUME DistinctPrefixes PROVE Spec => []GenuineVerifies
<1>1. RegistryInv => GenuineVerifies
  <2> SUFFICES ASSUME RegistryInv, NEW r \in References
               PROVE  /\ \A p \in Payloads :
                           Verify(r, HashOf(p, r)) = 200 <=> \E c \in handed : c.hash = HashOf(p, r)
                      /\ Verify(r, None) = 200 <=> \E c \in handed : c.hash.ref = r
    BY DEF GenuineVerifies
  <2>1. ASSUME NEW p \in Payloads, Verify(r, HashOf(p, r)) = 200
        PROVE  \E c \in handed : c.hash = HashOf(p, r)
    <3>1. HashOf(p, r) # None
      BY IssuanceAssumption DEF HashOf, Hash
    <3>2. byReference[r] # None /\ HashOf(p, r) = HashOf(byReference[r].payload, r)
      BY <2>1, <3>1 DEF Verify
    <3> QED
      BY <3>2 DEF RegistryInv, HandedOut
  <2>2. ASSUME NEW p \in Payloads, NEW c \in handed, c.hash = HashOf(p, r)
        PROVE  Verify(r, HashOf(p, r)) = 200
    <3>1. c.hash.ref = r /\ c.hash.payload = p
      BY <2>2 DEF HashOf
    <3>2. byReference[r] # None /\ byReference[r].payload = p
      BY <3>1 DEF RegistryInv, HandedOut
    <3> QED
      BY <3>2 DEF Verify
  <2>3. Verify(r, None) = 200 <=> byReference[r] # None
    BY DEF Verify
  <2>4. ASSUME byReference[r] # None
        PROVE  \E c \in handed : c.hash.ref = r
    <3>1. PICK c \in handed : c.hash = HashOf(byReference[r].payload, r)
      BY <2>4 DEF RegistryInv, HandedOut
    <3> QED
      BY <3>1 DEF HashOf
  <2>5. ASSUME NEW c \in handed, c.hash.ref = r
        PROVE  byReference[r] # None
    BY <2>5 DEF RegistryInv, HandedOut
  <2> QED
    BY <2>1, <2>2, <2>3, <2>4, <2>5
<1> QED
  BY <1>1, RegistryInvariance, PTL

\* supersede() replaces no Document twice, and none by a Document it still outlives,
\* whatever `supersedes' the callers of issue() give.
THEOREM VersionsNeverFork == ASSUME DistinctPrefixes PROVE Spec => []VersionsChain
<1>1. RegistryInv => VersionsChain
  BY DEF RegistryInv
<1> QED
  BY <1>1, RegistryInvariance, PTL

-----------------------------------------------------------------------------
(* The audit trail.                                                        *)

Told(r) ==
  IF byReference[r] = None THEN About(r) = {}
  ELSE \E i \in About(r) : TellsLife(r, byReference[r], i)

\* Events s were appended to the trail.
Grows(s) == s \in Seq(AuditEvent) /\ audit' = audit \o s

LEMMA GrowthFacts ==
  ASSUME TypeOK, NEW s, Grows(s), NEW r
  PROVE  /\ Len(audit) \in Nat /\ Len(s) \in Nat
         /\ DOMAIN audit = 1..Len(audit) /\ DOMAIN audit' = 1..(Len(audit) + Len(s))
         /\ \A i \in 1..Len(audit) : audit'[i] = audit[i]
         /\ \A i \in 1..Len(s) : audit'[Len(audit) + i] = s[i]
         /\ \A i : i \in About(r)' <=>
              i \in About(r) \/ \E n \in 1..Len(s) : i = Len(audit) + n /\ s[n].ref = r
<1>1. /\ Len(audit) \in Nat /\ Len(s) \in Nat
      /\ DOMAIN audit = 1..Len(audit) /\ DOMAIN audit' = 1..(Len(audit) + Len(s))
  BY DEF TypeOK, Grows
<1>2. \A i \in 1..Len(audit) : audit'[i] = audit[i]
  BY <1>1 DEF TypeOK, Grows
<1>3. \A i \in 1..Len(s) : audit'[Len(audit) + i] = s[i]
  BY <1>1 DEF TypeOK, Grows
<1>4. \A i : i \in 1..(Len(audit) + Len(s)) <=>
        i \in 1..Len(audit) \/ \E n \in 1..Len(s) : i = Len(audit) + n
  <2>1. ASSUME NEW i \in 1..(Len(audit) + Len(s)), i \notin 1..Len(audit)
        PROVE  i - Len(audit) \in 1..Len(s) /\ i = Len(audit) + (i - Len(audit))
    BY <1>1, <2>1
  <2>2. ASSUME NEW n \in 1..Len(s)
        PROVE  Len(audit) + n \in 1..(Len(audit) + Len(s))
    BY <1>1
  <2>3. 1..Len(audit) \subseteq 1..(Len(audit) + Len(s))
    BY <1>1
  <2> QED
    BY <2>1, <2>2, <2>3
<1>5. \A i : i \in About(r)' <=>
        i \in About(r) \/ \E n \in 1..Len(s) : i = Len(audit) + n /\ s[n].ref = r
  BY <1>1, <1>2, <1>3, <1>4 DEF About
<1> QED
  BY <1>1, <1>2, <1>3, <1>5

\* Events about other references leave what is told of r.
LEMMA ToldKept ==
  ASSUME TypeOK, NEW s, Grows(s), NEW r \in References, Told(r),
         \A n \in 1..Len(s) : s[n].ref # r, byReference'[r] = byReference[r]
  PROVE  Told(r)'
<1>1. About(r)' = About(r) /\ \A i \in About(r) : audit'[i] = audit[i]
  <2>1. \A i : i \in About(r)' <=> i \in About(r)
    BY GrowthFacts
  <2>2. \A i \in About(r) : i \in 1..Len(audit)
    BY GrowthFacts DEF About
  <2> QED
    BY <2>1, <2>2, GrowthFacts
<1>2. CASE byReference[r] = None
  BY <1>1, <1>2 DEF Told
<1>3. CASE byReference[r] # None
  <2>1. PICK i \in About(r) : TellsLife(r, byReference[r], i)
    BY <1>3 DEF Told
  <2>2. i \in Nat
    BY <2>1, GrowthFacts DEF About
  <2>3. i..(i + 2) \subseteq About(r)' /\ \A n \in 1..3 : i + n - 1 \in i..(i + 2)
    BY <1>1, <2>1, <2>2 DEF TellsLife
  <2>4. \A n \in 1..3 : audit'[i + n - 1] = Audit(Opening[n], byReference[r].key, r)
    BY <1>1, <2>1, <2>3 DEF TellsLife
  <2>5. IF byReference[r].status = "issued" THEN About(r)' = i..(i + 2)
        ELSE \E j \in About(r)' :
               /\ j > i + 2 /\ audit'[j] = Audit(Closing[byReference[r].status],
                                                byReference[r].key, r)
               /\ About(r)' = i..(i + 2) \cup {j}
    BY <1>1, <2>1 DEF TellsLife
  <2>6. \A d : d = byReference[r] => TellsLife(r, d, i)'
    BY <2>3, <2>4, <2>5 DEF TellsLife
  <2> QED
    BY <1>1, <1>3, <2>6 DEF Told
<1> QED
  BY <1>2, <1>3

\* The events that open a Document's life, and some about others.
LEMMA ToldNew ==
  ASSUME TypeOK, NEW s, Grows(s), NEW r \in References, NEW k \in Keys,
         byReference[r] = None, Told(r), Len(s) >= 3,
         \A n \in 1..3 : s[n] = Audit(Opening[n], k, r),
         \A n \in 4..Len(s) : s[n].ref # r,
         NEW d, byReference'[r] = d, d # None, d.key = k, d.status = "issued"
  PROVE  Told(r)'
<1> SUFFICES ASSUME NEW i, i = Len(audit) + 1
             PROVE  Told(r)'
  OBVIOUS
<1>1. Len(audit) \in Nat /\ Len(s) \in Nat /\ 1..3 \subseteq 1..Len(s)
  BY GrowthFacts
<1>2. About(r) = {}
  BY DEF Told
<1>3. \A j : j \in About(r)' <=> \E n \in 1..Len(s) : j = Len(audit) + n /\ s[n].ref = r
  BY <1>2, GrowthFacts
<1>4. \A n \in 1..Len(s) : s[n].ref = r <=> n \in 1..3
  BY <1>1 DEF Audit
<1>5. \A j : j \in About(r)' <=> \E n \in 1..3 : j = Len(audit) + n
  BY <1>1, <1>3, <1>4
<1>6. About(r)' = i..(i + 2)
  <2>1. ASSUME NEW j \in i..(i + 2)
        PROVE  j - Len(audit) \in 1..3 /\ j = Len(audit) + (j - Len(audit))
    BY <1>1
  <2>2. ASSUME NEW n \in 1..3
        PROVE  Len(audit) + n \in i..(i + 2)
    BY <1>1
  <2> QED
    BY <1>5, <2>1, <2>2
<1>7. \A n \in 1..3 : audit'[i + n - 1] = Audit(Opening[n], d.key, r)
  <2>1. ASSUME NEW n \in 1..3
        PROVE  i + n - 1 = Len(audit) + n /\ n \in 1..Len(s)
    BY <1>1
  <2>2. \A n \in 1..Len(s) : audit'[Len(audit) + n] = s[n]
    BY GrowthFacts
  <2> QED
    BY <2>1, <2>2
<1>8. TellsLife(r, d, i)' /\ i \in About(r)'
  BY <1>1, <1>6, <1>7 DEF TellsLife
<1> QED
  BY <1>8 DEF Told

\* The event that closes a Document's life, after some about others.
LEMMA ToldClosed ==
  ASSUME TypeOK, NEW s, Grows(s), NEW r \in References,
         byReference[r] # None, byReference[r].status = "issued", Told(r), Len(s) >= 1,
         NEW status \in DOMAIN Closing,
         s[Len(s)] = Audit(Closing[status], byReference[r].key, r),
         \A n \in 1..(Len(s) - 1) : s[n].ref # r,
         NEW d, byReference'[r] = d, d # None, d.key = byReference[r].key, d.status = status
  PROVE  Told(r)'
<1> SUFFICES ASSUME NEW j, j = Len(audit) + Len(s)
             PROVE  Told(r)'
  OBVIOUS
<1>1. Len(audit) \in Nat /\ Len(s) \in Nat /\ Len(s) \in 1..Len(s)
  BY GrowthFacts
<1>2. PICK i \in About(r) : TellsLife(r, byReference[r], i)
  BY DEF Told
<1>3. About(r) = i..(i + 2) /\ i..(i + 2) \subseteq 1..Len(audit) /\ i \in Nat
  <2>1. About(r) = i..(i + 2)
    BY <1>2 DEF TellsLife
  <2>2. About(r) \subseteq 1..Len(audit)
    BY GrowthFacts DEF About
  <2> QED
    BY <1>1, <1>2, <2>1, <2>2
<1>4. \A n \in 1..Len(s) : s[n].ref = r <=> n = Len(s)
  BY <1>1 DEF Audit
<1>5. \A l : l \in About(r)' <=> l \in i..(i + 2) \/ l = j
  <2>1. \A l : (\E n \in 1..Len(s) : l = Len(audit) + n /\ s[n].ref = r) <=> l = j
    BY <1>1, <1>4
  <2>2. \A l : l \in About(r)' <=>
          l \in About(r) \/ \E n \in 1..Len(s) : l = Len(audit) + n /\ s[n].ref = r
    BY GrowthFacts
  <2> QED
    BY <1>3, <2>1, <2>2
<1>6. About(r)' = i..(i + 2) \cup {j}
  BY <1>5
<1>7. audit'[j] = Audit(Closing[status], d.key, r)
  BY <1>1, GrowthFacts
<1>8. \A n \in 1..3 : audit'[i + n - 1] = Audit(Opening[n], d.key, r)
  <2>1. ASSUME NEW n \in 1..3
        PROVE  i + n - 1 \in i..(i + 2)
    BY <1>3
  <2> QED
    BY <1>2, <1>3, <2>1, GrowthFacts DEF TellsLife
<1>9. i + 2 \in 1..Len(audit)
  BY <1>3
<1>10. j > i + 2
  BY <1>1, <1>3, <1>9
<1>11. status # "issued"
  BY DEF Closing
<1>12. TellsLife(r, d, i)'
  BY <1>6, <1>7, <1>8, <1>10, <1>11 DEF TellsLife
<1>13. i \in About(r)'
  BY <1>3, <1>6
<1> QED
  BY <1>12, <1>13 DEF Told

LEMMA IssueTrailFacts ==
  ASSUME NEW k \in Keys, NEW r \in References
  PROVE  /\ IssueTrail(k, r) \in Seq(AuditEvent) /\ Len(IssueTrail(k, r)) = 3
         /\ \A n \in 1..3 : IssueTrail(k, r)[n] = Audit(Opening[n], k, r)
         /\ \A n \in 1..3 : IssueTrail(k, r)[n].ref = r
<1>1. IssueTrail(k, r) \in Seq(AuditEvent) /\ Len(IssueTrail(k, r)) = 3
  BY TrailType DEF IssueTrail
<1>2. /\ IssueTrail(k, r)[1] = Audit(Opening[1], k, r)
      /\ IssueTrail(k, r)[2] = Audit(Opening[2], k, r)
      /\ IssueTrail(k, r)[3] = Audit(Opening[3], k, r)
  BY DEF IssueTrail, Opening
<1>3. \A n \in 1..3 : n = 1 \/ n = 2 \/ n = 3
  OBVIOUS
<1>4. \A n \in 1..3 : IssueTrail(k, r)[n] = Audit(Opening[n], k, r)
  BY <1>2, <1>3
<1> QED
  BY <1>1, <1>4 DEF Audit

LEMMA ToldByIssue ==
  ASSUME DistinctPrefixes, RegistryInv, \A r \in References : Told(r),
         NEW k \in Keys, NEW p \in Payloads, NEW prior \in Claims, Issue(k, p, prior)
  PROVE  \A r \in References : Told(r)'
<1> DEFINE a == AllocationFor(k)
<1> SUFFICES ASSUME NEW new, new = ReferenceOf(a)
             PROVE  \A r \in References : Told(r)'
  OBVIOUS
<1>1. TypeOK /\ new \in References
  BY AllocationType, ReferenceType DEF Issue, RegistryInv, NumbersInv
<1>2. /\ Enters(k, p, prior, None, new) /\ None \notin References /\ None \notin Document
      /\ prior \in References \cup {None}
  BY IssueEnters, IssuanceAssumption
<1> DEFINE s == IssueTrail(k, new)
           d == NewDocument(k, p, prior)
<1>3. Grows(s) /\ Len(s) = 3
  BY <1>1, IssueTrailFacts DEF Issue, Grows
<1>4. \A n \in 1..3 : s[n] = Audit(Opening[n], k, new)
  BY <1>1, IssueTrailFacts
<1>5. \A n \in 1..3 : s[n].ref = new
  BY <1>1, IssueTrailFacts
<1>6. /\ byReference'[new] = d
      /\ \A r \in References \ {new} : byReference'[r] = byReference[r]
  BY <1>1, <1>2 DEF Enters
<1>7. d.key = k /\ d.status = "issued" /\ d \in Document
  BY <1>2, IssuanceAssumption DEF NewDocument, Document, Statuses
<1>8. byReference[new] = None
  BY <1>2 DEF Enters
<1> HIDE DEF s, d
<1>9. ASSUME NEW r \in References \ {new}
      PROVE  Told(r)'
  BY <1>1, <1>3, <1>5, <1>6, ToldKept
<1>10. Told(new)'
  <2>1. /\ Len(s) >= 3 /\ d # None
        /\ \A n \in 4..Len(s) : s[n].ref # new
    BY <1>2, <1>3, <1>7
  <2> QED
    BY <1>1, <1>3, <1>4, <1>6, <1>7, <1>8, <2>1, ToldNew
<1> QED
  BY <1>9, <1>10

LEMMA AppendFacts ==
  ASSUME NEW S, NEW t \in Seq(S), NEW e \in S
  PROVE  /\ Append(t, e) \in Seq(S) /\ Len(Append(t, e)) = Len(t) + 1
         /\ Append(t, e)[Len(t) + 1] = e
         /\ \A n \in 1..Len(t) : Append(t, e)[n] = t[n]
  OBVIOUS

LEMMA ToldBySupersede ==
  ASSUME DistinctPrefixes, RegistryInv, \A r \in References : Told(r),
         NEW q \in References, NEW k \in Keys, NEW p \in Payloads, Supersede(q, k, p)
  PROVE  \A r \in References : Told(r)'
<1> DEFINE a == AllocationFor(k)
<1> SUFFICES ASSUME NEW new, new = ReferenceOf(a)
             PROVE  \A r \in References : Told(r)'
  OBVIOUS
<1>1. TypeOK /\ new \in References
  BY AllocationType, ReferenceType DEF Supersede, RegistryInv, NumbersInv
<1>2. Enters(k, p, q, q, new) /\ None \notin References /\ None \notin Document
  BY SupersedeEnters, IssuanceAssumption
<1>3. /\ byReference[new] = None /\ byReference[q] # None /\ byReference[q] \in Document
      /\ byReference[q].status = "issued" /\ byReference[q].key \in Keys
  BY <1>1, <1>2 DEF Enters, MayTransition, TypeOK, Document
<1> DEFINE prior == [byReference[q] EXCEPT !.status = "superseded"]
           event == Audit("document.superseded", byReference[q].key, q)
           opening == IssueTrail(k, new)
           s == Append(opening, event)
           d == NewDocument(k, p, q)
<1>4. /\ opening \in Seq(AuditEvent) /\ Len(opening) = 3
      /\ \A n \in 1..3 : opening[n] = Audit(Opening[n], k, new)
  BY <1>1, IssueTrailFacts
<1>5. prior.key = byReference[q].key /\ prior.status = "superseded" /\ prior \in Document
  BY <1>3 DEF Document, Statuses
<1>6. event \in AuditEvent
  BY <1>3, TrailType DEF AuditTypes
<1>7. audit' = audit \o s
  BY <1>5 DEF Supersede
<1>8. q # new
  BY <1>3
<1>9. /\ byReference'[new] = d /\ byReference'[q] = prior
      /\ \A r \in References \ {new, q} : byReference'[r] = byReference[r]
  BY <1>1, <1>2, <1>8 DEF Enters
<1>10. d.key = k /\ d.status = "issued" /\ d \in Document
  BY <1>1, IssuanceAssumption DEF NewDocument, Document, Statuses
<1>11. event.ref = q /\ Closing["superseded"] = "document.superseded"
       /\ "superseded" \in DOMAIN Closing
  BY DEF Audit, Closing
<1>12. event = Audit(Closing["superseded"], byReference[q].key, q)
  BY <1>11
<1> HIDE DEF opening, event, prior, d
<1>13. /\ s \in Seq(AuditEvent) /\ Len(s) = 4 /\ s[4] = event
       /\ \A n \in 1..3 : s[n] = opening[n]
  <2> HIDE DEF s
  <2>1. s = Append(opening, event)
    BY DEF s
  <2>2. \A t \in Seq(AuditEvent), e \in AuditEvent :
          /\ Append(t, e) \in Seq(AuditEvent) /\ Len(Append(t, e)) = Len(t) + 1
          /\ Append(t, e)[Len(t) + 1] = e
          /\ \A n \in 1..Len(t) : Append(t, e)[n] = t[n]
    BY AppendFacts
  <2>3. /\ s \in Seq(AuditEvent) /\ Len(s) = Len(opening) + 1
        /\ s[Len(opening) + 1] = event
        /\ \A n \in 1..Len(opening) : s[n] = opening[n]
    BY <1>4, <1>6, <2>1, <2>2, Zenon
  <2> QED
    BY <1>4, <2>3
<1>14. \A n \in 1..3 : s[n] = Audit(Opening[n], k, new) /\ s[n].ref = new
  BY <1>4, <1>13 DEF Audit
<1>15. Grows(s)
  BY <1>7, <1>13 DEF Grows
<1>16. \A n \in 1..4 : n \in 1..3 \/ n = 4
  OBVIOUS
<1> HIDE DEF s
<1>17. ASSUME NEW r \in References \ {new, q}
       PROVE  Told(r)'
  <2>1. \A n \in 1..Len(s) : s[n].ref # r
    BY <1>11, <1>13, <1>14, <1>16
  <2> QED
    BY <1>1, <1>9, <1>15, <2>1, ToldKept
<1>18. Told(new)'
  <2>1. \A n \in 4..Len(s) : s[n].ref # new
    BY <1>8, <1>11, <1>13
  <2>2. Len(s) >= 3 /\ d # None
    BY <1>2, <1>10, <1>13
  <2> QED
    BY <1>1, <1>3, <1>9, <1>10, <1>14, <1>15, <2>1, <2>2, ToldNew
<1>19. Told(q)'
  <2>1. \A n \in 1..(Len(s) - 1) : s[n].ref # q
    BY <1>8, <1>13, <1>14
  <2>2. Len(s) >= 1 /\ prior # None
    BY <1>2, <1>5, <1>13
  <2>3. s[Len(s)] = Audit(Closing["superseded"], byReference[q].key, q)
    BY <1>12, <1>13
  <2> QED
    BY <1>1, <1>3, <1>5, <1>9, <1>11, <1>15, <2>1, <2>2, <2>3, ToldClosed
<1> QED
  BY <1>17, <1>18, <1>19

LEMMA ToldByTransition ==
  ASSUME TypeOK, \A r \in References : Told(r), NEW q \in References,
         NEW status \in DOMAIN Closing, Transition(q, status, Closing[status])
  PROVE  \A r \in References : Told(r)'
<1> DEFINE event == Audit(Closing[status], byReference[q].key, q)
           s == <<event>>
           d == [byReference[q] EXCEPT !.status = status]
<1>1. /\ byReference[q] # None /\ byReference[q] \in Document
      /\ byReference[q].status = "issued" /\ byReference[q].key \in Keys
  BY DEF Transition, MayTransition, TypeOK, Document
<1>2. status \in Statuses /\ Closing[status] \in AuditTypes
  BY DEF Closing, Statuses, AuditTypes
<1>3. event \in AuditEvent /\ event.ref = q
  BY <1>1, <1>2, TrailType DEF Audit
<1>4. d \in Document /\ d.key = byReference[q].key /\ d.status = status /\ d # None
  BY <1>1, <1>2, IssuanceAssumption DEF Document
<1>5. /\ byReference'[q] = d
      /\ \A r \in References \ {q} : byReference'[r] = byReference[r]
  BY DEF Transition, TypeOK
<1>6. audit' = Append(audit, event)
  BY DEF Transition
<1> HIDE DEF event, d
<1>7. s \in Seq(AuditEvent) /\ Len(s) = 1 /\ s[1] = event
  BY <1>3
<1>8. audit' = audit \o s
  BY <1>3, <1>6 DEF TypeOK
<1>9. Grows(s)
  BY <1>7, <1>8 DEF Grows
<1> HIDE DEF s
<1>10. ASSUME NEW r \in References \ {q}
       PROVE  Told(r)'
  <2>1. \A n \in 1..Len(s) : s[n].ref # r
    BY <1>3, <1>7
  <2> QED
    BY <1>5, <1>9, <2>1, ToldKept
<1>11. Told(q)'
  <2>1. /\ s[Len(s)] = Audit(Closing[status], byReference[q].key, q)
        /\ \A n \in 1..(Len(s) - 1) : s[n].ref # q
    BY <1>7 DEF event
  <2>2. Len(s) >= 1
    BY <1>7
  <2> QED
    BY <1>1, <1>4, <1>5, <1>9, <2>1, <2>2, ToldClosed
<1> QED
  BY <1>10, <1>11

LEMMA ClosingSteps ==
  ASSUME NEW r \in References, NEW k \in Keys,
         SupersedeReplayed(r, k) \/ Revoke(r) \/ Accept(r)
  PROVE  \E status \in DOMAIN Closing : Transition(r, status, Closing[status])
<1>1. /\ DOMAIN Closing = {"superseded", "revoked", "accepted"}
      /\ Closing["superseded"] = "document.superseded"
      /\ Closing["revoked"] = "document.revoked"
      /\ Closing["accepted"] = "document.accepted"
  BY DEF Closing
<1> QED
  BY <1>1 DEF SupersedeReplayed, Revoke, Accept

LEMMA ToldStep ==
  ASSUME DistinctPrefixes, RegistryInv, \A r \in References : Told(r), [Next]_service
  PROVE  \A r \in References : Told(r)'
<1>1. ASSUME UNCHANGED <<byReference, audit>>
      PROVE  \A r \in References : Told(r)'
  BY <1>1 DEF Told, About, TellsLife
<1>2. TypeOK
  BY DEF RegistryInv, NumbersInv
<1>3. ASSUME NEW r \in References, Revoke(r) \/ Accept(r)
      PROVE  \A q \in References : Told(q)'
  <2>1. \E status \in DOMAIN Closing : Transition(r, status, Closing[status])
    BY <1>3 DEF Revoke, Accept, Closing
  <2> QED
    BY <1>2, <2>1, ToldByTransition
<1>4. ASSUME NEW r \in References, NEW k \in Keys, SupersedeReplayed(r, k)
      PROVE  \A q \in References : Told(q)'
  BY <1>2, <1>4, ClosingSteps, ToldByTransition
<1> QED
  BY <1>1, <1>3, <1>4, ToldByIssue, ToldBySupersede
  DEF Next, RenderFails, VoidNext, service

\* The audit trail alone tells the registry: whose each reference is, that it was
\* issued once, and whether and how its life ended.
THEOREM TrailTells == ASSUME DistinctPrefixes PROVE Spec => []AuditTellsRegistry
<1>1. Init => \A r \in References : Told(r)
  BY DEF Init, Told, About
<1>2. RegistryInv /\ (\A r \in References : Told(r)) /\ [Next]_service
        => (\A r \in References : Told(r))'
  BY ToldStep
<1>3. (\A r \in References : Told(r)) => AuditTellsRegistry
  BY DEF Told, AuditTellsRegistry
<1> QED
  BY <1>1, <1>2, <1>3, RegistryInvariance, PTL DEF Spec

-----------------------------------------------------------------------------
(* The activities.                                                         *)

\* Past issuing, the Case has a reference.
Holding == \A k \in Keys : phase[k] # "issuing" => held[k] \in References

Step(k) == IssueAttempt(k) \/ Decide(k) \/ AcceptAttempt(k)

\* An attempt is a call of the service, or leaves it alone.
LEMMA ServiceSteps ==
  ASSUME ActivityTypeOK, Holding, NEW k \in Keys, Step(k)
  PROVE  [Next]_service /\ restarts' = restarts
<1>1. ASSUME IssueAttempt(k)
      PROVE  [Next]_service
  <2>1. PayloadOf[k] \in Payloads /\ None \in Claims
    BY ActivityAssumption, IssuanceAssumption
  <2> QED
    BY <1>1, <2>1 DEF IssueAttempt, IssueReplay, Next
<1>2. ASSUME AcceptAttempt(k)
      PROVE  [Next]_service
  <2>1. held[k] \in References
    BY <1>2 DEF AcceptAttempt, AcceptDue, Holding
  <2> QED
    BY <1>2, <2>1 DEF AcceptAttempt, Next
<1>3. ASSUME Decide(k)
      PROVE  [Next]_service
  BY <1>3 DEF Decide
<1>4. restarts' = restarts
  BY DEF Step, IssueAttempt, Decide, AcceptAttempt, Complete, Lose
<1> QED
  BY <1>1, <1>2, <1>3, <1>4 DEF Step

-----------------------------------------------------------------------------
(* Types.                                                                  *)

HistoryEvents == AuditTypes \cup {"document.declined"}

\* What issueDocument returns as the Case's events is what the audit trail grew by.
LEMMA GrowthType ==
  ASSUME TypeOK, TypeOK', NEW k \in Keys, NEW p, Issue(k, p, None) \/ UNCHANGED service
  PROVE  [i \in 1..(Len(audit') - Len(audit)) |-> audit'[Len(audit) + i].type]
           \in Seq(HistoryEvents)
<1> DEFINE n == Len(audit') - Len(audit)
           evs == [i \in 1..n |-> audit'[Len(audit) + i].type]
<1>1. Len(audit) \in Nat /\ Len(audit') \in Nat /\ audit \in Seq(AuditEvent)
  BY DEF TypeOK
<1>2. Len(audit') >= Len(audit)
  <2>1. CASE Issue(k, p, None)
    <3>1. Fits(k) /\ ReferenceOf(AllocationFor(k)) \in References
      BY <2>1, AllocationType, ReferenceType DEF Issue
    <3>2. \A r \in References : IssueTrail(k, r) \in Seq(AuditEvent)
      BY TrailType
    <3>3. PICK s \in Seq(AuditEvent) : audit' = audit \o s
      BY <2>1, <3>1, <3>2 DEF Issue
    <3> QED
      BY <1>1, <3>3
  <2>2. CASE UNCHANGED service
    BY <1>1, <2>2 DEF service
  <2> QED
    BY <2>1, <2>2
<1>3. \A i \in 1..n : audit'[Len(audit) + i] \in AuditEvent
  <2>1. \A i \in 1..n : Len(audit) + i \in 1..Len(audit')
    BY <1>1, <1>2
  <2>2. \A j \in 1..Len(audit') : audit'[j] \in AuditEvent
    BY DEF TypeOK
  <2> QED
    BY <2>1, <2>2
<1>4. \A i \in 1..n : audit'[Len(audit) + i].type \in HistoryEvents
  BY <1>3 DEF AuditEvent, HistoryEvents
<1>5. n \in Nat /\ evs \in [1..n -> HistoryEvents]
  BY <1>1, <1>2, <1>4
<1> HIDE DEF n, evs
<1>6. evs \in Seq(HistoryEvents)
  BY <1>5
<1> QED
  BY <1>6 DEF evs, n

\* The workflow's part of a completed activity.
LEMMA CompleteType ==
  ASSUME ActivityTypeOK, NEW k \in Keys, NEW p \in Phases, NEW evs \in Seq(HistoryEvents),
         Complete(k, p, evs)
  PROVE  /\ phase' \in [Keys -> Phases]
         /\ history' \in [Keys -> Seq(HistoryEvents)]
         /\ lost' = lost /\ restarts' = restarts
<1>1. history \in [Keys -> Seq(HistoryEvents)]
  BY DEF ActivityTypeOK, HistoryEvents
<1>2. history[k] \o evs \in Seq(HistoryEvents)
  BY <1>1
<1>3. history' = [history EXCEPT ![k] = history[k] \o evs]
  BY DEF Complete
<1>4. history' \in [Keys -> Seq(HistoryEvents)]
  BY <1>1, <1>2, <1>3
<1> QED
  BY <1>4 DEF Complete, ActivityTypeOK

LEMMA LoseType ==
  ASSUME ActivityTypeOK, Lose
  PROVE  /\ UNCHANGED <<phase, held, history, restarts>>
         /\ lost' \in 0..MaxLost
  BY ActivityAssumption DEF Lose, workflow, ActivityTypeOK

LEMMA IssueAttemptType ==
  ASSUME ActivityTypeOK, Holding, NEW k \in Keys, IssueAttempt(k)
  PROVE  ActivityTypeOK' /\ Holding'
<1>1. TypeOK /\ TypeOK'
  BY ServiceSteps, TypeStep DEF ActivityTypeOK, Step
<1>2. memo'[k] \in References
  <2>1. memo'[k] # None
    <3>1. ASSUME NEW p \in Payloads, Issue(k, p, None)
          PROVE  memo'[k] # None
      <4>1. ReferenceOf(AllocationFor(k)) \in References
        BY <1>1, <3>1, AllocationType, ReferenceType DEF Issue
      <4>2. memo'[k] = ReferenceOf(AllocationFor(k))
        BY <1>1, <3>1 DEF Issue, TypeOK
      <4> QED
        BY <4>1, <4>2, IssuanceAssumption
    <3> QED
      BY <3>1, ActivityAssumption DEF IssueAttempt, IssueReplay, Issued, service
  <2> QED
    BY <1>1, <2>1 DEF TypeOK
<1> DEFINE evs == [i \in 1..(Len(audit') - Len(audit)) |-> audit'[Len(audit) + i].type]
           p == IF k \in OfferKeys THEN "offered" ELSE "issued"
<1>3. evs \in Seq(HistoryEvents)
  BY <1>1, GrowthType, ActivityAssumption DEF IssueAttempt, IssueReplay
<1>4. p \in Phases /\ p # "issuing"
  BY DEF Phases
<1>5. \/ Complete(k, p, evs) /\ held' = [held EXCEPT ![k] = memo'[k]]
      \/ Lose
  BY DEF IssueAttempt
<1> HIDE DEF evs, p
<1>6. CASE Complete(k, p, evs) /\ held' = [held EXCEPT ![k] = memo'[k]]
  <2>1. /\ phase' \in [Keys -> Phases] /\ history' \in [Keys -> Seq(HistoryEvents)]
        /\ lost' = lost /\ restarts' = restarts
    BY <1>3, <1>4, <1>6, CompleteType
  <2>2. held' \in [Keys -> References \cup {None}]
    BY <1>2, <1>6 DEF ActivityTypeOK
  <2>3. ActivityTypeOK'
    BY <1>1, <2>1, <2>2 DEF ActivityTypeOK, HistoryEvents
  <2>4. phase' = [phase EXCEPT ![k] = p]
    BY <1>6 DEF Complete
  <2>5. Holding'
    BY <1>2, <1>6, <2>4 DEF Holding, ActivityTypeOK
  <2> QED
    BY <2>3, <2>5
<1>7. CASE Lose
  BY <1>1, <1>7, LoseType DEF ActivityTypeOK, Holding
<1> QED
  BY <1>5, <1>6, <1>7

LEMMA OtherStepType ==
  ASSUME ActivityTypeOK, Holding, NEW k \in Keys, Decide(k) \/ AcceptAttempt(k)
  PROVE  ActivityTypeOK' /\ Holding'
<1>1. TypeOK'
  BY ServiceSteps, TypeStep DEF ActivityTypeOK, Step
<1>2. phase[k] # "issuing"
  BY DEF Decide, AcceptAttempt, AcceptDue
<1>3. \/ Lose
      \/ /\ held' = held
         /\ \E p \in Phases, evs \in Seq(HistoryEvents) : Complete(k, p, evs)
  <2>1. /\ <<>> \in Seq(HistoryEvents) /\ <<"document.declined">> \in Seq(HistoryEvents)
        /\ <<"document.accepted">> \in Seq(HistoryEvents)
        /\ {"accepting", "declined", "accepted"} \subseteq Phases
    BY DEF HistoryEvents, AuditTypes, Phases
  <2> QED
    BY <2>1 DEF Decide, AcceptAttempt
<1>4. CASE Lose
  BY <1>1, <1>4, LoseType DEF ActivityTypeOK, Holding
<1>5. ASSUME NEW p \in Phases, NEW evs \in Seq(HistoryEvents), Complete(k, p, evs), held' = held
      PROVE  ActivityTypeOK' /\ Holding'
  <2>1. /\ phase' \in [Keys -> Phases] /\ history' \in [Keys -> Seq(HistoryEvents)]
        /\ lost' = lost /\ restarts' = restarts
    BY <1>5, CompleteType
  <2>2. ActivityTypeOK'
    BY <1>1, <1>5, <2>1 DEF ActivityTypeOK, HistoryEvents
  <2>3. phase' = [phase EXCEPT ![k] = p]
    BY <1>5 DEF Complete
  <2>4. Holding'
    BY <1>2, <1>5, <2>3 DEF Holding, ActivityTypeOK
  <2> QED
    BY <2>2, <2>4
<1> QED
  BY <1>3, <1>4, <1>5

LEMMA RestartType ==
  ASSUME ActivityTypeOK, Holding, WorkerRestart
  PROVE  ActivityTypeOK' /\ Holding'
<1>1. TypeOK'
  BY IssuanceAssumption DEF WorkerRestart, ActivityTypeOK, TypeOK, Numbers
<1>2. restarts' \in 0..MaxRestarts
  BY ActivityAssumption DEF WorkerRestart, ActivityTypeOK
<1> QED
  BY <1>1, <1>2 DEF WorkerRestart, workflow, ActivityTypeOK, Holding

\* The state of the workflows has its type, whatever is lost and however often the
\* worker restarts; past issuing, a Case holds a reference.
LEMMA ActivityInvariance == ActivitySpec => [](ActivityTypeOK /\ Holding)
<1>1. ActivityInit => ActivityTypeOK /\ Holding
  <2> SUFFICES ASSUME ActivityInit PROVE ActivityTypeOK /\ Holding
    OBVIOUS
  <2>1. TypeOK
    BY IssuanceAssumption DEF ActivityInit, Init, TypeOK, Numbers
  <2> QED
    BY <2>1, ActivityAssumption DEF ActivityInit, ActivityTypeOK, Holding, Phases
<1>2. ActivityTypeOK /\ Holding /\ [ActivityNext]_activityVars => (ActivityTypeOK /\ Holding)'
  <2>1. ASSUME ActivityTypeOK, Holding, UNCHANGED activityVars
        PROVE  ActivityTypeOK' /\ Holding'
    BY <2>1 DEF activityVars, service, workflow, ActivityTypeOK, TypeOK, Holding
  <2> QED
    BY <2>1, IssueAttemptType, OtherStepType, RestartType DEF ActivityNext
<1> QED
  BY <1>1, <1>2, PTL DEF ActivitySpec

\* The types of the workflows and of the registry they call.
THEOREM ActivityTypeCorrect == ActivitySpec => []ActivityTypeOK
  BY ActivityInvariance, PTL

-----------------------------------------------------------------------------
(* While the worker lives.                                                 *)

\* A Case past issuing has the reference the registry has for its step, and every
\* copy handed out has the reference of its key.
Memoized ==
  /\ \A k \in Keys : phase[k] # "issuing" => memo[k] # None /\ held[k] = memo[k]
  /\ \A c \in handed : memo[c.key] = c.hash.ref

\* A Document is accepted after its holder's word, and before the Case says so.
Accepted ==
  /\ \A r \in References :
       byReference[r] # None /\ byReference[r].status = "accepted"
         => phase[byReference[r].key] \in {"accepting", "accepted"}
  /\ \A k \in Keys :
       phase[k] = "accepted" => byReference[held[k]].status = "accepted"

Lives ==
  /\ RegistryInv
  /\ \A r \in References : Told(r)
  /\ Memoized
  /\ Accepted

LifeInv == ActivityTypeOK /\ Holding /\ (restarts = 0 => Lives)

\* The registry's own invariants, by what the service proofs say of its steps.
LEMMA RegistryLives ==
  ASSUME DistinctPrefixes, ActivityTypeOK, Holding, Lives, NEW k \in Keys, Step(k)
  PROVE  /\ RegistryInv'
         /\ \A r \in References : Told(r)'
  BY ServiceSteps, RegistryInvStep, ToldStep DEF Lives

\* What a first issue does to the registry: a new reference, and the rest as it was.
LEMMA FirstIssue ==
  ASSUME DistinctPrefixes, RegistryInv, NEW k \in Keys, NEW p \in Payloads, Issue(k, p, None)
  PROVE  \E new \in References :
           /\ memo[k] = None /\ memo' = [memo EXCEPT ![k] = new]
           /\ byReference[new] = None
           /\ byReference'[new].status = "issued" /\ byReference'[new].key = k
           /\ \A r \in References \ {new} : byReference'[r] = byReference[r]
           /\ handed' = handed \cup {[key |-> k, hash |-> HashOf(p, new)]}
<1> DEFINE a == AllocationFor(k)
<1> SUFFICES ASSUME NEW new, new = ReferenceOf(a)
             PROVE  /\ new \in References
                    /\ memo[k] = None /\ memo' = [memo EXCEPT ![k] = new]
                    /\ byReference[new] = None
                    /\ byReference'[new].status = "issued" /\ byReference'[new].key = k
                    /\ \A r \in References \ {new} : byReference'[r] = byReference[r]
                    /\ handed' = handed \cup {[key |-> k, hash |-> HashOf(p, new)]}
  OBVIOUS
<1>1. new \in References
  BY AllocationType, ReferenceType DEF Issue, RegistryInv, NumbersInv
<1>2. Enters(k, p, None, None, new) /\ None \notin References
  BY IssueEnters, IssuanceAssumption
<1>3. byReference'[new] = NewDocument(k, p, None)
  BY <1>1, <1>2 DEF Enters
<1>4. \A r \in References \ {new} : byReference'[r] = byReference[r]
  BY <1>2 DEF Enters
<1> QED
  BY <1>1, <1>2, <1>3, <1>4 DEF Enters, NewDocument

LEMMA IssueLives ==
  ASSUME DistinctPrefixes, ActivityTypeOK, Holding, Lives, NEW k \in Keys, IssueAttempt(k)
  PROVE  (Memoized /\ Accepted)'
<1>1. /\ memo \in [Keys -> References \cup {None}] /\ handed \subseteq [key: Keys, hash: Hash]
      /\ held \in [Keys -> References \cup {None}] /\ phase \in [Keys -> Phases]
      /\ byReference \in [References -> Document \cup {None}]
      /\ None \notin References
  BY IssuanceAssumption DEF ActivityTypeOK, TypeOK
<1>2. phase[k] = "issuing"
  BY DEF IssueAttempt
\* The registry's part.
<1>3. /\ memo'[k] # None
      /\ \A l \in Keys \ {k} : memo'[l] = memo[l]
      /\ \A l \in Keys : memo[l] # None => memo'[l] = memo[l]
      /\ \A c \in handed' : memo'[c.key] = c.hash.ref
      /\ \A r \in References :
           byReference[r] # None => byReference'[r] = byReference[r]
      /\ \A r \in References :
           byReference'[r] # None /\ byReference'[r].status = "accepted"
             => byReference[r] # None /\ byReference[r].status = "accepted"
  <2>1. CASE Issue(k, PayloadOf[k], None)
    <3>1. PICK new \in References :
           /\ memo[k] = None /\ memo' = [memo EXCEPT ![k] = new]
           /\ byReference[new] = None
           /\ byReference'[new].status = "issued" /\ byReference'[new].key = k
           /\ \A r \in References \ {new} : byReference'[r] = byReference[r]
           /\ handed' = handed \cup {[key |-> k, hash |-> HashOf(PayloadOf[k], new)]}
      BY <2>1, FirstIssue, ActivityAssumption DEF Lives
    <3>2. /\ memo'[k] = new /\ \A l \in Keys \ {k} : memo'[l] = memo[l]
      BY <1>1, <3>1
    <3>3. ASSUME NEW c \in handed'
          PROVE  memo'[c.key] = c.hash.ref
      <4>1. CASE c \in handed
        <5>1. memo[c.key] = c.hash.ref /\ c.key \in Keys /\ c.hash.ref \in References
          BY <1>1, <4>1 DEF Lives, Memoized, Hash
        <5> QED
          BY <1>1, <3>1, <3>2, <5>1
      <4>2. CASE c = [key |-> k, hash |-> HashOf(PayloadOf[k], new)]
        BY <3>2, <4>2 DEF HashOf
      <4> QED
        BY <3>1, <4>1, <4>2
    <3> QED
      BY <1>1, <3>1, <3>2, <3>3
  <2>2. CASE IssueReplay(k)
    BY <2>2 DEF IssueReplay, Issued, service, Lives, Memoized
  <2> QED
    BY <2>1, <2>2 DEF IssueAttempt
\* The workflow's part.
<1>4. /\ \A l \in Keys \ {k} : phase'[l] = phase[l] /\ held'[l] = held[l]
      /\ phase'[k] # "issuing" => held'[k] = memo'[k]
      /\ phase'[k] # "accepted"
  <2>1. CASE Lose
    BY <1>1, <1>2, <2>1 DEF Lose, workflow
  <2>2. CASE ~Lose
    <3>1. PICK p \in {"offered", "issued"} : \E evs : Complete(k, p, evs)
      BY <2>2 DEF IssueAttempt
    <3>2. phase' = [phase EXCEPT ![k] = p]
      BY <3>1 DEF Complete
    <3>3. held' = [held EXCEPT ![k] = memo'[k]]
      BY <2>2 DEF IssueAttempt
    <3> QED
      BY <1>1, <3>2, <3>3
  <2> QED
    BY <2>1, <2>2
<1>5. Memoized'
  <2>1. \A l \in Keys : phase'[l] # "issuing" => memo'[l] # None /\ held'[l] = memo'[l]
    BY <1>3, <1>4 DEF Lives, Memoized
  <2> QED
    BY <1>3, <2>1 DEF Memoized
<1>6. Accepted'
  <2>1. ASSUME NEW r \in References, byReference'[r] # None, byReference'[r].status = "accepted"
        PROVE  phase'[byReference'[r].key] \in {"accepting", "accepted"}
    <3>1. /\ byReference[r] # None /\ byReference[r].status = "accepted"
          /\ byReference'[r] = byReference[r]
      BY <1>3, <2>1
    <3>2. phase[byReference[r].key] \in {"accepting", "accepted"} /\ byReference[r].key \in Keys
      BY <1>1, <3>1 DEF Lives, Accepted, Document
    <3> QED
      BY <1>2, <1>4, <3>1, <3>2
  <2>2. ASSUME NEW l \in Keys, phase'[l] = "accepted"
        PROVE  byReference'[held'[l]].status = "accepted"
    <3>1. l # k /\ phase[l] = "accepted" /\ held'[l] = held[l]
      BY <1>4, <2>2
    <3>2. byReference[held[l]].status = "accepted"
      BY <3>1 DEF Lives, Accepted
    <3>3. held[l] = memo[l] /\ memo[l] # None /\ memo[l] \in References
      BY <1>1, <3>1 DEF Lives, Memoized
    <3>4. byReference[memo[l]] # None
      BY <3>3 DEF Lives, RegistryInv, RegistersAgree
    <3> QED
      BY <1>3, <3>1, <3>2, <3>3, <3>4
  <2> QED
    BY <2>1, <2>2 DEF Accepted
<1> QED
  BY <1>5, <1>6

\* The Case's step k, once the holder has its reference.
LEMMA HeldDocument ==
  ASSUME ActivityTypeOK, Lives, NEW k \in Keys, phase[k] # "issuing"
  PROVE  /\ held[k] \in References /\ held[k] = memo[k]
         /\ byReference[held[k]] \in Document /\ byReference[held[k]] # None
         /\ byReference[held[k]].key = k
<1>1. memo[k] # None /\ held[k] = memo[k] /\ memo[k] \in References
  BY DEF ActivityTypeOK, TypeOK, Lives, Memoized
<1>2. byReference[memo[k]] # None /\ byReference[memo[k]].key = k
  BY <1>1 DEF Lives, RegistryInv, RegistersAgree
<1> QED
  BY <1>1, <1>2 DEF ActivityTypeOK, TypeOK

LEMMA DecideLives ==
  ASSUME ActivityTypeOK, Holding, Lives, NEW k \in Keys, Decide(k)
  PROVE  (Memoized /\ Accepted)'
<1>1. phase \in [Keys -> Phases] /\ byReference \in [References -> Document \cup {None}]
  BY DEF ActivityTypeOK, TypeOK
<1>2. UNCHANGED <<memo, handed, byReference, held>>
  BY DEF Decide, service
<1>3. phase[k] = "offered" /\ phase'[k] # "accepted"
      /\ \A l \in Keys \ {k} : phase'[l] = phase[l]
  <2>1. PICK p \in {"accepting", "declined"} : phase' = [phase EXCEPT ![k] = p]
    BY DEF Decide, Complete
  <2> QED
    BY <1>1, <2>1 DEF Decide
<1>4. \A l \in Keys : phase'[l] # "issuing" => phase[l] # "issuing"
  BY <1>3
<1>5. Memoized'
  BY <1>2, <1>4 DEF Lives, Memoized
<1>6. Accepted'
  <2>1. ASSUME NEW r \in References, byReference[r] # None, byReference[r].status = "accepted"
        PROVE  phase'[byReference[r].key] \in {"accepting", "accepted"}
    <3>1. phase[byReference[r].key] \in {"accepting", "accepted"} /\ byReference[r].key \in Keys
      BY <1>1, <2>1 DEF Lives, Accepted, Document
    <3> QED
      BY <1>3, <3>1
  <2>2. \A l \in Keys : phase'[l] = "accepted" => byReference[held[l]].status = "accepted"
    BY <1>3 DEF Lives, Accepted
  <2> QED
    BY <1>2, <2>1, <2>2 DEF Accepted
<1> QED
  BY <1>5, <1>6

LEMMA AcceptLives ==
  ASSUME ActivityTypeOK, Holding, Lives, NEW k \in Keys, AcceptAttempt(k)
  PROVE  (Memoized /\ Accepted)'
<1>1. /\ phase \in [Keys -> Phases] /\ held \in [Keys -> References \cup {None}]
      /\ byReference \in [References -> Document \cup {None}]
  BY DEF ActivityTypeOK, TypeOK
<1>2. phase[k] = "accepting"
  BY DEF AcceptAttempt, AcceptDue
<1>3. /\ held[k] \in References /\ byReference[held[k]] \in Document
      /\ byReference[held[k]].key = k
  BY <1>2, HeldDocument
<1>4. /\ UNCHANGED <<memo, handed>>
      /\ byReference' = [byReference EXCEPT ![held[k]] =
                           [byReference[held[k]] EXCEPT !.status = "accepted"]]
  BY DEF AcceptAttempt, Accept, Transition
<1>5. [byReference[held[k]] EXCEPT !.status = "accepted"].key = k
      /\ [byReference[held[k]] EXCEPT !.status = "accepted"].status = "accepted"
  BY <1>3 DEF Document
<1>6. /\ byReference'[held[k]].key = k /\ byReference'[held[k]].status = "accepted"
      /\ \A r \in References \ {held[k]} : byReference'[r] = byReference[r]
  BY <1>1, <1>3, <1>4, <1>5
<1>7. /\ held' = held
      /\ phase'[k] \in {"accepting", "accepted"}
      /\ \A l \in Keys \ {k} : phase'[l] = phase[l]
  <2>1. CASE Lose
    BY <1>2, <2>1 DEF Lose, workflow
  <2>2. CASE ~Lose
    <3>1. held' = held /\ phase' = [phase EXCEPT ![k] = "accepted"]
      BY <2>2 DEF AcceptAttempt, Complete
    <3> QED
      BY <1>1, <3>1
  <2> QED
    BY <2>1, <2>2
<1>8. \A l \in Keys : phase'[l] # "issuing" => phase[l] # "issuing"
  BY <1>2, <1>7
<1>9. Memoized'
  BY <1>4, <1>7, <1>8 DEF Lives, Memoized
<1>10. Accepted'
  <2>1. ASSUME NEW r \in References, byReference'[r] # None, byReference'[r].status = "accepted"
        PROVE  phase'[byReference'[r].key] \in {"accepting", "accepted"}
    <3>1. CASE r = held[k]
      BY <1>6, <1>7, <3>1
    <3>2. CASE r # held[k]
      <4>1. byReference'[r] = byReference[r]
        BY <1>6, <3>2
      <4>2. phase[byReference[r].key] \in {"accepting", "accepted"} /\ byReference[r].key \in Keys
        BY <1>1, <2>1, <4>1 DEF Lives, Accepted, Document
      <4> QED
        BY <1>7, <4>1, <4>2
    <3> QED
      BY <3>1, <3>2
  <2>2. ASSUME NEW l \in Keys, phase'[l] = "accepted"
        PROVE  byReference'[held[l]].status = "accepted"
    <3>1. CASE held[l] = held[k]
      BY <1>6, <3>1
    <3>2. CASE held[l] # held[k]
      <4>1. phase[l] = "accepted"
        BY <1>7, <2>2, <3>2
      <4>2. byReference[held[l]].status = "accepted" /\ held[l] \in References
        BY <4>1, HeldDocument DEF Lives, Accepted
      <4> QED
        BY <1>6, <3>2, <4>2
    <3> QED
      BY <3>1, <3>2
  <2> QED
    BY <1>7, <2>1, <2>2 DEF Accepted
<1> QED
  BY <1>9, <1>10

\* As long as the worker lives, registry and Cases agree.
LEMMA LifeInvariance == ASSUME DistinctPrefixes PROVE ActivitySpec => []LifeInv
<1>1. ActivityInit => (restarts = 0 => Lives)
  <2> SUFFICES ASSUME ActivityInit PROVE Lives
    OBVIOUS
  <2>1. RegistryInv
    BY RegistryInit DEF ActivityInit
  <2>2. \A r \in References : Told(r)
    BY DEF ActivityInit, Init, Told, About
  <2>3. Memoized /\ Accepted
    BY DEF ActivityInit, Init, Memoized, Accepted
  <2> QED
    BY <2>1, <2>2, <2>3 DEF Lives
<1>2. ASSUME ActivityTypeOK, Holding, restarts = 0 => Lives, [ActivityNext]_activityVars
      PROVE  (restarts = 0 => Lives)'
  <2>1. ASSUME NEW k \in Keys, Step(k), restarts' = 0
        PROVE  Lives'
    <3>1. Lives
      BY <1>2, <2>1, ServiceSteps
    <3>2. (Memoized /\ Accepted)'
      BY <1>2, <2>1, <3>1, IssueLives, DecideLives, AcceptLives DEF Step
    <3> QED
      BY <1>2, <2>1, <3>1, <3>2, RegistryLives DEF Lives
  <2>2. WorkerRestart => restarts' # 0
    BY <1>2 DEF WorkerRestart, ActivityTypeOK
  <2>3. ASSUME UNCHANGED activityVars, restarts' = 0
        PROVE  Lives'
    <3>1. Lives /\ UNCHANGED service
      BY <1>2, <2>3 DEF activityVars
    <3>2. RegistryInv' /\ \A r \in References : Told(r)'
      BY <3>1, RegistryInvStep, ToldStep DEF Lives
    <3>3. (Memoized /\ Accepted)'
      BY <2>3, <3>1 DEF activityVars, service, workflow, Lives, Memoized, Accepted
    <3> QED
      BY <3>2, <3>3 DEF Lives
  <2> QED
    BY <1>2, <2>1, <2>2, <2>3 DEF ActivityNext, Step
<1> QED
  BY <1>1, <1>2, ActivityInvariance, PTL DEF ActivitySpec, LifeInv

\* A number of the registry's trail opens one Document, so step k was issued once.
LEMMA OnceIssued ==
  ASSUME ActivityTypeOK, Lives, NEW k \in Keys, memo[k] # None
  PROVE  IssuedOnce(k)
<1>1. TypeOK /\ memo[k] \in References
  BY DEF ActivityTypeOK, TypeOK
<1>2. byReference[memo[k]] # None /\ byReference[memo[k]].key = k
  BY DEF Lives, RegistryInv, RegistersAgree
<1>3. PICK i \in About(memo[k]) : TellsLife(memo[k], byReference[memo[k]], i)
  BY <1>1, <1>2 DEF Lives, Told
<1>4. \A j \in DOMAIN audit : audit[j] \in AuditEvent /\ j \in Nat
  BY <1>1 DEF TypeOK
\* The one issue event of a Document is the second of its life.
<1>5. ASSUME NEW r \in References, NEW d \in Document, NEW n \in About(r), TellsLife(r, d, n)
      PROVE  /\ n + 1 \in DOMAIN audit /\ audit[n + 1].key = d.key
             /\ audit[n + 1].type = "document.issued"
             /\ \A j \in About(r) :
                  audit[j].key = d.key /\ (audit[j].type = "document.issued" => j = n + 1)
  <2>1. n \in Nat /\ n..(n + 2) \subseteq About(r)
    BY <1>4, <1>5 DEF About, TellsLife
  <2>2. /\ audit[n] = Audit("document.allocated", d.key, r)
        /\ audit[n + 1] = Audit("document.issued", d.key, r)
        /\ audit[n + 2] = Audit("document.delivered", d.key, r)
    <3>1. \A m \in 1..3 : audit[n + m - 1] = Audit(Opening[m], d.key, r)
      BY <1>5 DEF TellsLife
    <3>2. 1 \in 1..3 /\ 2 \in 1..3 /\ 3 \in 1..3 /\ n + 1 - 1 = n /\ n + 2 - 1 = n + 1
          /\ n + 3 - 1 = n + 2
      BY <2>1
    <3>3. /\ Opening[1] = "document.allocated" /\ Opening[2] = "document.issued"
          /\ Opening[3] = "document.delivered"
      BY DEF Opening
    <3> HIDE DEF Opening
    <3> QED
      BY <3>1, <3>2, <3>3
  <2>3. n + 1 \in DOMAIN audit
    <3>1. n + 1 \in n..(n + 2)
      BY <2>1
    <3> QED
      BY <2>1, <3>1 DEF About
  <2>4. ASSUME NEW j \in About(r)
        PROVE  \/ j \in n..(n + 2)
               \/ /\ d.status \in DOMAIN Closing
                  /\ audit[j] = Audit(Closing[d.status], d.key, r)
    <3>1. CASE d.status = "issued"
      BY <1>5, <3>1 DEF TellsLife
    <3>2. CASE d.status # "issued"
      <4>1. d.status \in DOMAIN Closing
        BY <3>2 DEF Closing, Document, Statuses
      <4>2. PICK l \in About(r) :
              /\ audit[l] = Audit(Closing[d.status], d.key, r)
              /\ About(r) = n..(n + 2) \cup {l}
        BY <1>5, <3>2 DEF TellsLife
      <4> QED
        BY <4>1, <4>2
    <3> QED
      BY <3>1, <3>2
  <2>5. \A s \in DOMAIN Closing : Closing[s] # "document.issued"
    BY DEF Closing
  <2>6. ASSUME NEW j \in About(r)
        PROVE  audit[j].key = d.key /\ (audit[j].type = "document.issued" => j = n + 1)
    <3>1. CASE j \in n..(n + 2)
      <4>1. j = n \/ j = n + 1 \/ j = n + 2
        BY <2>1, <3>1
      <4> QED
        BY <2>2, <4>1 DEF Audit
    <3>2. CASE j \notin n..(n + 2)
      BY <2>4, <2>5, <3>2 DEF Audit
    <3> QED
      BY <3>1, <3>2
  <2> QED
    BY <2>2, <2>3, <2>6 DEF Audit
<1>6. byReference[memo[k]] \in Document
  BY <1>1, <1>2 DEF TypeOK
<1>7. ASSUME NEW j \in DOMAIN audit, audit[j].key = k, audit[j].type = "document.issued"
      PROVE  j = i + 1
  <2>1. audit[j].ref \in References /\ j \in About(audit[j].ref)
    BY <1>4 DEF AuditEvent, About
  <2>2. byReference[audit[j].ref] # None
    BY <2>1 DEF Lives, Told
  <2>3. byReference[audit[j].ref] \in Document
    BY <1>1, <2>1, <2>2 DEF TypeOK
  <2>4. PICK n \in About(audit[j].ref) : TellsLife(audit[j].ref, byReference[audit[j].ref], n)
    BY <2>1, <2>2 DEF Lives, Told
  <2>5. byReference[audit[j].ref].key = k
    BY <1>5, <1>7, <2>1, <2>3, <2>4
  <2>6. audit[j].ref = memo[k]
    BY <2>1, <2>2, <2>5 DEF Lives, RegistryInv, RegistersAgree
  <2> QED
    BY <1>1, <1>3, <1>5, <1>6, <1>7, <2>1, <2>6
<1>8. i + 1 \in DOMAIN audit /\ audit[i + 1].key = k /\ audit[i + 1].type = "document.issued"
  BY <1>1, <1>2, <1>3, <1>5, <1>6
<1> QED
  BY <1>7, <1>8 DEF IssuedOnce

\* Whatever is lost and retried while the worker lives, each Case's step has one
\* reference, under which the registry has its Document, issued once.
THEOREM OneReferencePerStep == ASSUME DistinctPrefixes PROVE ActivitySpec => []ReferencesHeld
<1>1. LifeInv => ReferencesHeld
  <2> SUFFICES ASSUME LifeInv, restarts = 0
               PROVE  /\ \A k \in Keys :
                           phase[k] # "issuing" =>
                             /\ held[k] = memo[k]
                             /\ byReference[held[k]] # None /\ byReference[held[k]].key = k
                             /\ IssuedOnce(k)
                      /\ \A c, d \in handed : c.key = d.key => c.hash.ref = d.hash.ref
    BY DEF ReferencesHeld
  <2>1. ActivityTypeOK /\ Lives
    BY DEF LifeInv
  <2>2. \A k \in Keys : phase[k] # "issuing" => memo[k] # None
    BY <2>1 DEF Lives, Memoized
  <2>3. \A c, d \in handed : c.key = d.key => c.hash.ref = d.hash.ref
    BY <2>1 DEF Lives, Memoized
  <2> QED
    BY <2>1, <2>2, <2>3, HeldDocument, OnceIssued
<1> QED
  BY <1>1, LifeInvariance, PTL

\* While the worker lives, a Document is accepted in the registry only on its own
\* holder's word, and in the Case only once it is in the registry.
THEOREM AcceptedByHolder == ASSUME DistinctPrefixes PROVE ActivitySpec => []AcceptancesAgree
<1>1. LifeInv => AcceptancesAgree
  BY DEF LifeInv, Lives, Accepted, AcceptancesAgree
<1> QED
  BY <1>1, LifeInvariance, PTL
=============================================================================
