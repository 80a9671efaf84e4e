------------------------------ MODULE Issuance ------------------------------
(***************************************************************************)
(* The Document registry (packages/issuance/src): reference numbers drawn  *)
(* from allocation contracts, Documents issued once per (case, step),      *)
(* lifecycle transitions, the audit trail and the public verification      *)
(* endpoint.  The service is synchronous, so each call is one action; a    *)
(* call may still stop half way, when rendering throws after the number    *)
(* was allocated.                                                          *)
(***************************************************************************)
EXTENDS Integers, Sequences, FiniteSets

CONSTANTS
  Keys,        \* (caseId, stepId) pairs
  Contracts,   \* ids of number-allocation contracts
  Prefixes,    \* reference prefixes
  Payloads,    \* what a Document says
  None,        \* `undefined'
  ContractOf,  \* the contract a step declares
  PrefixOf,    \* the prefix of a contract
  StartsAt,    \* the first number of a contract
  Claims,      \* what callers of issue() give as `supersedes' themselves
  MaxNumber    \* bound: no number above it is handed out

Numbers    == 0..MaxNumber
References == [prefix: Prefixes, value: Numbers]
Allocation == [contract: Contracts, value: Numbers]
Statuses   == {"issued", "superseded", "revoked", "accepted"}
Document   == [key: Keys, contract: Contracts, payload: Payloads,
               status: Statuses, supersedes: References \cup {None}]

\* A verification hash stands for what it digests: the snapshot, which includes
\* the reference number, and the template.
Hash == [payload: Payloads, ref: References]

AuditTypes == {"document.allocated", "document.issued", "document.delivered",
               "document.superseded", "document.revoked", "document.accepted"}
AuditEvent == [type: AuditTypes, key: Keys, ref: References]

ASSUME IssuanceAssumption ==
  /\ MaxNumber \in Nat
  /\ ContractOf \in [Keys -> Contracts]
  /\ PrefixOf \in [Contracts -> Prefixes]
  /\ StartsAt \in [Contracts -> Numbers]
  /\ None \notin Allocation \cup References \cup Document \cup Hash
  /\ None \in Claims /\ Claims \subseteq References \cup {None}

VARIABLES
  next,         \* NumberAllocator.next
  allocated,    \* NumberAllocator.memo
  voids,        \* NumberAllocator.voids
  byReference,  \* the registry
  memo,         \* IssuanceService.memo: the reference issued per key
  audit,        \* the audit trail
  handed,       \* history: the hash of every Document handed out, with its key
  claimed       \* history: the references issued with a `supersedes' of the caller's

service == <<next, allocated, voids, byReference, memo, audit, handed, claimed>>

TypeOK ==
  /\ next \in [Contracts -> 0..(MaxNumber + 1)]
  /\ allocated \in [Keys -> Allocation \cup {None}]
  /\ voids \subseteq Allocation
  /\ byReference \in [References -> Document \cup {None}]
  /\ memo \in [Keys -> References \cup {None}]
  /\ audit \in Seq(AuditEvent)
  /\ handed \subseteq [key: Keys, hash: Hash]
  /\ claimed \subseteq References

-----------------------------------------------------------------------------

ReferenceOf(a) == [prefix |-> PrefixOf[a.contract], value |-> a.value]

\* The allocation of key k: the memoized one, or the contract's next number.
AllocationAnew(k) ==    \* mutant: the allocator does not remember
  [contract |-> ContractOf[k], value |-> next[ContractOf[k]]]

AllocationFor(k) ==
  IF allocated[k] # None THEN allocated[k]
  ELSE [contract |-> ContractOf[k], value |-> next[ContractOf[k]]]

\* A number is left for k, within the bound.
Fits(k) == allocated[k] # None \/ next[ContractOf[k]] <= MaxNumber

AllocateStuck(k) ==     \* mutant: the counter is not advanced
  /\ allocated' = [allocated EXCEPT ![k] = AllocationFor(k)]
  /\ UNCHANGED next

Allocate(k) ==
  /\ allocated' = [allocated EXCEPT ![k] = AllocationFor(k)]
  /\ next' = IF allocated[k] # None THEN next
             ELSE [next EXCEPT ![ContractOf[k]] = @ + 1]

IssuedForgets(k) == FALSE   \* mutant: issue() does not ask the memo

Issued(k) == memo[k] # None

NewDocument(k, p, prior) ==
  [key |-> k, contract |-> ContractOf[k], payload |-> p, status |-> "issued",
   supersedes |-> prior]

HashUnnumbered(p, r) == [payload |-> p]  \* mutant: the number is not digested

HashOf(p, r) == [payload |-> p, ref |-> r]
Audit(t, k, r) == [type |-> t, key |-> k, ref |-> r]
IssueTrail(k, r) == <<Audit("document.allocated", k, r),
                      Audit("document.issued", k, r),
                      Audit("document.delivered", k, r)>>

MayTransitionAlways(r) == byReference[r] # None  \* mutant: requireIssued is lost

\* requireDocument and requireIssued.
MayTransition(r) == byReference[r] # None /\ byReference[r].status = "issued"

-----------------------------------------------------------------------------
(* The service's calls.  issue() of an issued key returns the Document and *)
(* changes nothing.                                                        *)

\* The caller's own `supersedes' is stored as it is: nobody looks whether there is
\* such a Document, and it is not marked.
Issue(k, p, prior) ==
  /\ ~Issued(k) /\ Fits(k)
  /\ Allocate(k)
  /\ LET r == ReferenceOf(AllocationFor(k))
     IN /\ byReference' = [byReference EXCEPT ![r] = NewDocument(k, p, prior)]
        /\ claimed' = IF prior = None THEN claimed ELSE claimed \cup {r}
        /\ memo' = [memo EXCEPT ![k] = r]
        /\ audit' = audit \o IssueTrail(k, r)
        /\ handed' = handed \cup {[key |-> k, hash |-> HashOf(p, r)]}
  /\ UNCHANGED voids

\* issue() or supersede() throws in render(): the number stays allocated.
RenderFails(k) ==
  /\ ~Issued(k) /\ Fits(k)
  /\ Allocate(k)
  /\ UNCHANGED <<voids, byReference, memo, audit, handed, claimed>>

\* supersede() of r by a new Document for key k.  The prior is written last, from
\* the copy read before the replacement was issued.
Supersede(r, k, p) ==
  /\ MayTransition(r)
  /\ ~Issued(k) /\ Fits(k)
  /\ Allocate(k)
  /\ LET new   == ReferenceOf(AllocationFor(k))
         prior == [byReference[r] EXCEPT !.status = "superseded"]
     IN /\ byReference' = [byReference EXCEPT ![new] = NewDocument(k, p, r),
                                              ![r] = prior]
        /\ memo' = [memo EXCEPT ![k] = new]
        /\ audit' = audit \o Append(IssueTrail(k, new),
                                    Audit("document.superseded", prior.key, r))
        /\ handed' = handed \cup {[key |-> k, hash |-> HashOf(p, new)]}
  /\ UNCHANGED <<voids, claimed>>

Transition(r, status, event) ==
  /\ MayTransition(r)
  /\ byReference' = [byReference EXCEPT ![r].status = status]
  /\ audit' = Append(audit, Audit(event, byReference[r].key, r))
  /\ UNCHANGED <<next, allocated, voids, memo, handed, claimed>>

\* supersede() of r with a replacement whose key was issued before: issue()
\* replays that Document, and r is marked all the same, with no successor.
SupersedeReplayed(r, k) ==
  /\ Issued(k)
  /\ Transition(r, "superseded", "document.superseded")

Revoke(r) == Transition(r, "revoked", "document.revoked")
Accept(r) == Transition(r, "accepted", "document.accepted")

VoidNext(c) ==
  /\ next[c] <= MaxNumber
  /\ voids' = voids \cup {[contract |-> c, value |-> next[c]]}
  /\ next' = [next EXCEPT ![c] = @ + 1]
  /\ UNCHANGED <<allocated, byReference, memo, audit, handed, claimed>>

\* The verification endpoint's status for a reference and a presented hash; a call
\* that presents none asks only whether there is such a Document.
Verify(r, h) ==
  IF byReference[r] = None THEN 404
  ELSE IF h \in {None, HashOf(byReference[r].payload, r)} THEN 200
  ELSE 409

-----------------------------------------------------------------------------

Init ==
  /\ next = StartsAt
  /\ allocated = [k \in Keys |-> None]
  /\ voids = {}
  /\ byReference = [r \in References |-> None]
  /\ memo = [k \in Keys |-> None]
  /\ audit = <<>>
  /\ handed = {} /\ claimed = {}

Next ==
  \/ \E k \in Keys : RenderFails(k)
  \/ \E k \in Keys, p \in Payloads, prior \in Claims : Issue(k, p, prior)
  \/ \E r \in References, k \in Keys :
       \/ SupersedeReplayed(r, k)
       \/ \E p \in Payloads : Supersede(r, k, p)
  \/ \E r \in References : Revoke(r) \/ Accept(r)
  \/ \E c \in Contracts : VoidNext(c)

Spec == Init /\ [][Next]_service

-----------------------------------------------------------------------------
(* Properties.  All but NumbersAccounted need contracts with prefixes of   *)
(* their own.                                                              *)

DistinctPrefixes == \A c, d \in Contracts : PrefixOf[c] = PrefixOf[d] => c = d

\* Every number of a contract's register that was drawn is in exactly one place,
\* one key's allocation or the void ledger, through failed renders, repeated
\* calls and voids: none is lost and none is given out twice.
NumbersAccounted ==
  /\ \A a \in Allocation :
       (StartsAt[a.contract] <= a.value /\ a.value < next[a.contract])
       <=> (a \in voids \/ \E k \in Keys : allocated[k] = a)
  /\ \A k \in Keys :
       /\ allocated[k] \notin voids
       /\ \A l \in Keys : allocated[k] = allocated[l] /\ allocated[k] # None => k = l

\* The registry, its memo and the allocator tell the same story: a reference
\* number names one Document, of the key it was allocated to.
RegistersAgree ==
  /\ \A k \in Keys :
       memo[k] # None =>
         /\ allocated[k] # None /\ memo[k] = ReferenceOf(allocated[k])
         /\ byReference[memo[k]] # None /\ byReference[memo[k]].key = k
  /\ \A r \in References :
       byReference[r] # None => memo[byReference[r].key] = r

Opening == <<"document.allocated", "document.issued", "document.delivered">>
Closing == [superseded |-> "document.superseded", revoked |-> "document.revoked",
            accepted |-> "document.accepted"]

About(r) == {i \in DOMAIN audit : audit[i].ref = r}

\* Entry i of the audit trail opens the life of Document d under reference r, and
\* all that is said of r is this and, once d is no longer `issued', how it ended.
TellsLife(r, d, i) ==
  /\ i..(i + 2) \subseteq About(r)
  /\ \A n \in 1..3 : audit[i + n - 1] = Audit(Opening[n], d.key, r)
  /\ IF d.status = "issued" THEN About(r) = i..(i + 2)
     ELSE \E j \in About(r) :
            /\ j > i + 2 /\ audit[j] = Audit(Closing[d.status], d.key, r)
            /\ About(r) = i..(i + 2) \cup {j}

\* The audit trail alone determines the registry: a Document was allocated, issued
\* and delivered once, in that order and at one go, and left `issued' at most once
\* and for good.
AuditTellsRegistry ==
  \A r \in References :
    IF byReference[r] = None THEN About(r) = {}
    ELSE \E i \in About(r) : TellsLife(r, byReference[r], i)

\* "The endpoint confirms authenticity" (docs/architecture/04-flow-and-case-layer.md:526):
\* whatever happens to the registry later, a reference verifies with exactly the
\* hash that was handed out for it, and without a hash if one was handed out.  Every
\* genuine copy stays genuine, a copy with another payload never becomes so.
GenuineVerifies ==
  \A r \in References :
    /\ \A p \in Payloads :
         Verify(r, HashOf(p, r)) = 200 <=> \E c \in handed : c.hash = HashOf(p, r)
    /\ Verify(r, None) = 200 <=> \E c \in handed : c.hash.ref = r

\* The versions that supersede() makes form chains: a Document supersedes a superseded
\* one, which supersede() replaced by no other.  A `supersedes' that the caller of
\* issue() gave is not held to this (types.ts:87, issuance.ts:75): it is not checked.
VersionsChain ==
  \A r, q \in References \ claimed :
    LET d == byReference[r]
    IN d # None /\ d.supersedes # None =>
         /\ byReference[d.supersedes] # None
         /\ byReference[d.supersedes].status = "superseded"
         /\ byReference[q] # None /\ byReference[q].supersedes = d.supersedes => q = r
=============================================================================
