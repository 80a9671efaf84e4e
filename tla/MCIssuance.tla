----------------------------- MODULE MCIssuance -----------------------------
(* Registers for model checking Issuance.                                    *)
EXTENDS Issuance, TLC

CONSTANTS k1, k2, k3, c1, c2, p1, p2

\* Two keys share a register, one has its own, which starts above zero.
MCContractOf == (k1 :> c1) @@ (k2 :> c1) @@ (k3 :> c2)
MCPrefixOf   == (c1 :> "P") @@ (c2 :> "Q")
MCStartsAt   == (c1 :> 0) @@ (c2 :> 1)

\* Nothing tells the payloads apart, nor the two keys of the shared register.
MCSymmetry == Permutations({p1, p2}) \cup Permutations({k1, k2})

\* One reference that is issued early, or never.
MCClaims == {None, [prefix |-> "P", value |-> 0]}
=============================================================================
