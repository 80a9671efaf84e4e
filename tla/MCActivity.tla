----------------------------- MODULE MCActivity -----------------------------
(* Workers and Cases for model checking IssuanceActivity.                    *)
EXTENDS IssuanceActivity, TLC

CONSTANTS k1, k2, k3, c1, c2

\* Two offers of one register, a certificate of another.
MCContractOf == (k1 :> c1) @@ (k2 :> c1) @@ (k3 :> c2)
MCPrefixOf   == (c1 :> "OFFER-") @@ (c2 :> "PERMIT-")
MCStartsAt   == (c1 :> 1) @@ (c2 :> 1)
MCPayloadOf  == (k1 :> 0) @@ (k2 :> 1) @@ (k3 :> 0)
=============================================================================
