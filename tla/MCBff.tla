------------------------------- MODULE MCBff -------------------------------
(* Clients, records and Cases for model checking EntityStore and Bff.        *)
EXTENDS Bff

\* What one client does to a record, the other one reads.
TwoClients == {"reader", "writer"}
=============================================================================
