--------------------------- MODULE MCCredentials ----------------------------
(* A secret with a config or with a connection, and two mishaps.           *)
EXTENDS Credentials

Pairs == {[a |-> "secretRef", b |-> k] : k \in {"configSource", "connection"}}
=============================================================================
