----------------------------- MODULE MCGateway ------------------------------
(* Small instances of Gateway for TLC. *)
EXTENDS GatewayInvariant, TLC

TaskSymmetry == Permutations(Conns) \cup Permutations(Reqs)
SafetySymmetry == TaskSymmetry \cup Permutations(Sessions)
=============================================================================
