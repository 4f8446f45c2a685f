----------------------------- MODULE MCSandboxManager -----------------------------
(* SandboxManager for TLC. *)
EXTENDS SandboxManager, TLC

Symmetry == Permutations(Clients)
==================================================================================
