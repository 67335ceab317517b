----------------------------- MODULE MCBackendKey -----------------------------
(* A finite instance of BackendKey: columns that name the backend, and       *)
(* columns that reach it by address.                                         *)
EXTENDS BackendKey, TLC

Symmetry == Permutations(Procs) \cup Permutations(Addresses) \cup Permutations(Submitted)
===============================================================================
