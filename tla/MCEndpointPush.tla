---------------------------- MODULE MCEndpointPush ----------------------------
(* A finite instance of EndpointPush.                                        *)
EXTENDS EndpointPush, TLC

Symmetry == Permutations(Procs) \cup Permutations(Ids) \cup Permutations(Addresses)
            \cup Permutations(Creds)
================================================================================
