-------------------------- MODULE MCClusterBinding --------------------------
EXTENDS ClusterBinding, TLC

\* Bound: so many tracking rows are edited at once, next to other transactions.
MaxEdits == 1
Bounded == Cardinality({x \in Txs : tx[x].kind = "track"}) <= MaxEdits

AnyNames == Permutations(Endpoints) \cup Permutations(Cores) \cup Permutations(Tracks)
            \cup Permutations(Names) \cup Permutations(Txs)
=============================================================================
