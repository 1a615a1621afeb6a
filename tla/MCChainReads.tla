---------------------------- MODULE MCChainReads ----------------------------
EXTENDS ChainReads, TLC

CONSTANTS g, a1, a2, b1, t1, t2, s1, s2

\* Two forks: a1 and a2 with one transaction each, b1 with both.
MCParent == a1 :> g @@ a2 :> a1 @@ b1 :> g
MCTransactions == g :> <<>> @@ a1 :> <<t1>> @@ a2 :> <<t2>> @@ b1 :> <<t2, t1>>
MCSender == t1 :> s1 @@ t2 :> s2

Symmetry == Permutations(Readers)
=============================================================================
