----------------------------- MODULE MCStateCache -----------------------------
(***************************************************************************)
(* Instances of StateCache for TLC.                                        *)
(***************************************************************************)
EXTENDS StateCache, TLC

\* Every reader has a thread of its own, named after it: the readers of a
\* daemon with a busy context each.
MCOwnThread == [r \in Readers |-> r]

\* Every reader is on the thread of the same context.
MCSameThread == [r \in Readers |-> "grpc"]

MCSymmetry == Permutations(Readers)

\* With two accounts, which nothing tells apart either.
MCKeySymmetry == Permutations(Readers) \cup Permutations(AccountKeys)

=============================================================================
