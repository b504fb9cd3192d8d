--------------------------- MODULE MCTriageSystem ---------------------------
(* TriageSystem with its keys hashed to partitions. *)
EXTENDS TriageSystem, TLC

\* Every ticket in partition 1.
OnePartition == [t \in Tickets |-> 1]

CONSTANT t1

\* t1 in partition 1, every other ticket in partition 2.
TwoPartitions == [t \in Tickets |-> IF t = t1 THEN 1 ELSE 2]
\* Nothing tells the instances, or the reviewers, apart.
Symmetry == Permutations(Workers) \cup Permutations(Reviewers)
=============================================================================
