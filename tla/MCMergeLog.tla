------------------------------ MODULE MCMergeLog ------------------------------
(* The operands of the run: counters around the wrap, and documents with   *)
(* and without the stamp of a dual-active cluster and the deleteMark.      *)
EXTENDS MergeLog

Dual(t) == [dual |-> TRUE, t |-> t]

MCCounters == {Num(n) : n \in {1, 3, 7}}
MCDocs == {Doc(v, s, d) : v \in {1, 2}, s \in {Missing, Dual(1), Dual(2)}, d \in BOOLEAN}

MCOperands == [other |-> MCCounters, json |-> MCDocs]
==============================================================================
