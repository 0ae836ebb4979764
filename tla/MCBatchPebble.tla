---------------------------- MODULE MCBatchPebble ----------------------------
(* Three callers, two of them with the same key, one of low priority.      *)
EXTENDS BatchPebble, TLC

CONSTANTS c1, c2, c3, k1, k2

MCCallers == {c1, c2, c3}
MCKeys == {k1, k2}
MCKeyOf == (c1 :> k1) @@ (c2 :> k1) @@ (c3 :> k2)
MCLowPriority == {c1}
MCNoGet == {c3}
==============================================================================
