----------------------------- MODULE MCAioChannel -----------------------------
(* w1 writes two segments, the others one.                                 *)
EXTENDS AioChannel

CONSTANTS w1, w2, w3

MCWriters == {w1, w2, w3}
MCSegments == [w \in MCWriters |-> IF w = w1 THEN 2 ELSE 1]
==============================================================================
