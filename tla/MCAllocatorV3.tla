---------------------------- MODULE MCAllocatorV3 ----------------------------
(* Small instances of AllocatorV3 for TLC. *)
EXTENDS AllocatorV3

\* Requests: not positive, small, larger than a slotset, larger than the device.
MCWants == {0, 1, 2, 5, Total + 1}

\* Extents of one and three blocks at every position, out-of-range and empty
\* ones, and pairs that touch, overlap or repeat each other.
MCExtentLists ==
    {<<Extent(o, n)>> : o \in 0 .. Total - 1, n \in {1, 3}}
        \cup {<<Extent(-1, 1)>>, <<Extent(1, 0)>>, <<>>}
        \cup {<<Extent(o, 1), Extent(o + d, 2)>> : o \in {0, 3}, d \in 0 .. 2}
==============================================================================
