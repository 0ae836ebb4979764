---------------------------- MODULE MCSpaceBitmap ----------------------------
(* Extents of thirteen blocks in three spaces of six: inside a byte and    *)
(* from byte to byte of the first space, so that a release of one meets an *)
(* update of the other in a batch; across the end of a space, a whole      *)
(* space, three spaces, the last block.                                    *)
EXTENDS SpaceBitmap

Extent(block, blocks) == [Offset |-> block * BlockSize, Size |-> blocks * BlockSize]

MCExtents == {Extent(1, 2), Extent(3, 3), Extent(5, 2), Extent(6, 6), Extent(5, 8), Extent(12, 1)}
==============================================================================
