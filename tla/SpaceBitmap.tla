----------------------------- MODULE SpaceBitmap -----------------------------
(***************************************************************************)
(* The persistent space bitmap of a block device (internal/fs/             *)
(* block_device.go): one Pebble key per space of BlocksPerSpace blocks,    *)
(* zeroed by tryInitBlockSpace in batches, updated by merges of the deltas *)
(* spaceUpdateValues computes (PersistAllocBatch) or by read-modify-write  *)
(* (Release), and turned into the allocator's free blocks by loadAllocator *)
(* when the device is opened.                                              *)
(*                                                                         *)
(* Updates are staged by the consumers of a group commit: several requests *)
(* write one batch, which is committed or dropped as a whole (BatchPebble).*)
(* Release reads the database, not the batch, and frees the blocks in      *)
(* memory before the commit.  The process may crash at any step; Pebble    *)
(* compacts when it likes.  Offsets and sizes are in bytes, as in the      *)
(* code, with BlockSize, ByteBits and SpaceLen small.                      *)
(***************************************************************************)
EXTENDS MossMerger, FiniteSets

CONSTANTS
    TotalBlocks,  \* blocks of the device
    BlockSize,    \* bytes of a block
    ByteBits,     \* bits of a bitmap byte, 8 in the code
    SpaceLen,     \* bytes of a bitmap value, 512 in the code
    InitKeys,     \* keys zeroed per batch, 1000 in the code
    Extents,      \* [Offset, Size] in bytes that are allocated and released
    MaxUpdates    \* bound on the number of updates

BlocksPerSpace == ByteBits * SpaceLen
SpaceSize == BlocksPerSpace * BlockSize
AllBits == 0 .. BlocksPerSpace - 1

\* The values of a space key: a bitmap, or a delta.
SpaceValues == {Space(bits) : bits \in SUBSET AllBits}
                 \cup {Delta(lo, hi) : lo, hi \in SUBSET AllBits}

ASSUME SpaceAssumption ==
    /\ {TotalBlocks, BlockSize, ByteBits, SpaceLen, InitKeys} \subseteq Nat \ {0}
    /\ \A e \in Extents : /\ e.Offset \in Nat /\ e.Offset % BlockSize = 0
                          /\ e.Size \in Nat \ {0}
    /\ NoValue \notin SpaceValues

Blocks == 0 .. TotalBlocks - 1

spaceKeyCount == (TotalBlocks * BlockSize + SpaceSize - 1) \div SpaceSize
SpaceKeys == 0 .. spaceKeyCount - 1

VARIABLES
    store,    \* space key -> its records in Pebble, oldest first
    phase,    \* "closed", "init", "load", "open", "failed"
    initFrom, \* next key tryInitBlockSpace zeroes
    memory,   \* blocks the in-memory allocator has as allocated
    staged,   \* space key -> its records once the batch is committed
    taken,    \* blocks of the allocations in the batch
    freed,    \* blocks of the releases in the batch
    updates   \* number of updates so far

\* History: no guard of the code's steps depends on these, but that a block
\* is released by who owns it.
VARIABLES
    owned,       \* blocks allocated and not released, by committed batches
    overwritten, \* blocks whose update a later Release of the batch overwrote
    lost,        \* blocks whose last committed update was overwritten
    astray       \* blocks that memory may have wrong since the device was opened

batchVars == <<staged, taken, freed, overwritten>>
vars == <<store, phase, initFrom, memory, batchVars, updates, owned, lost, astray>>

----------------------------------------------------------------------------
(* spaceUpdateValues                                                       *)

Bit(byte, bit) == byte * ByteBits + bit

\* The bits simpleSpaceUpdateValue marks, from bit bitStart of byte markStart
\* up to, not including, bit bitEnd of byte markEnd.
Marks(markStart, markEnd, bitStart, bitEnd) ==
    IF markEnd = markStart
    THEN {Bit(markStart, i) : i \in bitStart .. bitEnd - 1}
    ELSE {Bit(markStart, j) : j \in bitStart .. ByteBits - 1}
           \cup {Bit(i, j) : i \in markStart + 1 .. markEnd - 1, j \in 0 .. ByteBits - 1}
           \cup {Bit(markEnd, j) : j \in 0 .. bitEnd - 1}

simpleSpaceUpdateValue(markStart, markEnd, bitStart, bitEnd, allocated) ==
    LET marks == Marks(markStart, markEnd, bitStart, bitEnd)
    IN IF allocated THEN Delta(marks, AllBits) ELSE Delta({}, AllBits \ marks)

\* One delta for each key from offset \div SpaceSize on.
spaceUpdateValues(offset, size, allocated) ==
    LET keyStart == offset \div SpaceSize
        end == offset + size
        keyOffset == (end \div SpaceSize) - (IF end % SpaceSize = 0 THEN 1 ELSE 0)
        markStart == ((offset - keyStart * SpaceSize) \div BlockSize) \div ByteBits
        bitStart == ((offset - keyStart * SpaceSize) \div BlockSize) % ByteBits
        endBlock == (end - keyOffset * SpaceSize) \div BlockSize
        bit == (endBlock % ByteBits) + (IF size % BlockSize > 0 THEN 1 ELSE 0)
        byte == endBlock \div ByteBits
        keyEnd == keyOffset - (IF bit = 0 /\ byte = 0 THEN 1 ELSE 0)
        markEnd == IF bit = 0 THEN byte - 1 ELSE byte
        bitEnd == IF bit = 0 THEN ByteBits ELSE bit
    IN [i \in 1 .. keyEnd - keyStart + 1 |->
          LET key == keyStart + i - 1
          IN simpleSpaceUpdateValue(IF key = keyStart THEN markStart ELSE 0,
                                    IF key = keyEnd THEN markEnd ELSE SpaceLen - 1,
                                    IF key = keyStart THEN bitStart ELSE 0,
                                    IF key = keyEnd THEN bitEnd ELSE ByteBits,
                                    allocated)]

\* For one result.
persistSpaceMerges(st, e, allocated) ==
    LET values == spaceUpdateValues(e.Offset, e.Size, allocated)
        first == e.Offset \div SpaceSize
    IN [k \in SpaceKeys |->
          IF k - first + 1 \in DOMAIN values THEN Append(st[k], values[k - first + 1]) ELSE st[k]]

----------------------------------------------------------------------------
(* Reading the bitmap                                                      *)

get(k) == MergedGet("space", store[k])

\* loadSpaceValue: normalizeSpaceValue copies at most SpaceLen bytes, which
\* of a delta is its first half.
loadSpaceValue(k) == IF get(k) = NoValue THEN {} ELSE get(k).lo

\* fitBlock(size) / BlockSize
FitBlocks(size) == (size \div BlockSize) + (IF size % BlockSize = 0 THEN 0 ELSE 1)

BlocksOf(e) == (e.Offset \div BlockSize) .. (e.Offset \div BlockSize) + FitBlocks(e.Size) - 1

BlocksOfAll(results) == UNION {BlocksOf(e) : e \in results}

\* The bits of key k for a set of blocks.
BitsIn(k, blocks) == {b - k * BlocksPerSpace : b \in blocks} \cap AllBits

\* The blocks that share a space key with one of these.
InKeysOf(blocks) ==
    {b \in Blocks : \E c \in blocks : b \div BlocksPerSpace = c \div BlocksPerSpace}

\* Mutation of persistSpaceBits: without the updates map, a key that two
\* results share is read again, and the last value Set stays.
persistSpaceBits_NoUpdates(results, allocated) ==
    [k \in SpaceKeys |->
       LET mine == {e \in results : BitsIn(k, BlocksOf(e)) # {}}
           bits == BitsIn(k, BlocksOf(CHOOSE e \in mine : TRUE))
       IN IF mine = {} THEN staged[k]
          ELSE <<Space(IF allocated THEN loadSpaceValue(k) \cup bits
                                    ELSE loadSpaceValue(k) \ bits)>>]

\* Every space that the results touch is read once, from the database; its
\* bits are changed, and the value is Set in the batch, where it hides what
\* the batch had for the key.
persistSpaceBits(results, allocated) ==
    [k \in SpaceKeys |->
       LET bits == BitsIn(k, BlocksOfAll(results))
       IN IF bits = {} THEN staged[k]
          ELSE <<Space(IF allocated THEN loadSpaceValue(k) \cup bits
                                    ELSE loadSpaceValue(k) \ bits)>>]

\* loadAllocator's scan: runs closed so far, start (-1: none) and length of
\* the open run.
Scan0 == [runs |-> <<>>, start |-> -1, len |-> 0]

CloseRun(s) ==
    IF s.start < 0 THEN s
    ELSE [runs |-> Append(s.runs, [Offset |-> s.start, Size |-> s.len]), start |-> -1, len |-> 0]

GrowRun(s, block, n) ==
    [s EXCEPT !.start = IF @ < 0 THEN block ELSE @, !.len = @ + n]

\* One bitmap byte: all 0, all 1, or bit by bit.
ScanByte(s, k, byte) ==
    LET value == {j \in 0 .. ByteBits - 1 : Bit(byte, j) \in loadSpaceValue(k)}
        block == k * BlocksPerSpace + byte * ByteBits
        validBits == IF block + ByteBits > TotalBlocks THEN TotalBlocks - block ELSE ByteBits
    IN CASE block >= TotalBlocks -> s
         [] block < TotalBlocks /\ value = {} -> CloseRun(s)
         [] block < TotalBlocks /\ value = 0 .. ByteBits - 1 /\ validBits = ByteBits ->
               GrowRun(s, block, ByteBits)
         [] OTHER ->
               LET scan[j \in 0 .. validBits] ==
                     IF j = 0 THEN s
                     ELSE IF j - 1 \in value THEN GrowRun(scan[j - 1], block + j - 1, 1)
                          ELSE CloseRun(scan[j - 1])
               IN scan[validBits]

\* The scan after the first i bytes of all keys.
Scanned(i) ==
    LET scan[j \in 0 .. i] ==
          IF j = 0 THEN Scan0
          ELSE ScanByte(scan[j - 1], (j - 1) \div SpaceLen, (j - 1) % SpaceLen)
    IN scan[i]

\* Mutation of LoadRuns: a run that reaches the end is not closed.
LoadRuns_OpenEnd == Scanned(spaceKeyCount * SpaceLen).runs

LoadRuns == CloseRun(Scanned(spaceKeyCount * SpaceLen)).runs

\* InitAllocated accepts a run that lies inside the device.
RunBlocks(r) == r.Offset .. r.Offset + r.Size - 1
RunsAccepted(runs) == \A i \in DOMAIN runs : RunBlocks(runs[i]) \subseteq Blocks

----------------------------------------------------------------------------
(* The device                                                              *)

Init ==
    /\ store = [k \in SpaceKeys |-> <<>>]
    /\ phase = "closed" /\ initFrom = 0
    /\ memory = {} /\ updates = 0
    /\ staged = store /\ taken = {} /\ freed = {} /\ overwritten = {}
    /\ owned = {} /\ lost = {} /\ astray = {}

\* newBlockDevice: tryInitBlockSpace looks at the first key only.
Open ==
    /\ phase = "closed"
    /\ phase' = IF get(0) # NoValue THEN "load" ELSE "init"
    /\ initFrom' = 0 /\ memory' = {}
    /\ UNCHANGED <<store, batchVars, updates, owned, lost, astray>>

InitBatch ==
    /\ phase = "init"
    /\ LET to == IF initFrom + InitKeys > spaceKeyCount THEN spaceKeyCount ELSE initFrom + InitKeys
       IN /\ store' = [k \in SpaceKeys |-> IF k \in initFrom .. to - 1 THEN <<Space({})>> ELSE store[k]]
          /\ initFrom' = to
          /\ phase' = IF to = spaceKeyCount THEN "load" ELSE "init"
    /\ staged' = store'
    /\ UNCHANGED <<memory, taken, freed, overwritten, updates, owned, lost, astray>>

LoadAllocator ==
    /\ phase = "load"
    /\ phase' = IF RunsAccepted(LoadRuns) THEN "open" ELSE "failed"
    /\ memory' = UNION {RunBlocks(LoadRuns[i]) : i \in DOMAIN LoadRuns}
    /\ astray' = lost
    /\ UNCHANGED <<store, initFrom, batchVars, updates, owned, lost>>

\* PersistAllocBatch in the consumer of an upload.  The blocks were free in
\* memory when the upload took them, before its batch began: none of them is
\* one that this batch frees.
PersistAlloc(e) ==
    /\ phase = "open" /\ updates < MaxUpdates
    /\ BlocksOf(e) \subseteq Blocks \ (memory \cup freed)
    /\ memory' = memory \cup BlocksOf(e)
    /\ staged' = persistSpaceMerges(staged, e, TRUE)
    /\ taken' = taken \cup BlocksOf(e)
    /\ updates' = updates + 1
    /\ UNCHANGED <<store, phase, initFrom, freed, overwritten, owned, lost, astray>>

\* BlockDevice.Release in a consumer, for results that were committed.  The
\* allocator frees them all or, when one of them is not allocated in memory,
\* none; Release ignores its error.
Release(results) ==
    LET blocks == BlocksOfAll(results)
    IN /\ phase = "open" /\ updates < MaxUpdates
       /\ blocks \subseteq owned \ (taken \cup freed)
       /\ staged' = persistSpaceBits(results, FALSE)
       /\ memory' = IF blocks \subseteq memory THEN memory \ blocks ELSE memory
       /\ astray' = IF blocks \subseteq memory THEN astray ELSE astray \cup blocks
       /\ freed' = freed \cup blocks
       /\ overwritten' = overwritten \cup ((taken \cup freed) \cap InKeysOf(blocks))
       /\ updates' = updates + 1
       /\ UNCHANGED <<store, phase, initFrom, taken, owned, lost>>

\* The batch is over, and the next one begins.
EndBatch ==
    /\ taken \cup freed # {}
    /\ taken' = {} /\ freed' = {} /\ overwritten' = {}

Commit ==
    /\ EndBatch
    /\ store' = staged
    /\ owned' = (owned \cup taken) \ freed
    /\ lost' = (lost \ (taken \cup freed)) \cup overwritten
    /\ UNCHANGED <<phase, initFrom, memory, staged, updates, astray>>

\* A consumer of the batch or its commit fails: the uploads roll their
\* allocations back; what Release freed in memory stays free.
Fail ==
    /\ EndBatch
    /\ staged' = store
    /\ memory' = memory \ taken
    /\ astray' = astray \cup freed
    /\ UNCHANGED <<store, phase, initFrom, updates, owned, lost>>

\* A compaction; a batch that only merges into the key adds to its result.
Compact ==
    /\ \E k \in SpaceKeys : \E i \in 1 .. Len(store[k]) - 1 :
          /\ store' = [store EXCEPT ![k] = Compacted("space", @, i)]
          /\ staged' = [staged EXCEPT ![k] =
                IF Len(store[k]) <= Len(@) /\ SubSeq(@, 1, Len(store[k])) = store[k]
                THEN Compacted("space", @, i) ELSE @]
    /\ UNCHANGED <<phase, initFrom, memory, taken, freed, overwritten, updates, owned, lost, astray>>

\* The process ends; what is committed stays.
Crash ==
    /\ phase \in {"init", "load", "open"}
    /\ phase' = "closed" /\ memory' = {}
    /\ staged' = store /\ taken' = {} /\ freed' = {} /\ overwritten' = {}
    /\ UNCHANGED <<store, initFrom, updates, owned, lost, astray>>

Next ==
    \/ Open \/ InitBatch \/ LoadAllocator \/ Commit \/ Fail \/ Compact \/ Crash
    \/ \E e \in Extents : PersistAlloc(e)
    \/ \E results \in SUBSET Extents : results # {} /\ Release(results)

Spec == Init /\ [][Next]_vars

----------------------------------------------------------------------------
(* Properties                                                              *)

(* The bitmap read back is the set of the blocks allocated and not         *)
(* released by committed batches, across byte, key and device boundaries,  *)
(* for every way Pebble groups the deltas, after commits that failed, and  *)
(* also under keys that a crash in tryInitBlockSpace left without their    *)
(* zero value.  The only exceptions are the blocks whose last update       *)
(* shared a batch and a space key with a later Release: persistSpaceBits   *)
(* reads the database (block_device.go:384), so its Set undoes what the    *)
(* batch had for the other blocks of the key.                              *)
BitmapExact ==
    \A k \in SpaceKeys, x \in AllBits :
       k * BlocksPerSpace + x \notin lost =>
          (x \in loadSpaceValue(k) <=> k * BlocksPerSpace + x \in owned)

(* Opening the device rebuilds the allocator: loadAllocator hands          *)
(* InitAllocated runs it accepts, and from then on the blocks allocated in *)
(* memory are the ones that are committed, or will be when the batch is.   *)
(* The exceptions are the blocks the bitmap had lost at the restart, and   *)
(* those of a Release that frees them in memory (block_device.go:198)      *)
(* while its batch is not committed, or that the allocator refuses.        *)
LoadExact ==
    /\ phase # "failed"
    /\ phase = "open" =>
         \A b \in Blocks \ astray : b \in memory <=> b \in (owned \cup taken) \ freed

==============================================================================
