----------------------------- MODULE AllocatorV3 -----------------------------
(***************************************************************************)
(* The three-level bitmap allocator of internal/fs/allocator_v3.go.        *)
(*                                                                         *)
(* L0 holds one bit per block (1 = free), BitsPerSlot bits to a word.  One *)
(* L1 entry summarises SlotsPerSlotset L0 words, and EntriesPerSlot L1     *)
(* entries make an L1 word.  One L2 entry summarises SlotsPerSlotset L1    *)
(* words.  The last words of L1 and L2 have padding entries, which stay    *)
(* FULL.  The code has 64, 8 and 32.                                       *)
(*                                                                         *)
(* Every operation runs under the mutex a.mu.  Allocate is modelled as the *)
(* steps of its loop, with pc # "idle" for "the mutex is held"; the other  *)
(* operations are one action each.                                         *)
(***************************************************************************)
EXTENDS Integers, Sequences, FiniteSets, FiniteSetsExt

CONSTANTS
    Total,            \* number of blocks (a.total)
    BitsPerSlot,      \* v3BitsPerSlot
    SlotsPerSlotset,  \* v3SlotsPerSlotset
    EntriesPerSlot,   \* v3L1EntriesPerSlot
    Wants,            \* arguments of Allocate
    ExtentLists       \* arguments of Release; their extents go to InitAllocated/InitFree

Extents == [offset : Int, size : Int]

ASSUME GeometryAssumption ==
    /\ Total \in Nat \ {0}
    /\ BitsPerSlot \in Nat \ {0}
    /\ SlotsPerSlotset \in Nat \ {0}
    /\ EntriesPerSlot \in Nat \ {0}

ASSUME InputAssumption ==
    /\ Wants \subseteq Int
    /\ ExtentLists \subseteq Seq(Extents)

VARIABLES
    l0,         \* the free blocks: block w * BitsPerSlot + b is bit b of word w
    l1,         \* L1 entries, padding included
    l2,         \* L2 entries, padding included
    available,  \* a.available
    lastPos,    \* a.lastPos
    pc,         \* "idle", or "scan" while Allocate's loop runs
    want,       \* Allocate's argument
    left,       \* blocks still to find
    pass,       \* 0, 1, or 2 once both passes are over
    from,       \* where the next search starts
    results,    \* extents taken so far
    reply       \* what the last finished call returned

bitmap == <<l0, l1, l2>>
scanning == <<pc, want, left, pass, from, results>>
vars == <<l0, l1, l2, available, lastPos, pc, want, left, pass, from, results, reply>>

----------------------------------------------------------------------------
(* Geometry                                                                *)

CeilDiv(a, b) == (a + b - 1) \div b

BitsPerSlotset == SlotsPerSlotset * BitsPerSlot
BitsPerL1Slotset == SlotsPerSlotset * EntriesPerSlot * BitsPerSlotset

L0Slots == CeilDiv(Total, BitsPerSlot)
L0Slotsets == CeilDiv(L0Slots, SlotsPerSlotset)
L1Slots == CeilDiv(L0Slotsets, EntriesPerSlot)
L1Slotsets == CeilDiv(L1Slots, SlotsPerSlotset)
L2Slots == CeilDiv(L1Slotsets, EntriesPerSlot)

Blocks == 0 .. Total - 1
L1Entries == 0 .. L1Slots * EntriesPerSlot - 1
L2Entries == 0 .. L2Slots * EntriesPerSlot - 1

FULL == "FULL"
PARTIAL == "PARTIAL"
FREE == "FREE"

MinInt(a, b) == IF a < b THEN a ELSE b
MaxInt(a, b) == IF a > b THEN a ELSE b

\* The slotset (L1 entry) of a block, and the L1 slotset (L2 entry) of an L1 entry.
SlotsetOf(b) == (b \div BitsPerSlot) \div SlotsPerSlotset
L1SlotsetOf(s) == (s \div EntriesPerSlot) \div SlotsPerSlotset

Extent(offset, size) == [offset |-> offset, size |-> size]
EndOf(r) == r.offset + r.size
BlocksOf(rs) == UNION {rs[i].offset .. EndOf(rs[i]) - 1 : i \in DOMAIN rs}

----------------------------------------------------------------------------
(* Summaries                                                               *)

\* The bits of word w that exist: the last word may be short.
ValidWordMask(w) == {b \in w * BitsPerSlot .. w * BitsPerSlot + BitsPerSlot - 1 : b < Total}

\* The part of word w that lies in extent r.
RangeMask(r, w) ==
    MaxInt(r.offset, w * BitsPerSlot) .. MinInt(EndOf(r), w * BitsPerSlot + BitsPerSlot) - 1

Entry(allFree, allAlloc) == IF allFree THEN FREE ELSE IF allAlloc THEN FULL ELSE PARTIAL

\* updateL1ForL0Slot: the entry of slotset s, from the L0 words it covers.
L1EntryOf(bits, s) ==
    LET words == s * SlotsPerSlotset ..
                   MinInt(s * SlotsPerSlotset + SlotsPerSlotset, L0Slots) - 1
    IN Entry(\A w \in words : ValidWordMask(w) \subseteq bits,
             \A w \in words : ValidWordMask(w) \cap bits = {})

\* updateL2ForL1Slot: the entry of L1 slotset e, from the L1 words it covers.
\* A word is all ones, or zero, when every entry of it is, padding included.
L2EntryOf(entries, e) ==
    LET words == e * SlotsPerSlotset ..
                   MinInt(e * SlotsPerSlotset + SlotsPerSlotset, L1Slots) - 1
        WordEntries(k) == k * EntriesPerSlot .. k * EntriesPerSlot + EntriesPerSlot - 1
    IN Entry(\A k \in words : \A s \in WordEntries(k) : entries[s] = FREE,
             \A k \in words : \A s \in WordEntries(k) : entries[s] = FULL)

----------------------------------------------------------------------------
(* markRangeLocked.  It is called for each extent of a list; the entries   *)
(* it refreshes for one extent are not disturbed by the next unless the    *)
(* next refreshes them too, so the list is marked in one go.               *)

StartWord(r) == r.offset \div BitsPerSlot
EndWord(r) == (EndOf(r) - 1) \div BitsPerSlot

\* The bits of L0 that the word loop sets or clears.
MarkMask(r) ==
    UNION {RangeMask(r, w) \cap ValidWordMask(w) :
              w \in StartWord(r) .. MinInt(EndWord(r), L0Slots - 1)}

MarkMasks(rs) == UNION {MarkMask(rs[i]) : i \in DOMAIN rs}

\* Mutation of TouchesSlotset: only the first slotset of the range is refreshed.
TouchesSlotset_FirstOnly(r, s) == s = StartWord(r) \div SlotsPerSlotset

TouchesSlotset(r, s) ==
    StartWord(r) \div SlotsPerSlotset <= s /\ s <= EndWord(r) \div SlotsPerSlotset

\* Mutation of TouchesL1Slotset: only the first L1 slotset is refreshed.
TouchesL1Slotset_FirstOnly(r, e) == e = L1SlotsetOf(StartWord(r) \div SlotsPerSlotset)

TouchesL1Slotset(r, e) ==
    /\ L1SlotsetOf(StartWord(r) \div SlotsPerSlotset) <= e
    /\ e <= L1SlotsetOf(EndWord(r) \div SlotsPerSlotset)
    /\ e * SlotsPerSlotset < L1Slots

Mark(rs, isFree) ==
    /\ l0' = IF isFree THEN l0 \cup MarkMasks(rs) ELSE l0 \ MarkMasks(rs)
    /\ l1' = [s \in L1Entries |->
                 IF \E i \in DOMAIN rs : TouchesSlotset(rs[i], s)
                 THEN L1EntryOf(l0', s) ELSE l1[s]]
    /\ l2' = [e \in L2Entries |->
                 IF \E i \in DOMAIN rs : TouchesL1Slotset(rs[i], e)
                 THEN L2EntryOf(l1', e) ELSE l2[e]]

----------------------------------------------------------------------------
(* nextFreeRunFromLocked                                                   *)

NoRun == Extent(0, 0)

\* scanL0ForFreeRunLimited: the first free bit of [fromBit, toBit), extended
\* to the right by at most limit blocks, past toBit if need be.
ScanL0(fromBit, toBit, limit) ==
    LET hits == {b \in l0 : fromBit <= b /\ b < toBit}
        first == Min(hits)
    IN IF hits = {} THEN NoRun
       ELSE Extent(first, Max({n \in 1 .. limit : first .. first + n - 1 \subseteq l0}))

\* Mutation of FreeEntryRun: the run starts with the entry even when the
\* search starts inside it.
FreeEntryRun_FromStart(start, end, fromBit, limit) ==
    LET sz == MinInt(limit, MinInt(end, Total) - start)
    IN IF sz > 0 THEN Extent(start, sz) ELSE NoRun

\* The fast path of a FREE entry that covers [start, end).
FreeEntryRun(start, end, fromBit, limit) ==
    LET actualStart == MaxInt(start, fromBit)
        sz == MinInt(limit, MinInt(end, Total) - actualStart)
    IN IF sz > 0 THEN Extent(actualStart, sz) ELSE NoRun

\* The run found through L1 entry s, or NoRun.
L1Run(s, fromBit, limit) ==
    LET start == s * SlotsPerSlotset * BitsPerSlot
        slotEnd == MinInt(s * SlotsPerSlotset + SlotsPerSlotset, L0Slots)
    IN CASE l1[s] = FULL -> NoRun
         [] l1[s] = FREE -> FreeEntryRun(start, start + BitsPerSlotset, fromBit, limit)
         [] l1[s] = PARTIAL -> ScanL0(MaxInt(start, fromBit), slotEnd * BitsPerSlot, limit)

\* The run found through L2 entry e, or NoRun: the first L1 entry at or after
\* the one of fromBit that yields a run.
L2Run(e, fromBit, limit) ==
    LET start == e * BitsPerL1Slotset
        slotEnd == MinInt(e * SlotsPerSlotset + SlotsPerSlotset, L1Slots)
        hits == {s \in e * SlotsPerSlotset * EntriesPerSlot .. slotEnd * EntriesPerSlot - 1 :
                    s >= SlotsetOf(fromBit) /\ L1Run(s, fromBit, limit).size > 0}
    IN CASE l2[e] = FULL -> NoRun
         [] l2[e] = FREE -> FreeEntryRun(start, start + BitsPerL1Slotset, fromBit, limit)
         [] l2[e] = PARTIAL -> IF hits = {} THEN NoRun ELSE L1Run(Min(hits), fromBit, limit)

\* Mutation of NextFreeRun: it never looks at the last block.
NextFreeRun_NotLast(fromBit, limit) ==
    LET hits == {e \in L2Entries :
                    e >= L1SlotsetOf(SlotsetOf(fromBit)) /\ L2Run(e, fromBit, limit).size > 0}
    IN IF fromBit >= Total - 1 \/ hits = {} THEN NoRun ELSE L2Run(Min(hits), fromBit, limit)

NextFreeRun(fromBit, limit) ==
    LET hits == {e \in L2Entries :
                    e >= L1SlotsetOf(SlotsetOf(fromBit)) /\ L2Run(e, fromBit, limit).size > 0}
    IN IF fromBit >= Total \/ hits = {} THEN NoRun ELSE L2Run(Min(hits), fromBit, limit)

\* Mutations of AppendResult: extents are merged across a gap; the size of
\* the extent that grows is forgotten.
AppendResult_AnyGap(rs, r) ==
    IF rs # <<>> /\ EndOf(rs[Len(rs)]) <= r.offset
    THEN [rs EXCEPT ![Len(rs)] = Extent(@.offset, @.size + r.size)]
    ELSE Append(rs, r)

AppendResult_SizeLost(rs, r) ==
    IF rs # <<>> /\ EndOf(rs[Len(rs)]) = r.offset
    THEN [rs EXCEPT ![Len(rs)] = Extent(@.offset, r.size)]
    ELSE Append(rs, r)

\* appendResult: an extent that starts where the last one ends is merged into it.
AppendResult(rs, r) ==
    IF rs # <<>> /\ EndOf(rs[Len(rs)]) = r.offset
    THEN [rs EXCEPT ![Len(rs)] = Extent(@.offset, @.size + r.size)]
    ELSE Append(rs, r)

----------------------------------------------------------------------------
(* Operations                                                              *)

Reply(op, ok, extents) == [op |-> op, ok |-> ok, extents |-> extents]

\* NewAllocatorV3: every block free, the summaries built bottom up.
Init ==
    /\ l0 = Blocks
    /\ l1 = [s \in L1Entries |-> IF s < L0Slotsets THEN L1EntryOf(l0, s) ELSE FULL]
    /\ l2 = [e \in L2Entries |-> IF e < L1Slotsets THEN L2EntryOf(l1, e) ELSE FULL]
    /\ available = Total
    /\ lastPos = 0
    /\ pc = "idle" /\ want = 0 /\ left = 0 /\ pass = 0 /\ from = 0 /\ results = <<>>
    /\ reply = Reply("new", TRUE, <<>>)

AllocateRefuse(n) ==
    /\ pc = "idle"
    /\ n <= 0 \/ available < n
    /\ reply' = Reply("allocate", FALSE, <<>>)
    /\ UNCHANGED <<bitmap, available, lastPos, scanning>>

AllocateStart(n) ==
    /\ pc = "idle"
    /\ n > 0 /\ available >= n
    /\ pc' = "scan" /\ want' = n /\ left' = n
    /\ pass' = 0 /\ from' = lastPos /\ results' = <<>>
    /\ UNCHANGED <<bitmap, available, lastPos, reply>>

\* One iteration of the inner loop: take a run, or break out of this pass.
AllocateScan ==
    LET run == NextFreeRun(from, left)
        take == MinInt(run.size, left)
    IN /\ pc = "scan" /\ left > 0 /\ pass < 2
       /\ IF run.size = 0 \/ (pass = 1 /\ run.offset >= lastPos)
            THEN /\ pass' = pass + 1
                 /\ from' = 0
                 /\ UNCHANGED <<bitmap, left, results>>
            ELSE /\ Mark(<<Extent(run.offset, take)>>, FALSE)
                 /\ results' = AppendResult(results, Extent(run.offset, take))
                 /\ left' = left - take
                 /\ from' = run.offset + take
                 /\ UNCHANGED pass
       /\ UNCHANGED <<available, lastPos, pc, want, reply>>

\* After the loop: roll back and report "bitmap inconsistent", or account for
\* the blocks taken and remember where the last extent ends.
AllocateFinish ==
    LET end == EndOf(results[Len(results)])
    IN /\ pc = "scan" /\ (left = 0 \/ pass = 2)
       /\ IF left > 0
            THEN /\ Mark(results, TRUE)
                 /\ reply' = Reply("allocate", FALSE, <<>>)
                 /\ UNCHANGED <<available, lastPos>>
            ELSE /\ available' = available - want
                 /\ lastPos' = IF end >= Total THEN 0 ELSE end
                 /\ reply' = Reply("allocate", TRUE, results)
                 /\ UNCHANGED bitmap
       /\ pc' = "idle" /\ want' = 0 /\ left' = 0 /\ pass' = 0 /\ from' = 0 /\ results' = <<>>

ValidRange(r) == r.offset >= 0 /\ r.size > 0 /\ EndOf(r) <= Total

RangeFullyAllocated(r) == MarkMask(r) \cap l0 = {}

ExtentsOverlap(r, t) == r.offset < EndOf(t) /\ t.offset < EndOf(r)

Release(rs) ==
    /\ pc = "idle"
    /\ IF /\ \A i \in DOMAIN rs : ValidRange(rs[i]) /\ RangeFullyAllocated(rs[i])
          /\ \A i, j \in DOMAIN rs : i < j => ~ExtentsOverlap(rs[i], rs[j])
         THEN /\ Mark(rs, TRUE)
              /\ available' = available + Cardinality(MarkMasks(rs) \ l0)
              /\ reply' = Reply("release", TRUE, <<>>)
         ELSE /\ reply' = Reply("release", FALSE, <<>>)
              /\ UNCHANGED <<bitmap, available>>
    /\ UNCHANGED <<lastPos, scanning>>

InitAllocated(r) ==
    /\ pc = "idle"
    /\ IF r.size > 0 /\ ValidRange(r)
         THEN /\ Mark(<<r>>, FALSE)
              /\ available' = available - Cardinality(MarkMask(r) \cap l0)
         ELSE UNCHANGED <<bitmap, available>>
    /\ reply' = Reply("restore", r.size <= 0 \/ (ValidRange(r) /\ available' >= 0), <<>>)
    /\ UNCHANGED <<lastPos, scanning>>

\* Mutation of InitFree: blocks that were free already are counted again.
InitFree_CountsAll(r) ==
    /\ pc = "idle"
    /\ IF r.size > 0 /\ ValidRange(r)
         THEN /\ Mark(<<r>>, TRUE)
              /\ available' = available + r.size
         ELSE UNCHANGED <<bitmap, available>>
    /\ reply' = Reply("restore", r.size <= 0 \/ (ValidRange(r) /\ available' <= Total), <<>>)
    /\ UNCHANGED <<lastPos, scanning>>

InitFree(r) ==
    /\ pc = "idle"
    /\ IF r.size > 0 /\ ValidRange(r)
         THEN /\ Mark(<<r>>, TRUE)
              /\ available' = available + Cardinality(MarkMask(r) \ l0)
         ELSE UNCHANGED <<bitmap, available>>
    /\ reply' = Reply("restore", r.size <= 0 \/ (ValidRange(r) /\ available' <= Total), <<>>)
    /\ UNCHANGED <<lastPos, scanning>>

Next ==
    \/ \E n \in Wants : AllocateRefuse(n) \/ AllocateStart(n)
    \/ AllocateScan
    \/ AllocateFinish
    \/ \E rs \in ExtentLists :
          \/ Release(rs)
          \/ \E i \in DOMAIN rs : InitAllocated(rs[i]) \/ InitFree(rs[i])

Spec == Init /\ [][Next]_vars

----------------------------------------------------------------------------
(* Properties                                                              *)

TypeOK ==
    /\ l0 \subseteq Blocks
    /\ l1 \in [L1Entries -> {FULL, PARTIAL, FREE}]
    /\ l2 \in [L2Entries -> {FULL, PARTIAL, FREE}]
    /\ available \in 0 .. Total
    /\ lastPos \in Blocks
    /\ pc \in {"idle", "scan"}
    /\ want \in Nat /\ left \in 0 .. want
    /\ pass \in 0 .. 2
    /\ from \in 0 .. Total
    /\ results \in Seq(Extents)
    /\ reply.op \in {"new", "allocate", "release", "restore"}
    /\ reply.ok \in BOOLEAN
    /\ reply.extents \in Seq(Extents)

(* L1 and L2 describe L0 exactly at every step of every operation, also    *)
(* after a range that covers only part of a word, a slotset or an L1       *)
(* slotset was marked, and padding entries never stop being FULL: the      *)
(* search trusts FREE without looking at L0 and skips FULL for good        *)
(* (markRangeLocked refreshes only the entries its range touches).         *)
SummariesExact ==
    /\ \A s \in L1Entries : l1[s] = IF s < L0Slotsets THEN L1EntryOf(l0, s) ELSE FULL
    /\ \A e \in L2Entries : l2[e] = IF e < L1Slotsets THEN L2EntryOf(l1, e) ELSE FULL

(* The counter that Allocate trusts when it accepts a request is the       *)
(* number of free bits; while its loop runs, the blocks already taken are  *)
(* still counted (Allocate subtracts want once, at the end).               *)
AvailableExact == available = Cardinality(l0) + (want - left)

(* What the loop has taken is what it will return: the extents are inside  *)
(* the device, no block of them is still free, and together they are       *)
(* exactly want - left blocks, so no two extents share a block, even when  *)
(* appendResult merges extents or the second pass meets the first.  (That  *)
(* they were free before is ImplementsPool.)                               *)
ResultsExact ==
    /\ \A i \in DOMAIN results : ValidRange(results[i])
    /\ BlocksOf(results) \cap l0 = {}
    /\ Cardinality(BlocksOf(results)) = want - left

(* A request that passed the available >= want test never ends in the      *)
(* "bitmap inconsistent" rollback: two passes, the second stopping at      *)
(* lastPos, reach every free block.                                        *)
SearchComplete == ~(pc = "scan" /\ pass = 2 /\ left > 0)

\* Distance of block b from lastPos, going right and wrapping at the end.
FromLastPos(b) == IF b >= lastPos THEN b - lastPos ELSE b - lastPos + Total

(* Allocate is next-fit: it takes free blocks in the order in which they   *)
(* follow lastPos around the device, and skips none of them, whichever of  *)
(* L2, L1 and L0 found them.                                               *)
NextFit ==
    \A t \in BlocksOf(results), b \in l0 : FromLastPos(t) < FromLastPos(b)

(* What the two passes of Allocate's loop have established: the first has  *)
(* left no free block between lastPos and from; the second, started only   *)
(* when nothing was left from lastPos on, none before from; and after both *)
(* nothing is free.  (The inductive strengthening behind SearchComplete    *)
(* and NextFit; when no Allocate runs, its variables are reset.)           *)
LoopInvariant ==
    /\ pc = "idle" => want = 0 /\ left = 0 /\ pass = 0 /\ results = <<>>
    /\ pc = "scan" => want \in Wants /\ 0 < want /\ want <= available
    /\ pc = "scan" /\ pass = 0 =>
          /\ lastPos <= from
          /\ \A b \in l0 : b < lastPos \/ from <= b
          /\ \A t \in BlocksOf(results) : lastPos <= t /\ t < from
    /\ pc = "scan" /\ pass = 1 =>
          /\ \A b \in l0 : b < lastPos /\ from <= b
          /\ \A t \in BlocksOf(results) : lastPos <= t \/ t < from
    /\ pc = "scan" /\ pass = 2 => l0 = {}

\* The free blocks as callers know them: those of a running Allocate are
\* handed over when it returns.
Pool == INSTANCE BlockPool WITH
    free <- l0 \cup BlocksOf(results),
    reply <- [op |-> reply.op, ok |-> reply.ok, blocks |-> BlocksOf(reply.extents)]

(* The allocator implements the abstract pool: requests get exactly the    *)
(* number of blocks asked for, all of them free before, and are refused    *)
(* only for lack of space; releases of blocks that are not allocated, out  *)
(* of range or listed twice are refused and change nothing.                *)
ImplementsPool == Pool!Spec

==============================================================================
