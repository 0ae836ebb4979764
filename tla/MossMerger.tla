------------------------------ MODULE MossMerger ------------------------------
(***************************************************************************)
(* The merge operator of internal/database/pebble/ms_pebble.go.  A value   *)
(* is a record whose kind is what the code tells by length and content:    *)
(*   "num"    8 bytes, a counter;                                          *)
(*   "space"  SpaceLen bytes, the set of the bits that are 1;              *)
(*   "delta"  2*SpaceLen bytes: bits to set (lo) and bits to keep (hi);    *)
(*   "doc"    JSON metadata: versionNum, syncStamp and deleteMark.         *)
(* A key is its class: "space" (prefix ".1."), "json" ('*', '-' or a       *)
(* digit) or "other".                                                      *)
(***************************************************************************)
EXTENDS Integers, Sequences

CONSTANTS
    WordSize,  \* counters are modulo this, 2^64 in the code
    Missing,   \* a JSON field that is not there
    NoValue    \* the key is not in the database

ASSUME MergerAssumption == WordSize \in Nat \ {0} /\ Missing \notin Int

Num(n) == [kind |-> "num", n |-> n]
Space(bits) == [kind |-> "space", lo |-> bits]
Delta(lo, hi) == [kind |-> "delta", lo |-> lo, hi |-> hi]

\* A stamp is Missing, [dual |-> FALSE] (fewer than two hyphens) or
\* [dual |-> TRUE, t |-> time].
Doc(version, stamp, deleteMark) ==
    [kind |-> "doc", version |-> version, stamp |-> stamp, deleteMark |-> deleteMark]

mossBitmapMerge(existing, incoming) ==
    IF existing.kind = "space"
    THEN Space((existing.lo \cup incoming.lo) \cap incoming.hi)
    ELSE LET ci == existing.lo \cup incoming.lo
             cj == existing.hi \cap incoming.hi
         IN Delta(ci \cap cj, ci \cup cj)

\* Positive when v2 is greater; a version that is missing is the least.
compareVersion(v1, v2) ==
    CASE v1 = Missing /\ v2 = Missing -> 0
      [] v1 = Missing /\ v2 # Missing -> 1
      [] v1 # Missing /\ v2 = Missing -> -1
      [] OTHER -> v2 - v1

IsDual(stamp) == stamp # Missing /\ stamp.dual

\* Called with a dual v2 only.
compareSyncStamp(v1, v2) == IF IsDual(v1) THEN compareVersion(v1.t, v2.t) ELSE 1

mossJSONMerge(existing, incoming) ==
    LET byStamp == IF IsDual(incoming.stamp)
                   THEN compareSyncStamp(existing.stamp, incoming.stamp) ELSE 0
        byVersion == compareVersion(existing.version, incoming.version)
    IN IF \/ byStamp > 0
          \/ byStamp = 0 /\ (byVersion > 0 \/ (byVersion < 0 /\ existing.deleteMark))
       THEN incoming ELSE existing

mossMergeValues(key, existing, incoming) ==
    IF existing.kind = "num" /\ incoming.kind = "num"
    THEN Num((existing.n + incoming.n) % WordSize)
    ELSE CASE key = "space" -> mossBitmapMerge(existing, incoming)
           [] key = "json" -> mossJSONMerge(existing, incoming)
           [] OTHER -> incoming

\* What Pebble's Get returns for a key with these records, oldest first: it
\* starts from the newest and calls MergeOlder on the way down.
MergedGet(key, log) ==
    LET acc[i \in 1 .. Len(log)] ==
          IF i = Len(log) THEN log[i] ELSE mossMergeValues(key, log[i], acc[i + 1])
    IN IF log = <<>> THEN NoValue ELSE acc[1]

\* Compaction replaces two neighbouring records by their merge.
Compacted(key, log, i) ==
    SubSeq(log, 1, i - 1) \o <<mossMergeValues(key, log[i], log[i + 1])>>
       \o SubSeq(log, i + 2, Len(log))

==============================================================================
