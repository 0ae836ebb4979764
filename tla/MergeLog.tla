------------------------------- MODULE MergeLog -------------------------------
(***************************************************************************)
(* One Pebble key under Merge: records pile up, a read merges them from    *)
(* the newest down, and compactions merge neighbours at any time.  merged  *)
(* is what merging every operand on its arrival would give.                *)
(***************************************************************************)
EXTENDS MossMerger

CONSTANTS
    Operands,  \* class of a key -> values that are merged into it
    MaxMerges  \* bound on the number of merges

VARIABLES class, records, merged, merges

mergeVars == <<class, records, merged, merges>>

MergeInit == class \in DOMAIN Operands /\ records = <<>> /\ merged = NoValue /\ merges = 0

Merge(v) ==
    /\ merges < MaxMerges
    /\ records' = Append(records, v)
    /\ merged' = IF merged = NoValue THEN v ELSE mossMergeValues(class, merged, v)
    /\ merges' = merges + 1
    /\ UNCHANGED class

CompactRecords ==
    /\ \E i \in 1 .. Len(records) - 1 : records' = Compacted(class, records, i)
    /\ UNCHANGED <<class, merged, merges>>

MergeNext == (\E v \in Operands[class] : Merge(v)) \/ CompactRecords

MergeSpec == MergeInit /\ [][MergeNext]_mergeVars

----------------------------------------------------------------------------
(* Properties                                                              *)

Counters == {Num(n) : n \in 0 .. WordSize - 1}

\* A document of a dual-active cluster: stamped, and not deleted.
IsDualDoc(v) ==
    /\ v = Doc(v.version, [dual |-> TRUE, t |-> v.stamp.t], FALSE)
    /\ v.version \in Int \cup {Missing} /\ v.stamp # Missing /\ v.stamp.t \in Int

\* What is merged into a key is all counters or all such documents.  The
\* code merges counters (and the deltas of space keys) only.
Groupable ==
    \A c \in DOMAIN Operands :
        /\ NoValue \notin Counters \cup Operands[c]
        /\ \/ Operands[c] \subseteq Counters
           \/ c = "json" /\ \A v \in Operands[c] : IsDualDoc(v)

(* What the comments of newMossMerger and buildDataOptions say, that the   *)
(* operator is associative: how Pebble groups the operands of a key, at a  *)
(* read or in compactions, does not change what is read.  It holds for     *)
(* operands that are Groupable (PebbleProofs), and not for the documents   *)
(* that the operator also takes: when the stamps do not decide between two *)
(* documents, the version or a deleteMark does.                            *)
GroupingIrrelevant == MergedGet(class, records) = merged

==============================================================================
