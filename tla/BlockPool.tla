------------------------------ MODULE BlockPool ------------------------------
(***************************************************************************)
(* What AllocatorV3 promises its callers, with no bitmap in sight: a set   *)
(* of free blocks, from which a request takes exactly as many blocks as it *)
(* asked for, and to which a release gives back blocks that are allocated. *)
(* A request is refused only when it is not positive or when there are not *)
(* enough free blocks: fragmentation and the position of the search never  *)
(* make the pool refuse.                                                   *)
(***************************************************************************)
EXTENDS Integers, Sequences, FiniteSets

CONSTANTS
    Total,       \* number of blocks the pool manages
    Wants,       \* request sizes callers use (not necessarily positive)
    ExtentLists  \* lists of extents callers pass to release, or to restore state

VARIABLES
    free,        \* the blocks that may be handed out
    reply        \* what the last finished call returned

Blocks == 0 .. Total - 1

\* The blocks of the extent [offset, offset + size).
ExtentBlocks(r) == r.offset .. r.offset + r.size - 1

BlocksOf(rs) == UNION {ExtentBlocks(rs[i]) : i \in DOMAIN rs}

\* A non-empty extent inside the device.
ValidExtent(r) == r.size > 0 /\ ExtentBlocks(r) \subseteq Blocks

\* A list of extents that can be given back: each is inside the device and
\* fully allocated, and no two share a block.
Releasable(rs) ==
    /\ \A i \in DOMAIN rs : ValidExtent(rs[i]) /\ ExtentBlocks(rs[i]) \cap free = {}
    /\ \A i, j \in DOMAIN rs :
          i # j => ExtentBlocks(rs[i]) \cap ExtentBlocks(rs[j]) = {}

Reply(op, ok, blocks) == [op |-> op, ok |-> ok, blocks |-> blocks]

Init ==
    /\ free = Blocks
    /\ reply = Reply("new", TRUE, {})

Grant(want) ==
    /\ want > 0
    /\ \E S \in SUBSET free :
          /\ Cardinality(S) = want
          /\ free' = free \ S
          /\ reply' = Reply("allocate", TRUE, S)

Refuse(want) ==
    /\ want <= 0 \/ Cardinality(free) < want
    /\ reply' = Reply("allocate", FALSE, {})
    /\ UNCHANGED free

GiveBack(rs) ==
    /\ IF Releasable(rs)
         THEN /\ free' = free \cup BlocksOf(rs)
              /\ reply' = Reply("release", TRUE, {})
         ELSE /\ reply' = Reply("release", FALSE, {})
              /\ UNCHANGED free

\* Restoring persisted state: the blocks of r become allocated (or free),
\* whatever they were; an empty extent is accepted and does nothing.
Restore(r, isFree) ==
    /\ IF r.size <= 0 \/ ValidExtent(r)
         THEN /\ free' = IF isFree THEN free \cup ExtentBlocks(r) ELSE free \ ExtentBlocks(r)
              /\ reply' = Reply("restore", TRUE, {})
         ELSE /\ reply' = Reply("restore", FALSE, {})
              /\ UNCHANGED free

Next ==
    \/ \E want \in Wants : Grant(want) \/ Refuse(want)
    \/ \E rs \in ExtentLists :
          \/ GiveBack(rs)
          \/ \E i \in DOMAIN rs, isFree \in BOOLEAN : Restore(rs[i], isFree)

Spec == Init /\ [][Next]_<<free, reply>>

==============================================================================
