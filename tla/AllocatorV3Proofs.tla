-------------------------- MODULE AllocatorV3Proofs --------------------------
(***************************************************************************)
(* The safety properties of AllocatorV3, proved for every device size,     *)
(* word size and slotset size, and for every sequence of calls, and the    *)
(* proof that AllocatorV3 implements BlockPool.  The first half is about   *)
(* the geometry of the three levels: what Mark refreshes and what          *)
(* NextFreeRun finds.                                                      *)
(***************************************************************************)
EXTENDS AllocatorV3, FiniteSetTheorems, WellFoundedInduction, TLAPS

----------------------------------------------------------------------------
(* Division                                                                *)

(* Where a quotient lies.                                                  *)
LEMMA DivBounds ==
  ASSUME NEW a \in Nat, NEW d \in Nat \ {0}
  PROVE  /\ a \div d \in Nat
         /\ (a \div d) * d <= a
         /\ a < (a \div d) * d + d
OBVIOUS

(* A quotient is the only multiple that fits.                              *)
LEMMA DivUnique ==
  ASSUME NEW a \in Nat, NEW d \in Nat \ {0}, NEW q \in Int,
         q * d <= a, a < q * d + d
  PROVE  a \div d = q
OBVIOUS

(* Division keeps the order.                                               *)
LEMMA DivMono ==
  ASSUME NEW a \in Nat, NEW b \in Nat, NEW d \in Nat \ {0}, a <= b
  PROVE  a \div d <= b \div d
OBVIOUS

(* So does multiplication.                                                 *)
LEMMA MulMono ==
  ASSUME NEW a \in Int, NEW b \in Int, NEW c \in Nat, a <= b
  PROVE  a * c <= b * c
OBVIOUS

(* The laws of multiplication the SMT solver has to be told.               *)
LEMMA MulAlgebra ==
  ASSUME NEW a \in Int, NEW b \in Int, NEW c \in Int
  PROVE  /\ a * b \in Int
         /\ (a * b) * c = a * (b * c)
         /\ (a + b) * c = a * c + b * c
         /\ a * b = b * a
OBVIOUS

(* The slots that a number of bits or entries needs: the last one is used, *)
(* and every bit has one.                                                  *)
LEMMA CeilDivBounds ==
  ASSUME NEW a \in Nat \ {0}, NEW d \in Nat \ {0}
  PROVE  /\ CeilDiv(a, d) \in Nat \ {0}
         /\ (CeilDiv(a, d) - 1) * d < a
         /\ a <= CeilDiv(a, d) * d
         /\ \A x \in 0 .. a - 1 : x \div d < CeilDiv(a, d)
<1> DEFINE n == CeilDiv(a, d)
<1>1. n \in Nat /\ n * d <= a + d - 1 /\ a + d - 1 < n * d + d
  BY DivBounds DEF CeilDiv
<1>2. n # 0
  BY <1>1
<1>3. (n - 1) * d = n * d - d
  BY <1>1
<1>4. ASSUME NEW x \in 0 .. a - 1 PROVE x \div d < n
  <2>1. x \div d \in Nat /\ (x \div d) * d <= x
    BY DivBounds
  <2>2. (x \div d) * d < n * d
    BY <1>1, <2>1
  <2> QED BY <1>1, <2>1, <2>2
<1> HIDE DEF n
<1>5. QED BY <1>1, <1>2, <1>3, <1>4, SMTT(30) DEF n

\* Dividing twice is the same as dividing by the product.
LEMMA NestedDiv ==
  ASSUME NEW a \in Nat, NEW x \in Nat \ {0}, NEW y \in Nat \ {0}
  PROVE  /\ (a \div x) \div y \in Nat
         /\ ((a \div x) \div y) * y * x <= a
         /\ a < ((a \div x) \div y) * y * x + y * x
         /\ \A q \in Int : q * y * x <= a /\ a < q * y * x + y * x => (a \div x) \div y = q
<1> DEFINE q == a \div x
           p == q \div y
<1>1. q \in Nat /\ q * x <= a /\ a < q * x + x
  BY DivBounds, Zenon
<1>2. p \in Nat /\ p * y <= q /\ q + 1 <= p * y + y
  BY <1>1, DivBounds
<1>3. (p * y) * x <= q * x
  BY <1>1, <1>2, MulMono
<1>4. (q + 1) * x <= (p * y + y) * x
  BY <1>1, <1>2, MulMono
<1>5. p * y * x <= a /\ a < p * y * x + y * x
  BY <1>1, <1>2, <1>3, <1>4, MulAlgebra
<1>6. y * x \in Nat \ {0}
  OBVIOUS
<1>7. \A r \in Int : r * y * x = r * (y * x)
  BY MulAlgebra
<1>8. ASSUME NEW r \in Int, r * y * x <= a, a < r * y * x + y * x PROVE p = r
  <2> DEFINE z == y * x
  <2>1. p * z <= a /\ a < p * z + z /\ r * z <= a /\ a < r * z + z /\ z \in Nat \ {0}
    BY <1>2, <1>5, <1>6, <1>7, <1>8
  <2> HIDE DEF p, z
  <2>2. a \div z = r /\ a \div z = p
    BY <1>2, <2>1, DivUnique, SMTT(30)
  <2> QED BY <2>2, Zenon
<1> QED BY <1>2, <1>5, <1>8, Zenon

----------------------------------------------------------------------------
(* Least and greatest elements                                             *)

(* A set of naturals that is not empty has its least element.              *)
LEMMA MinNat ==
  ASSUME NEW S, S \subseteq Nat, S # {}
  PROVE  Min(S) \in S /\ \A y \in S : Min(S) <= y
<1> DEFINE R == OpToRel(<, Nat)
<1>1. IsWellFoundedOn(R, Nat)
  BY NatLessThanWellFounded, Zenon
<1>2. \A x, y \in Nat : x < y => <<x, y>> \in R
  BY Zenon DEF OpToRel
<1> HIDE DEF R
<1>3. PICK x \in S : \A y \in S : ~(<<y, x>> \in R)
  BY <1>1, WFMin, Zenon
<1>4. ASSUME NEW y \in S PROVE x <= y
  <2>1. x \in Nat /\ y \in Nat
    BY Zenon
  <2>2. ~(y < x)
    BY <1>2, <1>3, <2>1, Zenon
  <2> QED BY <2>1, <2>2
<1> QED BY <1>4, Zenon DEF Min

(* And its greatest, if it is bounded.                                     *)
LEMMA MaxNat ==
  ASSUME NEW S, S \subseteq Nat, S # {}, NEW n \in Nat, \A x \in S : x <= n
  PROVE  Max(S) \in S /\ \A y \in S : Max(S) >= y
<1> DEFINE D == {d \in 0 .. n : n - d \in S}
<1>1. D \subseteq Nat
  OBVIOUS
<1>2. \A x \in S : n - x \in D
  <2> TAKE x \in S
  <2>1. x \in Nat /\ x <= n
    BY Zenon
  <2>2. n - (n - x) = x /\ n - x \in 0 .. n
    BY <2>1
  <2> QED BY <2>2, Zenon
<1>3. D # {}
  BY <1>2, Zenon
<1>4. Min(D) \in D /\ \A y \in D : Min(D) <= y
  BY <1>1, <1>3, MinNat, Zenon
<1> DEFINE m == n - Min(D)
<1>5. m \in S /\ Min(D) \in Nat
  BY <1>4
<1>6. ASSUME NEW y \in S PROVE m >= y
  <2>1. Min(D) <= n - y
    BY <1>2, <1>4, Zenon
  <2> QED BY <1>5, <2>1
<1> QED BY <1>5, <1>6, Zenon DEF Max

----------------------------------------------------------------------------
(* Geometry                                                                *)

(* No level of the bitmap is empty.                                        *)
LEMMA SizesPositive ==
  /\ L0Slots \in Nat \ {0}
  /\ L0Slotsets \in Nat \ {0}
  /\ L1Slots \in Nat \ {0}
  /\ L1Slotsets \in Nat \ {0}
  /\ L2Slots \in Nat \ {0}
  /\ BitsPerSlotset \in Nat \ {0}
  /\ SlotsPerSlotset * EntriesPerSlot \in Nat \ {0}
  /\ BitsPerL1Slotset \in Nat \ {0}
<1> USE GeometryAssumption
<1>1. L0Slots \in Nat \ {0}
  BY CeilDivBounds, Zenon DEF L0Slots
<1>2. L0Slotsets \in Nat \ {0}
  BY <1>1, CeilDivBounds, Zenon DEF L0Slotsets
<1>3. L1Slots \in Nat \ {0}
  BY <1>2, CeilDivBounds, Zenon DEF L1Slots
<1>4. L1Slotsets \in Nat \ {0}
  BY <1>3, CeilDivBounds, Zenon DEF L1Slotsets
<1>5. L2Slots \in Nat \ {0}
  BY <1>4, CeilDivBounds, Zenon DEF L2Slots
<1>6. BitsPerSlotset \in Nat \ {0} /\ SlotsPerSlotset * EntriesPerSlot \in Nat \ {0}
  BY DEF BitsPerSlotset
<1>7. BitsPerL1Slotset \in Nat \ {0}
  BY <1>6 DEF BitsPerL1Slotset
<1> QED BY <1>1, <1>2, <1>3, <1>4, <1>5, <1>6, <1>7, Zenon

\* The slotset of a block is the interval of BitsPerSlotset blocks it lies in.
LEMMA SlotsetInterval ==
  ASSUME NEW b \in Nat
  PROVE  /\ SlotsetOf(b) \in Nat
         /\ SlotsetOf(b) * SlotsPerSlotset * BitsPerSlot <= b
         /\ b < SlotsetOf(b) * SlotsPerSlotset * BitsPerSlot + BitsPerSlotset
         /\ \A s \in Int : /\ s * SlotsPerSlotset * BitsPerSlot <= b
                           /\ b < s * SlotsPerSlotset * BitsPerSlot + BitsPerSlotset
                           => SlotsetOf(b) = s
BY NestedDiv, GeometryAssumption, Zenon DEF SlotsetOf, BitsPerSlotset

(* The level-1 entries of a level-1 slotset are an interval.               *)
LEMMA L1SlotsetInterval ==
  ASSUME NEW s \in Nat
  PROVE  /\ L1SlotsetOf(s) \in Nat
         /\ L1SlotsetOf(s) * SlotsPerSlotset * EntriesPerSlot <= s
         /\ s < L1SlotsetOf(s) * SlotsPerSlotset * EntriesPerSlot
                  + SlotsPerSlotset * EntriesPerSlot
         /\ \A e \in Int : /\ e * SlotsPerSlotset * EntriesPerSlot <= s
                           /\ s < e * SlotsPerSlotset * EntriesPerSlot
                                    + SlotsPerSlotset * EntriesPerSlot
                           => L1SlotsetOf(s) = e
BY NestedDiv, GeometryAssumption, Zenon DEF L1SlotsetOf

(* A later block is not in an earlier slotset.                             *)
LEMMA SlotsetMono ==
  /\ \A a, b \in Nat : a <= b => SlotsetOf(a) <= SlotsetOf(b)
  /\ \A s, t \in Nat : s <= t => L1SlotsetOf(s) <= L1SlotsetOf(t)
<1> USE GeometryAssumption
<1>1. ASSUME NEW a \in Nat, NEW b \in Nat, a <= b PROVE SlotsetOf(a) <= SlotsetOf(b)
  <2>1. a \div BitsPerSlot \in Nat /\ b \div BitsPerSlot \in Nat
    BY DivBounds, Zenon
  <2>2. a \div BitsPerSlot <= b \div BitsPerSlot
    BY <1>1, DivMono, Zenon
  <2> QED BY <2>1, <2>2, DivMono, Zenon DEF SlotsetOf
<1>2. ASSUME NEW s \in Nat, NEW t \in Nat, s <= t PROVE L1SlotsetOf(s) <= L1SlotsetOf(t)
  <2>1. s \div EntriesPerSlot \in Nat /\ t \div EntriesPerSlot \in Nat
    BY DivBounds, Zenon
  <2>2. s \div EntriesPerSlot <= t \div EntriesPerSlot
    BY <1>2, DivMono, Zenon
  <2> QED BY <2>1, <2>2, DivMono, Zenon DEF L1SlotsetOf
<1> QED BY <1>1, <1>2, Zenon

\* Every block has a word, a slotset with an L1 entry, and every L1 entry,
\* padding included, has an L2 entry that is not padding.
LEMMA IndexRanges ==
  /\ \A b \in Blocks : /\ b \in Nat
                       /\ b \div BitsPerSlot \in 0 .. L0Slots - 1
                       /\ SlotsetOf(b) \in 0 .. L0Slotsets - 1
                       /\ SlotsetOf(b) \in L1Entries
  /\ 0 .. L0Slotsets - 1 \subseteq L1Entries
  /\ \A s \in L1Entries : /\ s \in Nat
                          /\ s \div EntriesPerSlot \in 0 .. L1Slots - 1
                          /\ L1SlotsetOf(s) \in 0 .. L1Slotsets - 1
                          /\ L1SlotsetOf(s) \in L2Entries
  /\ 0 .. L1Slotsets - 1 \subseteq L2Entries
<1> USE GeometryAssumption, SizesPositive
<1>1. ASSUME NEW b \in Blocks
      PROVE  b \in Nat /\ b \div BitsPerSlot \in 0 .. L0Slots - 1
                       /\ SlotsetOf(b) \in 0 .. L0Slotsets - 1
  <2>1. b \in Nat /\ b \in 0 .. Total - 1
    BY DEF Blocks
  <2>2. b \div BitsPerSlot \in Nat /\ b \div BitsPerSlot < L0Slots
    BY <2>1, CeilDivBounds, DivBounds, Zenon DEF L0Slots
  <2>3. \A w \in 0 .. L0Slots - 1 : w \div SlotsPerSlotset < L0Slotsets
    BY CeilDivBounds, Zenon DEF L0Slotsets
  <2>4. SlotsetOf(b) < L0Slotsets
    BY <2>2, <2>3 DEF SlotsetOf
  <2>5. SlotsetOf(b) \in Nat
    BY <2>1, SlotsetInterval, Zenon
  <2> QED BY <2>1, <2>2, <2>4, <2>5
<1>2. 0 .. L0Slotsets - 1 \subseteq L1Entries
  <2>1. L0Slotsets <= L1Slots * EntriesPerSlot
    BY CeilDivBounds, Zenon DEF L1Slots
  <2> QED BY <2>1 DEF L1Entries
<1>3. 0 .. L1Slotsets - 1 \subseteq L2Entries
  <2>1. L1Slotsets <= L2Slots * EntriesPerSlot
    BY CeilDivBounds, Zenon DEF L2Slots
  <2> QED BY <2>1 DEF L2Entries
<1>4. ASSUME NEW s \in L1Entries
      PROVE  s \in Nat /\ s \div EntriesPerSlot \in 0 .. L1Slots - 1
                       /\ L1SlotsetOf(s) \in 0 .. L1Slotsets - 1
  <2>1. s \in Nat /\ s < L1Slots * EntriesPerSlot
    BY DEF L1Entries
  <2>2. s \div EntriesPerSlot \in Nat /\ (s \div EntriesPerSlot) * EntriesPerSlot <= s
    BY <2>1, DivBounds, Zenon
  <2>3. s \div EntriesPerSlot < L1Slots
    BY <2>1, <2>2
  <2>4. \A k \in 0 .. L1Slots - 1 : k \div SlotsPerSlotset < L1Slotsets
    BY CeilDivBounds, Zenon DEF L1Slotsets
  <2>5. L1SlotsetOf(s) < L1Slotsets
    BY <2>2, <2>3, <2>4 DEF L1SlotsetOf
  <2>6. L1SlotsetOf(s) \in Nat
    BY <2>1, L1SlotsetInterval, Zenon
  <2> QED BY <2>1, <2>2, <2>3, <2>5, <2>6
<1> QED BY <1>1, <1>2, <1>3, <1>4, Zenon

----------------------------------------------------------------------------
(* What a summary entry says                                               *)

(* The valid bits of a level-0 word are the blocks that it holds.          *)
LEMMA WordMaskMeaning ==
  ASSUME NEW w \in Nat
  PROVE  \A b : b \in ValidWordMask(w) <=> b \in Blocks /\ b \div BitsPerSlot = w
<1> USE GeometryAssumption
<1>1. ASSUME NEW b \in ValidWordMask(w) PROVE b \in Blocks /\ b \div BitsPerSlot = w
  <2>1. b \in Int /\ w * BitsPerSlot <= b /\ b < w * BitsPerSlot + BitsPerSlot /\ b < Total
    BY DEF ValidWordMask
  <2>2. b \in Nat
    BY <2>1
  <2> QED BY <2>1, <2>2, DivUnique DEF Blocks
<1>2. ASSUME NEW b \in Blocks, b \div BitsPerSlot = w PROVE b \in ValidWordMask(w)
  <2>1. b \in Nat /\ b < Total
    BY DEF Blocks
  <2>2. w * BitsPerSlot <= b /\ b < w * BitsPerSlot + BitsPerSlot
    BY <1>2, <2>1, DivBounds, Zenon
  <2> QED BY <2>1, <2>2 DEF ValidWordMask
<1> QED BY <1>1, <1>2, Zenon

(* A level-1 entry sums up the blocks of its slotset.                      *)
LEMMA L1EntryMeaning ==
  ASSUME NEW bits, NEW s \in Nat
  PROVE  L1EntryOf(bits, s)
           = Entry(\A b \in Blocks : SlotsetOf(b) = s => b \in bits,
                   \A b \in Blocks : SlotsetOf(b) = s => b \notin bits)
<1> USE GeometryAssumption, SizesPositive
<1> DEFINE words == s * SlotsPerSlotset ..
                      MinInt(s * SlotsPerSlotset + SlotsPerSlotset, L0Slots) - 1
<1>1. \A w : w \in words <=> w \in 0 .. L0Slots - 1 /\ w \div SlotsPerSlotset = s
  <2>1. ASSUME NEW w \in words PROVE w \in 0 .. L0Slots - 1 /\ w \div SlotsPerSlotset = s
    <3>1. w \in Nat /\ w < L0Slots /\ s * SlotsPerSlotset <= w
                    /\ w < s * SlotsPerSlotset + SlotsPerSlotset
      BY DEF MinInt
    <3> QED BY <3>1, DivUnique
  <2>2. ASSUME NEW w \in 0 .. L0Slots - 1, w \div SlotsPerSlotset = s PROVE w \in words
    <3>1. w \in Nat /\ s * SlotsPerSlotset <= w /\ w < s * SlotsPerSlotset + SlotsPerSlotset
      BY <2>2, DivBounds
    <3> QED BY <3>1 DEF MinInt
  <2> QED BY <2>1, <2>2, Zenon
<1> HIDE DEF words
<1>2. \A b : (\E w \in words : b \in ValidWordMask(w)) <=> (b \in Blocks /\ SlotsetOf(b) = s)
  <2>1. ASSUME NEW w \in words, NEW b \in ValidWordMask(w)
        PROVE  b \in Blocks /\ SlotsetOf(b) = s
    <3>1. w \in Nat /\ w \div SlotsPerSlotset = s
      BY <1>1
    <3> QED BY <3>1, WordMaskMeaning, Zenon DEF SlotsetOf
  <2>2. ASSUME NEW b \in Blocks, SlotsetOf(b) = s
        PROVE  \E w \in words : b \in ValidWordMask(w)
    <3> DEFINE w == b \div BitsPerSlot
    <3>1. w \in 0 .. L0Slots - 1
      BY IndexRanges, Zenon
    <3>2. w \div SlotsPerSlotset = s
      BY <2>2, Zenon DEF SlotsetOf
    <3>3. b \in ValidWordMask(w)
      BY <3>1, WordMaskMeaning
    <3> QED BY <1>1, <3>1, <3>2, <3>3, Zenon
  <2> QED BY <2>1, <2>2, Zenon
<1>3. (\A w \in words : ValidWordMask(w) \subseteq bits)
         <=> (\A b \in Blocks : SlotsetOf(b) = s => b \in bits)
  BY <1>2, Zenon
<1>4. (\A w \in words : ValidWordMask(w) \cap bits = {})
         <=> (\A b \in Blocks : SlotsetOf(b) = s => b \notin bits)
  BY <1>2, Zenon
<1>5. L1EntryOf(bits, s) = Entry(\A w \in words : ValidWordMask(w) \subseteq bits,
                                 \A w \in words : ValidWordMask(w) \cap bits = {})
  BY Zenon DEF L1EntryOf, words
<1> QED BY <1>3, <1>4, <1>5, Zenon DEF Entry

(* A level-2 entry sums up the level-1 entries of its slotset.             *)
LEMMA L2EntryMeaning ==
  ASSUME NEW entries, NEW e \in Nat
  PROVE  L2EntryOf(entries, e)
           = Entry(\A s \in L1Entries : L1SlotsetOf(s) = e => entries[s] = FREE,
                   \A s \in L1Entries : L1SlotsetOf(s) = e => entries[s] = FULL)
<1> USE GeometryAssumption, SizesPositive
<1> DEFINE words == e * SlotsPerSlotset ..
                      MinInt(e * SlotsPerSlotset + SlotsPerSlotset, L1Slots) - 1
           WE(k) == k * EntriesPerSlot .. k * EntriesPerSlot + EntriesPerSlot - 1
<1>1. \A k : k \in words <=> k \in 0 .. L1Slots - 1 /\ k \div SlotsPerSlotset = e
  <2>1. ASSUME NEW k \in words PROVE k \in 0 .. L1Slots - 1 /\ k \div SlotsPerSlotset = e
    <3>1. k \in Nat /\ k < L1Slots /\ e * SlotsPerSlotset <= k
                    /\ k < e * SlotsPerSlotset + SlotsPerSlotset
      BY DEF MinInt
    <3> QED BY <3>1, DivUnique
  <2>2. ASSUME NEW k \in 0 .. L1Slots - 1, k \div SlotsPerSlotset = e PROVE k \in words
    <3>1. k \in Nat /\ e * SlotsPerSlotset <= k /\ k < e * SlotsPerSlotset + SlotsPerSlotset
      BY <2>2, DivBounds
    <3> QED BY <3>1 DEF MinInt
  <2> QED BY <2>1, <2>2, Zenon
<1>2. ASSUME NEW k \in 0 .. L1Slots - 1
      PROVE  \A s : s \in WE(k) <=> s \in L1Entries /\ s \div EntriesPerSlot = k
  <2>1. ASSUME NEW s \in WE(k) PROVE s \in L1Entries /\ s \div EntriesPerSlot = k
    <3>1. s \in Nat /\ k * EntriesPerSlot <= s /\ s < k * EntriesPerSlot + EntriesPerSlot
      OBVIOUS
    <3>2. (k + 1) * EntriesPerSlot <= L1Slots * EntriesPerSlot
      BY MulMono
    <3>3. (k + 1) * EntriesPerSlot = k * EntriesPerSlot + EntriesPerSlot
      OBVIOUS
    <3>4. s < L1Slots * EntriesPerSlot
      BY <3>1, <3>2, <3>3
    <3> QED BY <3>1, <3>4, DivUnique DEF L1Entries
  <2>2. ASSUME NEW s \in L1Entries, s \div EntriesPerSlot = k PROVE s \in WE(k)
    <3>1. s \in Nat
      BY IndexRanges, Zenon
    <3>2. k * EntriesPerSlot <= s /\ s < k * EntriesPerSlot + EntriesPerSlot
      BY <2>2, <3>1, DivBounds, Zenon
    <3> QED BY <3>1, <3>2
  <2> QED BY <2>1, <2>2, Zenon
<1> HIDE DEF words, WE
<1>3. \A s : (\E k \in words : s \in WE(k)) <=> (s \in L1Entries /\ L1SlotsetOf(s) = e)
  <2>1. ASSUME NEW k \in words, NEW s \in WE(k)
        PROVE  s \in L1Entries /\ L1SlotsetOf(s) = e
    BY <1>1, <1>2, Zenon DEF L1SlotsetOf
  <2>2. ASSUME NEW s \in L1Entries, L1SlotsetOf(s) = e
        PROVE  \E k \in words : s \in WE(k)
    <3>1. s \div EntriesPerSlot \in 0 .. L1Slots - 1
      BY IndexRanges, Zenon
    <3>2. s \div EntriesPerSlot \in words
      BY <1>1, <2>2, <3>1, Zenon DEF L1SlotsetOf
    <3> QED BY <1>2, <3>1, <3>2, Zenon
  <2> QED BY <2>1, <2>2, Zenon
<1>4. (\A k \in words : \A s \in WE(k) : entries[s] = FREE)
         <=> (\A s \in L1Entries : L1SlotsetOf(s) = e => entries[s] = FREE)
  BY <1>3, Zenon
<1>5. (\A k \in words : \A s \in WE(k) : entries[s] = FULL)
         <=> (\A s \in L1Entries : L1SlotsetOf(s) = e => entries[s] = FULL)
  BY <1>3, Zenon
<1>6. L2EntryOf(entries, e) = Entry(\A k \in words : \A s \in WE(k) : entries[s] = FREE,
                                    \A k \in words : \A s \in WE(k) : entries[s] = FULL)
  BY Zenon DEF L2EntryOf, words, WE
<1> QED BY <1>4, <1>5, <1>6, Zenon DEF Entry

----------------------------------------------------------------------------
(* What markRangeLocked touches                                            *)

(* The masks that Mark sets, word by word, are together the range, and     *)
(* nothing outside the device.                                             *)
LEMMA MarkMaskMeaning ==
  ASSUME NEW r \in Extents, ValidRange(r)
  PROVE  /\ MarkMask(r) = r.offset .. EndOf(r) - 1
         /\ MarkMask(r) \subseteq Blocks
<1> USE GeometryAssumption, SizesPositive
<1>1. r.offset \in Nat /\ r.size \in Nat \ {0} /\ EndOf(r) \in Nat /\ EndOf(r) <= Total
      /\ EndOf(r) - 1 \in Nat
  BY DEF ValidRange, EndOf, Extents
<1>2. r.offset .. EndOf(r) - 1 \subseteq Blocks
  BY <1>1 DEF Blocks
<1>3. ASSUME NEW b \in r.offset .. EndOf(r) - 1 PROVE b \in MarkMask(r)
  <2> DEFINE w == b \div BitsPerSlot
  <2>1. b \in Blocks /\ b \in Nat /\ r.offset <= b /\ b <= EndOf(r) - 1
    BY <1>1, <1>2
  <2>2. w \in 0 .. L0Slots - 1
    BY <2>1, IndexRanges, Zenon
  <2>3. StartWord(r) <= w /\ w <= EndWord(r)
    BY <1>1, <2>1, DivMono, Zenon DEF StartWord, EndWord
  <2>4. b \in ValidWordMask(w)
    BY <2>1, <2>2, WordMaskMeaning
  <2>5. w * BitsPerSlot <= b /\ b < w * BitsPerSlot + BitsPerSlot
    BY <2>1, DivBounds, Zenon
  <2>6. StartWord(r) \in Nat /\ EndWord(r) \in Nat
    BY <1>1, DivBounds, Zenon DEF StartWord, EndWord
  <2> HIDE DEF w
  <2>7. b \in RangeMask(r, w)
    BY <1>1, <2>1, <2>2, <2>5 DEF RangeMask, MaxInt, MinInt
  <2>8. w \in StartWord(r) .. MinInt(EndWord(r), L0Slots - 1)
    BY <2>2, <2>3, <2>6 DEF MinInt
  <2> QED BY <2>4, <2>7, <2>8 DEF MarkMask
<1>4. ASSUME NEW b \in MarkMask(r) PROVE b \in r.offset .. EndOf(r) - 1
  <2>1. PICK w \in StartWord(r) .. MinInt(EndWord(r), L0Slots - 1) :
               b \in RangeMask(r, w) /\ b \in ValidWordMask(w)
    BY Zenon DEF MarkMask
  <2>2. w \in Int
    BY <1>1, DivBounds DEF StartWord, EndWord
  <2> QED BY <1>1, <2>1, <2>2 DEF RangeMask, MaxInt, MinInt
<1> QED BY <1>2, <1>3, <1>4, Zenon

(* Mark recomputes the entry of every slotset a block of the range is in,  *)
(* on both levels.                                                         *)
LEMMA TouchedSlotsets ==
  ASSUME NEW r \in Extents, ValidRange(r)
  PROVE  /\ \A b \in r.offset .. EndOf(r) - 1 : TouchesSlotset(r, SlotsetOf(b))
         /\ \A s \in L1Entries : TouchesSlotset(r, s) =>
               s < L0Slotsets /\ TouchesL1Slotset(r, L1SlotsetOf(s))
         /\ \A e \in L2Entries : TouchesL1Slotset(r, e) => e < L1Slotsets
<1> USE GeometryAssumption, SizesPositive
<1> DEFINE s1 == SlotsetOf(r.offset)
           s2 == SlotsetOf(EndOf(r) - 1)
<1>1. r.offset \in Blocks /\ EndOf(r) - 1 \in Blocks
  BY DEF ValidRange, EndOf, Extents, Blocks
<1>2. s1 \in 0 .. L0Slotsets - 1 /\ s2 \in 0 .. L0Slotsets - 1 /\ s1 \in L1Entries /\ s2 \in L1Entries
  BY <1>1, IndexRanges, Zenon
<1>3. L1SlotsetOf(s1) \in 0 .. L1Slotsets - 1 /\ L1SlotsetOf(s2) \in 0 .. L1Slotsets - 1
  BY <1>2, IndexRanges, Zenon
<1>4. \A s : TouchesSlotset(r, s) <=> s1 <= s /\ s <= s2
  BY Zenon DEF TouchesSlotset, StartWord, EndWord, SlotsetOf
<1>5. \A e : TouchesL1Slotset(r, e) <=> /\ L1SlotsetOf(s1) <= e /\ e <= L1SlotsetOf(s2)
                                        /\ e * SlotsPerSlotset < L1Slots
  BY Zenon DEF TouchesL1Slotset, StartWord, EndWord, SlotsetOf
<1> HIDE DEF s1, s2
<1>6. ASSUME NEW b \in r.offset .. EndOf(r) - 1 PROVE TouchesSlotset(r, SlotsetOf(b))
  <2>1. b \in Nat /\ r.offset \in Nat /\ EndOf(r) - 1 \in Nat /\ r.offset <= b /\ b <= EndOf(r) - 1
    BY <1>1 DEF Blocks
  <2>2. s1 <= SlotsetOf(b) /\ SlotsetOf(b) <= s2
    BY <2>1, SlotsetMono, Zenon DEF s1, s2
  <2> QED BY <2>2, <1>4, Zenon
<1>7. ASSUME NEW s \in L1Entries, TouchesSlotset(r, s)
      PROVE  s < L0Slotsets /\ TouchesL1Slotset(r, L1SlotsetOf(s))
  <2>1. s \in Nat /\ s1 <= s /\ s <= s2
    BY <1>4, <1>7, IndexRanges, Zenon
  <2>2. L1SlotsetOf(s1) <= L1SlotsetOf(s) /\ L1SlotsetOf(s) <= L1SlotsetOf(s2)
    BY <1>2, <2>1, SlotsetMono
  <2>3. L1SlotsetOf(s) \in 0 .. L1Slotsets - 1
    BY IndexRanges, Zenon
  <2>4. L1SlotsetOf(s) * SlotsPerSlotset <= (L1Slotsets - 1) * SlotsPerSlotset
    BY <2>3, MulMono
  <2>5. (L1Slotsets - 1) * SlotsPerSlotset < L1Slots
    BY CeilDivBounds, Zenon DEF L1Slotsets
  <2>6. L1SlotsetOf(s) * SlotsPerSlotset < L1Slots
    BY <2>3, <2>4, <2>5
  <2>7. s < L0Slotsets
    BY <1>2, <2>1
  <2> QED BY <1>5, <2>2, <2>6, <2>7, Zenon
<1>8. ASSUME NEW e \in L2Entries, TouchesL1Slotset(r, e) PROVE e < L1Slotsets
  BY <1>3, <1>5, <1>8 DEF L2Entries
<1> QED BY <1>6, <1>7, <1>8, Zenon

----------------------------------------------------------------------------
(* The search finds the first free block, and a run that starts there      *)

\* run is what a search among the candidate blocks S has to return.
IsFirstRun(run, S, limit) ==
    /\ run \in Extents
    /\ S = {} => run = NoRun
    /\ S # {} => /\ run.offset \in S
                 /\ \A b \in S : run.offset <= b
                 /\ run.size \in 1 .. limit
                 /\ run.offset .. EndOf(run) - 1 \subseteq l0

(* The scan of level-0 words returns the first free block of its window    *)
(* and a run that starts there.                                            *)
LEMMA ScanL0Finds ==
  ASSUME l0 \subseteq Blocks, NEW f \in Nat, NEW t \in Int, NEW limit \in Nat \ {0}
  PROVE  IsFirstRun(ScanL0(f, t, limit), {b \in l0 : f <= b /\ b < t}, limit)
<1> DEFINE hits == {b \in l0 : f <= b /\ b < t}
           first == Min(hits)
           sizes == {n \in 1 .. limit : first .. first + n - 1 \subseteq l0}
<1>1. CASE hits = {}
  BY <1>1 DEF ScanL0, IsFirstRun, NoRun, Extent, Extents
<1>2. CASE hits # {}
  <2>1. hits \subseteq Nat
    <3>1. \A b \in Blocks : b \in Nat
      BY IndexRanges, Zenon
    <3> QED BY <3>1, Zenon
  <2>2. first \in hits /\ \A b \in hits : first <= b
    BY <1>2, <2>1, MinNat, Zenon
  <2>3. first \in Nat /\ first \in l0
    BY <2>1, <2>2, Zenon
  <2> HIDE DEF first
  <2>4. 1 \in sizes
    BY <2>3
  <2>5. sizes \subseteq Nat /\ sizes # {} /\ \A n \in sizes : n <= limit
    BY <2>4
  <2>6. Max(sizes) \in sizes
    BY <2>5, MaxNat, Zenon
  <2>7. ScanL0(f, t, limit) = Extent(first, Max(sizes))
    BY <1>2, Zenon DEF ScanL0, first
  <2>8. Max(sizes) \in 1 .. limit /\ first .. first + Max(sizes) - 1 \subseteq l0
    BY <2>6, Zenon
  <2> HIDE DEF hits, sizes
  <2>9. Max(sizes) \in Int
    BY <2>8
  <2>10. IsFirstRun(Extent(first, Max(sizes)), hits, limit)
    BY <1>2, <2>2, <2>3, <2>8, <2>9 DEF IsFirstRun, Extent, Extents, EndOf
  <2> QED BY <2>7, <2>10, Zenon DEF hits
<1> QED BY <1>1, <1>2, Zenon

(* So does the short cut for an entry that is FREE.                        *)
LEMMA FreeEntryRunFinds ==
  ASSUME l0 \subseteq Blocks, NEW start \in Nat, NEW end \in Int, NEW f \in Nat,
         NEW limit \in Nat \ {0},
         \A b \in Blocks : start <= b /\ b < end => b \in l0,
         start < end, start < Total, f < end, f < Total
  PROVE  IsFirstRun(FreeEntryRun(start, end, f, limit),
                    {b \in l0 : f <= b /\ start <= b /\ b < end}, limit)
<1> USE GeometryAssumption
<1> DEFINE a == MaxInt(start, f)
           z == MinInt(end, Total)
           sz == MinInt(limit, z - a)
           S == {b \in l0 : f <= b /\ start <= b /\ b < end}
<1>1. a \in Nat /\ z \in Int /\ a < z /\ z <= Total /\ z <= end /\ start <= a /\ f <= a
  BY DEF MaxInt, MinInt
<1>2. a \in S
  BY <1>1 DEF Blocks
<1>3. \A b \in S : a <= b
  BY Zenon DEF MaxInt
<1>4. sz \in 1 .. limit /\ sz <= z - a
  BY <1>1 DEF MinInt
<1>5. FreeEntryRun(start, end, f, limit) = Extent(a, sz)
  BY <1>4 DEF FreeEntryRun
<1> HIDE DEF a, z, sz
<1>6. a .. a + sz - 1 \subseteq l0
  BY <1>1, <1>4 DEF Blocks
<1> HIDE DEF S
<1>7. IsFirstRun(Extent(a, sz), S, limit)
  BY <1>1, <1>2, <1>3, <1>4, <1>6 DEF IsFirstRun, Extent, Extents, EndOf
<1> QED BY <1>5, <1>7, Zenon DEF S

\* What the search concludes from an L1 entry.
LEMMA L1EntryFacts ==
  ASSUME TypeOK, SummariesExact, NEW s \in L1Entries
  PROVE  /\ l1[s] \in {FULL, PARTIAL, FREE}
         /\ l1[s] = FULL => \A b \in l0 : SlotsetOf(b) # s
         /\ l1[s] # FULL => s < L0Slotsets
         /\ l1[s] = FREE => \A b \in Blocks : SlotsetOf(b) = s => b \in l0
<1>1. s \in Nat /\ l0 \subseteq Blocks /\ l1[s] \in {FULL, PARTIAL, FREE}
  BY IndexRanges, Zenon DEF TypeOK
<1>2. CASE s < L0Slotsets
  <2>1. l1[s] = Entry(\A b \in Blocks : SlotsetOf(b) = s => b \in l0,
                      \A b \in Blocks : SlotsetOf(b) = s => b \notin l0)
    BY <1>1, <1>2, L1EntryMeaning, Zenon DEF SummariesExact
  <2> QED BY <1>1, <1>2, <2>1, Zenon DEF Entry, FULL, PARTIAL, FREE
<1>3. CASE ~(s < L0Slotsets)
  <2>1. l1[s] = FULL
    BY <1>3, Zenon DEF SummariesExact
  <2>2. \A b \in Blocks : SlotsetOf(b) # s
    BY <1>1, <1>3, IndexRanges, SizesPositive
  <2> QED BY <1>1, <2>1, <2>2, Zenon DEF FULL, FREE
<1> QED BY <1>2, <1>3, Zenon

(* What a level-2 entry says of the level-1 entries below it.              *)
LEMMA L2EntryFacts ==
  ASSUME TypeOK, SummariesExact, NEW e \in L2Entries
  PROVE  /\ l2[e] \in {FULL, PARTIAL, FREE}
         /\ l2[e] = FULL => \A s \in L1Entries : L1SlotsetOf(s) = e => l1[s] = FULL
         /\ l2[e] # FULL => e < L1Slotsets
         /\ l2[e] = FREE => \A s \in L1Entries : L1SlotsetOf(s) = e => l1[s] = FREE
<1>1. e \in Nat /\ l2[e] \in {FULL, PARTIAL, FREE}
  BY DEF TypeOK, L2Entries
<1>2. CASE e < L1Slotsets
  <2>1. l2[e] = Entry(\A s \in L1Entries : L1SlotsetOf(s) = e => l1[s] = FREE,
                      \A s \in L1Entries : L1SlotsetOf(s) = e => l1[s] = FULL)
    BY <1>1, <1>2, L2EntryMeaning, ZenonT(60) DEF SummariesExact
  <2> QED BY <1>1, <1>2, <2>1, Zenon DEF Entry, FULL, PARTIAL, FREE
<1>3. CASE ~(e < L1Slotsets)
  <2>1. l2[e] = FULL
    BY <1>3, Zenon DEF SummariesExact
  <2>2. \A s \in L1Entries : L1SlotsetOf(s) # e
    BY <1>1, <1>3, IndexRanges, SizesPositive
  <2> QED BY <1>1, <2>1, <2>2, Zenon DEF FULL, FREE
<1> QED BY <1>2, <1>3, Zenon

\* The first block of a slotset that is not padding is inside the device.
LEMMA SlotsetStart ==
  ASSUME NEW s \in 0 .. L0Slotsets - 1
  PROVE  /\ s * SlotsPerSlotset * BitsPerSlot \in Nat
         /\ s * SlotsPerSlotset * BitsPerSlot < Total
<1> USE GeometryAssumption, SizesPositive
<1>1. s * SlotsPerSlotset <= (L0Slotsets - 1) * SlotsPerSlotset
  BY MulMono
<1>2. (L0Slotsets - 1) * SlotsPerSlotset < L0Slots
  BY CeilDivBounds, Zenon DEF L0Slotsets
<1>3. s * SlotsPerSlotset \in Nat /\ s * SlotsPerSlotset <= L0Slots - 1
  BY <1>1, <1>2
<1> DEFINE w == s * SlotsPerSlotset
<1> HIDE DEF w
<1>4. w * BitsPerSlot <= (L0Slots - 1) * BitsPerSlot /\ w * BitsPerSlot \in Nat
  BY <1>3, MulMono DEF w
<1>5. (L0Slots - 1) * BitsPerSlot < Total
  BY CeilDivBounds, Zenon DEF L0Slots
<1> QED BY <1>3, <1>4, <1>5, SMTT(30) DEF w

(* The search in one level-1 entry.                                        *)
LEMMA L1RunFinds ==
  ASSUME TypeOK, SummariesExact, NEW s \in L1Entries, NEW f \in Blocks,
         SlotsetOf(f) <= s, NEW limit \in Nat \ {0}
  PROVE  IsFirstRun(L1Run(s, f, limit), {b \in l0 : f <= b /\ SlotsetOf(b) = s}, limit)
<1> USE GeometryAssumption, SizesPositive
<1> DEFINE start == s * SlotsPerSlotset * BitsPerSlot
           S == {b \in l0 : f <= b /\ SlotsetOf(b) = s}
<1>1. l0 \subseteq Blocks /\ s \in Nat /\ f \in Nat /\ f < Total
  BY IndexRanges DEF TypeOK, Blocks
<1>2. CASE l1[s] = FULL
  <2>1. S = {}
    BY <1>2, L1EntryFacts, Zenon
  <2>2. L1Run(s, f, limit) = NoRun
    BY <1>2, Zenon DEF L1Run, FULL, FREE, PARTIAL
  <2> QED BY <2>1, <2>2 DEF IsFirstRun, NoRun, Extent, Extents
<1>3. ASSUME l1[s] # FULL
      PROVE  /\ start \in Nat /\ start < Total
             /\ \A b \in Blocks : SlotsetOf(b) = s <=> start <= b /\ b < start + BitsPerSlotset
             /\ f < start + BitsPerSlotset
  <2>1. s \in 0 .. L0Slotsets - 1
    BY <1>1, <1>3, L1EntryFacts
  <2>2. start \in Nat /\ start < Total
    BY <2>1, SlotsetStart, Zenon
  <2>3. ASSUME NEW b \in Blocks
        PROVE  SlotsetOf(b) = s <=> start <= b /\ b < start + BitsPerSlotset
    <3>1. b \in Nat /\ s \in Int
      BY <1>1, IndexRanges
    <3>2. CASE SlotsetOf(b) = s
      BY <3>1, <3>2, SlotsetInterval, Zenon
    <3>3. CASE start <= b /\ b < start + BitsPerSlotset
      BY <3>1, <3>3, SlotsetInterval, Zenon
    <3> QED BY <3>2, <3>3, Zenon
  <2>4. f < start + BitsPerSlotset
    <3>1. CASE SlotsetOf(f) = s
      BY <2>3, <3>1, Zenon
    <3>2. CASE SlotsetOf(f) < s
      <4>1. ~(start <= f)
        <5>1. SlotsetOf(start) = s
          BY <1>1, <2>2, SlotsetInterval
        <5>2. start <= f => SlotsetOf(start) <= SlotsetOf(f)
          BY <1>1, <2>2, SlotsetMono, Zenon
        <5>3. SlotsetOf(f) \in Nat
          BY <1>1, SlotsetInterval, Zenon
        <5> HIDE DEF start
        <5> QED BY <1>1, <3>2, <5>1, <5>2, <5>3
      <4> HIDE DEF start
      <4> QED BY <1>1, <2>2, <4>1
    <3>3. SlotsetOf(f) \in Nat
      BY <1>1, SlotsetInterval, Zenon
    <3> HIDE DEF start
    <3> QED BY <1>1, <3>1, <3>2, <3>3
  <2> QED BY <2>2, <2>3, <2>4, ZenonT(60)
<1>4. CASE l1[s] = FREE
  <2> DEFINE I == {b \in l0 : f <= b /\ start <= b /\ b < start + BitsPerSlotset}
  <2>1. l1[s] # FULL
    BY <1>4, Zenon DEF FREE, FULL
  <2>2. \A b \in Blocks : SlotsetOf(b) = s => b \in l0
    BY <1>4, L1EntryFacts, Zenon
  <2>3. L1Run(s, f, limit) = FreeEntryRun(start, start + BitsPerSlotset, f, limit)
    BY <1>4, Zenon DEF L1Run, FULL, FREE, PARTIAL
  <2>4. S = I
    BY <1>1, <1>3, <2>1, Zenon
  <2>5. start \in Nat /\ start < Total /\ f < start + BitsPerSlotset
        /\ \A b \in Blocks : start <= b /\ b < start + BitsPerSlotset => b \in l0
    BY <1>3, <2>1, <2>2, Zenon
  <2> HIDE DEF start
  <2>6. IsFirstRun(FreeEntryRun(start, start + BitsPerSlotset, f, limit), I, limit)
    BY <1>1, <2>5, FreeEntryRunFinds
  <2> QED BY <2>3, <2>4, <2>6, Zenon
<1>5. CASE l1[s] = PARTIAL
  <2> DEFINE t == MinInt(s * SlotsPerSlotset + SlotsPerSlotset, L0Slots) * BitsPerSlot
             m == MaxInt(start, f)
             I == {b \in l0 : m <= b /\ b < t}
  <2>1. l1[s] # FULL
    BY <1>5, Zenon DEF PARTIAL, FULL
  <2>2. L1Run(s, f, limit) = ScanL0(m, t, limit)
    BY <1>5, Zenon DEF L1Run, FULL, FREE, PARTIAL
  <2>3. t \in Int /\ \A b \in Blocks : b < t <=> b < start + BitsPerSlotset
    <3>1. L0Slots * BitsPerSlot >= Total
      BY CeilDivBounds, Zenon DEF L0Slots
    <3>2. (s * SlotsPerSlotset + SlotsPerSlotset) * BitsPerSlot = start + BitsPerSlotset
      BY <1>1, MulAlgebra DEF BitsPerSlotset
    <3>3. CASE s * SlotsPerSlotset + SlotsPerSlotset < L0Slots
      BY <1>1, <3>2, <3>3 DEF MinInt
    <3>4. CASE ~(s * SlotsPerSlotset + SlotsPerSlotset < L0Slots)
      <4>1. L0Slots * BitsPerSlot <= start + BitsPerSlotset
        BY <1>1, <3>2, <3>4, MulMono
      <4>2. t = L0Slots * BitsPerSlot
        BY <3>4, Zenon DEF MinInt
      <4>3. start + BitsPerSlotset \in Int /\ t \in Int
        BY <1>1, <4>2
      <4> HIDE DEF t, start
      <4> QED BY <3>1, <4>1, <4>2, <4>3, SMTT(30) DEF Blocks
    <3> QED BY <3>3, <3>4, Zenon
  <2>4. start \in Nat /\ m \in Nat /\ \A b \in Int : m <= b <=> start <= b /\ f <= b
    BY <1>1, <1>3, <2>1 DEF MaxInt
  <2> HIDE DEF t, m
  <2>5. S = I
    <3>1. \A b \in l0 : b \in Int /\ b \in Blocks
      BY <1>1 DEF Blocks
    <3> HIDE DEF start
    <3> QED BY <1>3, <2>1, <2>3, <2>4, <3>1, Zenon
  <2>6. IsFirstRun(ScanL0(m, t, limit), I, limit)
    BY <1>1, <2>3, <2>4, ScanL0Finds, Zenon
  <2> QED BY <2>2, <2>5, <2>6, Zenon
<1> QED BY <1>2, <1>4, <1>5, L1EntryFacts, ZenonT(60)

\* The L1 slotset of a block is the interval of BitsPerL1Slotset blocks it lies in.
LEMMA BlockL1Interval ==
  ASSUME NEW b \in Nat
  PROVE  /\ L1SlotsetOf(SlotsetOf(b)) \in Nat
         /\ L1SlotsetOf(SlotsetOf(b)) * BitsPerL1Slotset <= b
         /\ b < L1SlotsetOf(SlotsetOf(b)) * BitsPerL1Slotset + BitsPerL1Slotset
         /\ \A e \in Int : /\ e * BitsPerL1Slotset <= b
                           /\ b < e * BitsPerL1Slotset + BitsPerL1Slotset
                           => L1SlotsetOf(SlotsetOf(b)) = e
<1> USE GeometryAssumption, SizesPositive
<1> DEFINE x == BitsPerSlotset
           y == SlotsPerSlotset * EntriesPerSlot
<1>1. SlotsetOf(b) = b \div x
  <2> DEFINE q == SlotsetOf(b)
  <2>1. /\ q \in Nat /\ q * SlotsPerSlotset * BitsPerSlot <= b
        /\ b < q * SlotsPerSlotset * BitsPerSlot + BitsPerSlotset
    BY SlotsetInterval, Zenon
  <2>2. q * SlotsPerSlotset * BitsPerSlot = q * x
    BY <2>1, MulAlgebra DEF BitsPerSlotset
  <2>3. q * x <= b /\ b < q * x + x /\ x \in Nat \ {0}
    BY <2>1, <2>2, Zenon
  <2> HIDE DEF q, x
  <2>4. b \div x = q
    BY <2>1, <2>3, DivUnique
  <2> QED BY <2>4, Zenon DEF q
<1>2. ASSUME NEW s \in Nat PROVE L1SlotsetOf(s) = s \div y
  <2> DEFINE q == L1SlotsetOf(s)
  <2>1. /\ q \in Nat /\ q * SlotsPerSlotset * EntriesPerSlot <= s
        /\ s < q * SlotsPerSlotset * EntriesPerSlot + y
    BY L1SlotsetInterval, Zenon
  <2>2. q * SlotsPerSlotset * EntriesPerSlot = q * y
    BY <2>1, MulAlgebra
  <2>3. q * y <= s /\ s < q * y + y /\ y \in Nat \ {0}
    BY <2>1, <2>2, Zenon
  <2> HIDE DEF q, y
  <2>4. s \div y = q
    BY <2>1, <2>3, DivUnique
  <2> QED BY <2>4, Zenon DEF q
<1>3. BitsPerL1Slotset = y * x
  BY Zenon DEF BitsPerL1Slotset
<1>4. x \in Nat \ {0} /\ y \in Nat \ {0}
  BY Zenon
<1> HIDE DEF x, y
<1>5. SlotsetOf(b) \in Nat
  BY SlotsetInterval, Zenon
<1>6. L1SlotsetOf(SlotsetOf(b)) = (b \div x) \div y
  BY <1>1, <1>2, <1>5, Zenon
<1> DEFINE p == (b \div x) \div y
<1>7. /\ p \in Nat /\ p * y * x <= b /\ b < p * y * x + y * x
      /\ \A e \in Int : e * y * x <= b /\ b < e * y * x + y * x => p = e
  BY <1>4, NestedDiv, ZenonT(60)
<1>8. \A e \in Int : e * y * x = e * (y * x)
  BY <1>4, MulAlgebra
<1> HIDE DEF p
<1>9. /\ p \in Nat /\ p * BitsPerL1Slotset <= b /\ b < p * BitsPerL1Slotset + BitsPerL1Slotset
  BY <1>3, <1>7, <1>8
<1>10. \A e \in Int : /\ e * BitsPerL1Slotset <= b
                      /\ b < e * BitsPerL1Slotset + BitsPerL1Slotset
                      => p = e
  BY <1>3, <1>7, <1>8, Zenon
<1> QED BY <1>6, <1>9, <1>10, Zenon DEF p

\* The L1 entries the PARTIAL case of an L2 entry walks over.
LEMMA L1EntryRange ==
  ASSUME NEW e \in Nat, NEW s
  PROVE  s \in e * SlotsPerSlotset * EntriesPerSlot ..
                 MinInt(e * SlotsPerSlotset + SlotsPerSlotset, L1Slots) * EntriesPerSlot - 1
           <=> s \in L1Entries /\ L1SlotsetOf(s) = e
<1> USE GeometryAssumption, SizesPositive
<1> DEFINE k == e * SlotsPerSlotset
           m == MinInt(k + SlotsPerSlotset, L1Slots)
           y == SlotsPerSlotset * EntriesPerSlot
<1>1. k \in Nat /\ m \in Nat /\ m <= L1Slots /\ m <= k + SlotsPerSlotset
      /\ (m = L1Slots \/ m = k + SlotsPerSlotset)
  BY DEF MinInt
<1>2. (k + SlotsPerSlotset) * EntriesPerSlot = k * EntriesPerSlot + y
  BY <1>1, MulAlgebra
<1>3. k * EntriesPerSlot \in Nat
  BY <1>1
<1> HIDE DEF k, m
<1>4. m * EntriesPerSlot <= L1Slots * EntriesPerSlot
      /\ m * EntriesPerSlot <= (k + SlotsPerSlotset) * EntriesPerSlot /\ m * EntriesPerSlot \in Int
  BY <1>1, MulMono
<1>5. ASSUME s \in k * EntriesPerSlot .. m * EntriesPerSlot - 1
      PROVE  s \in L1Entries /\ L1SlotsetOf(s) = e
  <2>1. s \in Nat /\ s < L1Slots * EntriesPerSlot /\ k * EntriesPerSlot <= s
        /\ s < k * EntriesPerSlot + y
    BY <1>2, <1>3, <1>4, <1>5, SMTT(30)
  <2>2. L1SlotsetOf(s) = e
    BY <2>1, L1SlotsetInterval DEF k
  <2> QED BY <2>1, <2>2 DEF L1Entries
<1>6. ASSUME s \in L1Entries, L1SlotsetOf(s) = e
      PROVE  s \in k * EntriesPerSlot .. m * EntriesPerSlot - 1
  <2>1. s \in Nat /\ s < L1Slots * EntriesPerSlot
    BY <1>6 DEF L1Entries
  <2>2. k * EntriesPerSlot <= s /\ s < k * EntriesPerSlot + y
    BY <1>6, <2>1, L1SlotsetInterval, Zenon DEF k
  <2>3. s < m * EntriesPerSlot
    BY <1>1, <1>2, <2>1, <2>2, Zenon
  <2> QED BY <1>3, <1>4, <2>1, <2>2, <2>3
<1> QED BY <1>5, <1>6, Zenon DEF k, m

(* The search in one level-2 entry.                                        *)
LEMMA L2RunFinds ==
  ASSUME TypeOK, SummariesExact, NEW e \in L2Entries, NEW f \in Blocks,
         L1SlotsetOf(SlotsetOf(f)) <= e, NEW limit \in Nat \ {0}
  PROVE  IsFirstRun(L2Run(e, f, limit),
                    {b \in l0 : f <= b /\ L1SlotsetOf(SlotsetOf(b)) = e}, limit)
<1> USE GeometryAssumption, SizesPositive
<1> DEFINE S == {b \in l0 : f <= b /\ L1SlotsetOf(SlotsetOf(b)) = e}
           start == e * BitsPerL1Slotset
           E1 == e * SlotsPerSlotset * EntriesPerSlot ..
                   MinInt(e * SlotsPerSlotset + SlotsPerSlotset, L1Slots) * EntriesPerSlot - 1
           hits == {s \in E1 : s >= SlotsetOf(f) /\ L1Run(s, f, limit).size > 0}
<1>1. /\ l0 \subseteq Blocks /\ e \in Nat /\ f \in Nat /\ f < Total
      /\ \A b \in Blocks : b \in Nat /\ SlotsetOf(b) \in L1Entries /\ SlotsetOf(b) \in Nat
  <2>1. e \in Nat
    BY DEF L2Entries
  <2>2. \A b \in Blocks : b \in Nat /\ b < Total /\ SlotsetOf(b) \in L1Entries
    BY IndexRanges DEF Blocks
  <2>3. \A s \in L1Entries : s \in Nat
    BY IndexRanges, Zenon
  <2> QED BY <2>1, <2>2, <2>3, Zenon DEF TypeOK
<1>2. \A s : s \in E1 <=> s \in L1Entries /\ L1SlotsetOf(s) = e
  BY <1>1, L1EntryRange, Zenon
<1> HIDE DEF E1
<1>3. CASE l2[e] = FULL
  <2>1. S = {}
    BY <1>1, <1>3, L1EntryFacts, L2EntryFacts, Zenon
  <2>2. L2Run(e, f, limit) = NoRun
    BY <1>3, Zenon DEF L2Run, FULL, FREE, PARTIAL
  <2> QED BY <2>1, <2>2 DEF IsFirstRun, NoRun, Extent, Extents
<1>4. CASE l2[e] = FREE
  <2> DEFINE I == {b \in l0 : f <= b /\ start <= b /\ b < start + BitsPerL1Slotset}
             s0 == e * SlotsPerSlotset * EntriesPerSlot
  <2>1. e < L1Slotsets /\ \A s \in L1Entries : L1SlotsetOf(s) = e => l1[s] = FREE
    BY <1>4, L2EntryFacts, Zenon DEF FREE, FULL
  <2>2. start \in Nat /\ s0 \in Nat
    BY <1>1
  <2>3. s0 \in L1Entries /\ L1SlotsetOf(s0) = e
    <3>1. e * SlotsPerSlotset <= (L1Slotsets - 1) * SlotsPerSlotset
      BY <1>1, <2>1, MulMono
    <3>2. (L1Slotsets - 1) * SlotsPerSlotset < L1Slots
      BY CeilDivBounds, Zenon DEF L1Slotsets
    <3> DEFINE k == e * SlotsPerSlotset
               m == MinInt(k + SlotsPerSlotset, L1Slots)
    <3>3. k \in Nat /\ m \in Nat /\ k + 1 <= m
      BY <1>1, <3>1, <3>2 DEF MinInt
    <3> HIDE DEF k, m
    <3>4. (k + 1) * EntriesPerSlot <= m * EntriesPerSlot
      BY <3>3, MulMono
    <3>5. k * EntriesPerSlot < (k + 1) * EntriesPerSlot /\ (k + 1) * EntriesPerSlot \in Int
          /\ m * EntriesPerSlot \in Int
      BY <3>3
    <3>6. k * EntriesPerSlot \in k * EntriesPerSlot .. m * EntriesPerSlot - 1
      BY <3>3, <3>4, <3>5
    <3>7. s0 \in E1
      BY <3>6, Zenon DEF k, m, E1
    <3> QED BY <1>2, <3>7, Zenon
  <2>4. start < Total
    <3>1. l1[s0] = FREE
      BY <2>1, <2>3, Zenon
    <3>2. s0 < L0Slotsets
      BY <2>3, <3>1, L1EntryFacts, Zenon DEF FREE, FULL
    <3>3. s0 \in 0 .. L0Slotsets - 1
      BY <2>2, <3>2
    <3> DEFINE z == s0
    <3>4. start = s0 * SlotsPerSlotset * BitsPerSlot
      <4> DEFINE y == SlotsPerSlotset * EntriesPerSlot
      <4>1. s0 = e * y
        BY <1>1, MulAlgebra, SMTT(30)
      <4>2. s0 * SlotsPerSlotset * BitsPerSlot = s0 * BitsPerSlotset
        BY <2>2, MulAlgebra DEF BitsPerSlotset
      <4>3. start = e * (y * BitsPerSlotset)
        BY Zenon DEF BitsPerL1Slotset
      <4>4. y \in Int
        OBVIOUS
      <4> HIDE DEF y, s0, start
      <4>5. (e * y) * BitsPerSlotset = e * (y * BitsPerSlotset)
        BY <1>1, <4>4, MulAlgebra
      <4> QED BY <4>1, <4>2, <4>3, <4>5, Zenon
    <3> HIDE DEF s0, start
    <3> QED BY <3>3, <3>4, SlotsetStart, Zenon
  <2>5. \A b \in Blocks : L1SlotsetOf(SlotsetOf(b)) = e <=> start <= b /\ b < start + BitsPerL1Slotset
    <3> TAKE b \in Blocks
    <3>1. b \in Nat /\ e \in Int
      BY <1>1
    <3>2. CASE L1SlotsetOf(SlotsetOf(b)) = e
      BY <3>1, <3>2, BlockL1Interval, Zenon
    <3>3. CASE start <= b /\ b < start + BitsPerL1Slotset
      BY <3>1, <3>3, BlockL1Interval, Zenon
    <3> QED BY <3>2, <3>3, Zenon
  <2>6. f < start + BitsPerL1Slotset
    <3> DEFINE q == L1SlotsetOf(SlotsetOf(f))
    <3>1. q \in Nat /\ f < q * BitsPerL1Slotset + BitsPerL1Slotset
      BY <1>1, BlockL1Interval, Zenon
    <3>2. q <= e
      BY Zenon
    <3> HIDE DEF q
    <3>3. q * BitsPerL1Slotset <= e * BitsPerL1Slotset
      BY <1>1, <3>1, <3>2, MulMono, SMTT(30)
    <3>4. q * BitsPerL1Slotset \in Int
      BY <3>1
    <3> HIDE DEF start
    <3> QED BY <1>1, <2>2, <3>1, <3>3, <3>4 DEF start
  <2>7. \A b \in Blocks : start <= b /\ b < start + BitsPerL1Slotset => b \in l0
    <3>1. ASSUME NEW b \in Blocks, L1SlotsetOf(SlotsetOf(b)) = e PROVE b \in l0
      <4>1. l1[SlotsetOf(b)] = FREE
        BY <1>1, <2>1, <3>1, Zenon
      <4> QED BY <1>1, <4>1, L1EntryFacts, Zenon
    <3> HIDE DEF start
    <3> QED BY <2>5, <3>1, Zenon
  <2>8. S = I
    <3> HIDE DEF start
    <3> QED BY <1>1, <2>5, Zenon
  <2>9. L2Run(e, f, limit) = FreeEntryRun(start, start + BitsPerL1Slotset, f, limit)
    BY <1>4, Zenon DEF L2Run, FULL, FREE, PARTIAL
  <2> HIDE DEF start
  <2>10. IsFirstRun(FreeEntryRun(start, start + BitsPerL1Slotset, f, limit), I, limit)
    BY <1>1, <2>2, <2>4, <2>6, <2>7, FreeEntryRunFinds, SMTT(30)
  <2> QED BY <2>8, <2>9, <2>10, Zenon
<1>5. CASE l2[e] = PARTIAL
  <2> DEFINE T(s) == {b \in l0 : f <= b /\ SlotsetOf(b) = s}
  <2>1. L2Run(e, f, limit) = IF hits = {} THEN NoRun ELSE L1Run(Min(hits), f, limit)
    BY <1>5, Zenon DEF L2Run, FULL, FREE, PARTIAL, E1
  <2>2. SlotsetOf(f) \in Nat
    BY <1>1, Zenon
  <2>3. ASSUME NEW s \in E1, s >= SlotsetOf(f)
        PROVE  /\ s \in Nat
               /\ IsFirstRun(L1Run(s, f, limit), T(s), limit)
               /\ L1Run(s, f, limit).size > 0 <=> T(s) # {}
    <3>1. s \in L1Entries /\ s \in Nat /\ SlotsetOf(f) <= s
      BY <1>2, <2>2, <2>3, IndexRanges, Zenon
    <3>2. IsFirstRun(L1Run(s, f, limit), T(s), limit)
      BY <3>1, L1RunFinds, Zenon
    <3> HIDE DEF T
    <3> QED BY <3>1, <3>2 DEF IsFirstRun, NoRun, Extent
  <2>4. \A b \in S : SlotsetOf(b) \in E1 /\ SlotsetOf(b) >= SlotsetOf(f) /\ b \in T(SlotsetOf(b))
    <3> TAKE b \in S
    <3>1. b \in Nat /\ f <= b /\ SlotsetOf(b) \in L1Entries /\ L1SlotsetOf(SlotsetOf(b)) = e
          /\ SlotsetOf(b) \in Nat /\ b \in l0
      BY <1>1, Zenon
    <3>2. SlotsetOf(f) <= SlotsetOf(b)
      BY <1>1, <3>1, SlotsetMono, Zenon
    <3> QED BY <1>2, <2>2, <3>1, <3>2, Zenon
  <2>5. \A b \in S : SlotsetOf(b) \in hits
    BY <2>3, <2>4, Zenon
  <2>6. \A s \in E1 : T(s) \subseteq S
    BY <1>2, Zenon
  <2>7. CASE hits = {}
    <3>1. S = {}
      BY <2>5, <2>7, Zenon
    <3>2. L2Run(e, f, limit) = NoRun
      BY <2>1, <2>7, Zenon
    <3> QED BY <3>1, <3>2 DEF IsFirstRun, NoRun, Extent, Extents
  <2>8. CASE hits # {}
    <3> DEFINE s == Min(hits)
    <3>1. hits \subseteq Nat
      BY <2>3, ZenonT(60)
    <3>2. s \in hits /\ \A t \in hits : s <= t
      BY <2>8, <3>1, MinNat, Zenon
    <3> HIDE DEF s
    <3>3. s \in Nat /\ s \in E1 /\ IsFirstRun(L1Run(s, f, limit), T(s), limit) /\ T(s) # {}
      BY <2>3, <3>2, Zenon
    <3> DEFINE run == L1Run(s, f, limit)
    <3>4. L2Run(e, f, limit) = run
      BY <2>1, <2>8, Zenon DEF s
    <3>5. ASSUME NEW b \in S PROVE run.offset <= b
      <4>1. s <= SlotsetOf(b) /\ SlotsetOf(b) \in Nat /\ b \in Nat
        BY <1>1, <2>5, <3>2, Zenon
      <4>2. run.offset \in T(s) /\ \A c \in T(s) : run.offset <= c
        BY <3>3, Zenon DEF IsFirstRun
      <4>3. run.offset \in Nat /\ SlotsetOf(run.offset) = s
        BY <1>1, <4>2, ZenonT(60)
      <4>4. CASE SlotsetOf(b) = s
        BY <2>4, <4>2, <4>4, Zenon
      <4>5. CASE s < SlotsetOf(b)
        <5> HIDE DEF run
        <5>1. ~(b <= run.offset)
          BY <4>1, <4>3, <4>5, <3>3, SlotsetMono
        <5> QED BY <4>1, <4>3, <5>1, SMTT(30)
      <4> QED BY <3>3, <4>1, <4>4, <4>5
    <3>6. S # {} /\ run.offset \in S
      BY <2>6, <3>3, Zenon DEF IsFirstRun
    <3>7. IsFirstRun(run, S, limit)
      <4> HIDE DEF run, S, T
      <4> QED BY <3>3, <3>5, <3>6, Zenon DEF IsFirstRun, run
    <3> QED BY <3>4, <3>7, Zenon
  <2> QED BY <2>7, <2>8, Zenon
<1> QED BY <1>3, <1>4, <1>5, L2EntryFacts, Zenon

(* The search through all levels returns the first free block from f on.   *)
LEMMA NextFreeRunFinds ==
  ASSUME TypeOK, SummariesExact, NEW f \in 0 .. Total, NEW limit \in Nat \ {0}
  PROVE  IsFirstRun(NextFreeRun(f, limit), {b \in l0 : f <= b}, limit)
<1> USE GeometryAssumption, SizesPositive
<1> DEFINE S == {b \in l0 : f <= b}
           LS(b) == L1SlotsetOf(SlotsetOf(b))
           T(e) == {b \in l0 : f <= b /\ LS(b) = e}
           hits == {e \in L2Entries : e >= LS(f) /\ L2Run(e, f, limit).size > 0}
<1>1. /\ l0 \subseteq Blocks /\ f \in Nat
      /\ \A b \in Blocks : b \in Nat /\ b < Total /\ LS(b) \in L2Entries /\ LS(b) \in Nat
  <2>1. \A b \in Blocks : b \in Nat /\ b < Total /\ SlotsetOf(b) \in L1Entries
    BY IndexRanges DEF Blocks
  <2>2. \A s \in L1Entries : L1SlotsetOf(s) \in L2Entries /\ L1SlotsetOf(s) \in Nat
    BY IndexRanges
  <2> QED BY <2>1, <2>2 DEF TypeOK
<1>2. CASE f >= Total
  <2>1. S = {}
    BY <1>1, <1>2
  <2>2. NextFreeRun(f, limit) = NoRun
    BY <1>2, Zenon DEF NextFreeRun
  <2> QED BY <2>1, <2>2 DEF IsFirstRun, NoRun, Extent, Extents
<1>3. CASE f < Total
  <2>1. f \in Blocks /\ LS(f) \in Nat
    BY <1>1, <1>3 DEF Blocks
  <2>2. NextFreeRun(f, limit) = IF hits = {} THEN NoRun ELSE L2Run(Min(hits), f, limit)
    BY <1>1, <1>3 DEF NextFreeRun
  <2>3. ASSUME NEW e \in L2Entries, e >= LS(f)
        PROVE  /\ e \in Nat
               /\ IsFirstRun(L2Run(e, f, limit), T(e), limit)
               /\ L2Run(e, f, limit).size > 0 <=> T(e) # {}
    <3>1. e \in Nat
      BY DEF L2Entries
    <3>2. LS(f) <= e
      BY <2>1, <2>3, <3>1, Zenon
    <3>3. IsFirstRun(L2Run(e, f, limit), T(e), limit)
      BY <2>1, <3>2, L2RunFinds, Zenon
    <3> HIDE DEF T
    <3> QED BY <3>1, <3>3 DEF IsFirstRun, NoRun, Extent
  <2>4. \A a, b \in Nat : a <= b => LS(a) <= LS(b)
    <3>1. \A b \in Nat : SlotsetOf(b) \in Nat
      BY SlotsetInterval, Zenon
    <3> QED BY <3>1, SlotsetMono, Zenon
  <2>5. \A b \in S : LS(b) \in L2Entries /\ LS(b) >= LS(f) /\ b \in T(LS(b))
    <3> TAKE b \in S
    <3>1. b \in Nat /\ b \in l0 /\ f <= b /\ LS(b) \in L2Entries /\ LS(b) \in Nat
      BY <1>1, Zenon
    <3>2. LS(f) <= LS(b)
      BY <1>1, <2>4, <3>1, Zenon
    <3> HIDE DEF LS
    <3> QED BY <2>1, <3>1, <3>2, Zenon
  <2> HIDE DEF LS
  <2>6. \A b \in S : LS(b) \in hits
    BY <2>3, <2>5, Zenon
  <2>7. CASE hits = {}
    <3>1. S = {}
      BY <2>6, <2>7, Zenon
    <3>2. NextFreeRun(f, limit) = NoRun
      BY <2>2, <2>7, Zenon
    <3> QED BY <3>1, <3>2 DEF IsFirstRun, NoRun, Extent, Extents
  <2>8. CASE hits # {}
    <3> DEFINE e == Min(hits)
    <3>1. hits \subseteq Nat
      BY <2>3, ZenonT(60)
    <3>2. e \in hits /\ \A t \in hits : e <= t
      BY <2>8, <3>1, MinNat, Zenon
    <3> HIDE DEF e
    <3>3. e \in Nat /\ IsFirstRun(L2Run(e, f, limit), T(e), limit) /\ T(e) # {}
      BY <2>3, <3>2, Zenon
    <3> DEFINE run == L2Run(e, f, limit)
    <3>4. NextFreeRun(f, limit) = run
      BY <2>2, <2>8, Zenon DEF e
    <3>5. ASSUME NEW b \in S PROVE run.offset <= b
      <4>1. e <= LS(b) /\ LS(b) \in Nat /\ b \in Nat
        BY <1>1, <2>6, <3>2, Zenon
      <4>2. run.offset \in T(e) /\ \A c \in T(e) : run.offset <= c
        BY <3>3, Zenon DEF IsFirstRun
      <4>3. run.offset \in Nat /\ LS(run.offset) = e
        BY <1>1, <4>2, Zenon
      <4>4. CASE LS(b) = e
        BY <2>5, <4>2, <4>4, ZenonT(60)
      <4>5. CASE e < LS(b)
        <5> HIDE DEF run
        <5>1. ~(b <= run.offset)
          BY <2>4, <4>1, <4>3, <4>5, <3>3, SMTT(30)
        <5> QED BY <4>1, <4>3, <5>1, SMTT(30)
      <4> QED BY <3>3, <4>1, <4>4, <4>5
    <3>6. S # {} /\ run.offset \in S
      BY <3>3, Zenon DEF IsFirstRun
    <3>7. IsFirstRun(run, S, limit)
      <4> HIDE DEF run, S, T
      <4> QED BY <3>3, <3>5, <3>6, Zenon DEF IsFirstRun, run
    <3> QED BY <3>4, <3>7, Zenon
  <2> QED BY <2>7, <2>8, Zenon
<1> QED BY <1>1, <1>2, <1>3, SMTT(30)

----------------------------------------------------------------------------
(* Marking keeps the summaries exact                                       *)

(* An entry is one of three values.                                        *)
LEMMA EntryType == ASSUME NEW A, NEW B PROVE Entry(A, B) \in {FULL, PARTIAL, FREE}
BY Zenon DEF Entry

(* Mark frees or allocates the blocks of its extents, no others, and the   *)
(* summaries stay exact.                                                   *)
LEMMA MarkPreserves ==
  ASSUME TypeOK, SummariesExact, NEW rs \in Seq(Extents),
         \A i \in DOMAIN rs : ValidRange(rs[i]),
         NEW isFree \in BOOLEAN, Mark(rs, isFree)
  PROVE  /\ MarkMasks(rs) = BlocksOf(rs)
         /\ BlocksOf(rs) \subseteq Blocks
         /\ l0' = IF isFree THEN l0 \cup BlocksOf(rs) ELSE l0 \ BlocksOf(rs)
         /\ l0' \subseteq Blocks
         /\ l1' \in [L1Entries -> {FULL, PARTIAL, FREE}]
         /\ l2' \in [L2Entries -> {FULL, PARTIAL, FREE}]
         /\ SummariesExact'
<1> USE GeometryAssumption, SizesPositive
<1>1. \A i \in DOMAIN rs : rs[i] \in Extents
  OBVIOUS
<1>2. \A i \in DOMAIN rs : /\ MarkMask(rs[i]) = rs[i].offset .. EndOf(rs[i]) - 1
                           /\ MarkMask(rs[i]) \subseteq Blocks
  BY <1>1, MarkMaskMeaning, Zenon
<1>3. MarkMasks(rs) = BlocksOf(rs) /\ BlocksOf(rs) \subseteq Blocks
  BY <1>2, ZenonT(60) DEF MarkMasks, BlocksOf
<1>4. l0' = (IF isFree THEN l0 \cup BlocksOf(rs) ELSE l0 \ BlocksOf(rs)) /\ l0' \subseteq Blocks
  BY <1>3, Zenon DEF Mark, TypeOK
<1>5. \A s \in L1Entries : ~(\E i \in DOMAIN rs : TouchesSlotset(rs[i], s))
         => \A b \in Blocks : SlotsetOf(b) = s => (b \in l0' <=> b \in l0)
  <2> SUFFICES ASSUME NEW s \in L1Entries, ~(\E i \in DOMAIN rs : TouchesSlotset(rs[i], s)),
                      NEW b \in Blocks, SlotsetOf(b) = s
               PROVE  b \notin BlocksOf(rs)
    BY <1>4, Zenon
  <2>1. ASSUME b \in BlocksOf(rs) PROVE FALSE
    <3>1. PICK i \in DOMAIN rs : b \in rs[i].offset .. EndOf(rs[i]) - 1
      BY <2>1, Zenon DEF BlocksOf
    <3>2. TouchesSlotset(rs[i], SlotsetOf(b))
      BY <1>1, <3>1, TouchedSlotsets, Zenon
    <3> QED BY <3>2, Zenon
  <2> QED BY <2>1, Zenon
<1>6. ASSUME NEW s \in L1Entries
      PROVE  l1'[s] = IF s < L0Slotsets THEN L1EntryOf(l0', s) ELSE FULL
  <2>1. s \in Nat
    BY IndexRanges, Zenon
  <2>2. l1'[s] = IF \E i \in DOMAIN rs : TouchesSlotset(rs[i], s)
                 THEN L1EntryOf(l0', s) ELSE l1[s]
    BY Zenon DEF Mark
  <2>3. CASE \E i \in DOMAIN rs : TouchesSlotset(rs[i], s)
    <3>1. s < L0Slotsets
      BY <1>1, <2>3, TouchedSlotsets, Zenon
    <3> QED BY <2>2, <2>3, <3>1, Zenon
  <2>4. CASE ~(\E i \in DOMAIN rs : TouchesSlotset(rs[i], s))
    <3>1. \A b \in Blocks : SlotsetOf(b) = s => (b \in l0' <=> b \in l0)
      BY <1>5, <2>4, Zenon
    <3>2. L1EntryOf(l0', s) = L1EntryOf(l0, s)
      BY <2>1, <3>1, L1EntryMeaning, Zenon DEF Entry
    <3>3. l1[s] = IF s < L0Slotsets THEN L1EntryOf(l0, s) ELSE FULL
      BY Zenon DEF SummariesExact
    <3> QED BY <2>2, <2>4, <3>2, <3>3, Zenon
  <2> QED BY <2>3, <2>4, Zenon
<1>7. ASSUME NEW e \in L2Entries
      PROVE  l2'[e] = IF e < L1Slotsets THEN L2EntryOf(l1', e) ELSE FULL
  <2>1. e \in Nat
    BY DEF L2Entries
  <2>2. l2'[e] = IF \E i \in DOMAIN rs : TouchesL1Slotset(rs[i], e)
                 THEN L2EntryOf(l1', e) ELSE l2[e]
    BY Zenon DEF Mark
  <2>3. CASE \E i \in DOMAIN rs : TouchesL1Slotset(rs[i], e)
    <3>1. e < L1Slotsets
      BY <1>1, <2>3, TouchedSlotsets, ZenonT(60)
    <3> QED BY <2>2, <2>3, <3>1, Zenon
  <2>4. CASE ~(\E i \in DOMAIN rs : TouchesL1Slotset(rs[i], e))
    <3>1. \A s \in L1Entries : L1SlotsetOf(s) = e => l1'[s] = l1[s]
      <4> TAKE s \in L1Entries
      <4> HAVE L1SlotsetOf(s) = e
      <4>1. ~(\E i \in DOMAIN rs : TouchesSlotset(rs[i], s))
        BY <1>1, <2>4, TouchedSlotsets, Zenon
      <4> QED BY <4>1, Zenon DEF Mark
    <3>2. L2EntryOf(l1', e) = L2EntryOf(l1, e)
      BY <2>1, <3>1, L2EntryMeaning DEF Entry
    <3>3. l2[e] = IF e < L1Slotsets THEN L2EntryOf(l1, e) ELSE FULL
      BY Zenon DEF SummariesExact
    <3> QED BY <2>2, <2>4, <3>2, <3>3, ZenonT(60)
  <2> QED BY <2>3, <2>4, Zenon
<1>8. l1' \in [L1Entries -> {FULL, PARTIAL, FREE}]
  <2>1. \A s \in L1Entries : l1'[s] \in {FULL, PARTIAL, FREE}
    BY <1>6, EntryType, Zenon DEF L1EntryOf
  <2> QED BY <2>1, Zenon DEF Mark
<1>9. l2' \in [L2Entries -> {FULL, PARTIAL, FREE}]
  <2>1. \A e \in L2Entries : l2'[e] \in {FULL, PARTIAL, FREE}
    BY <1>7, EntryType, Zenon DEF L2EntryOf
  <2> QED BY <2>1, Zenon DEF Mark
<1>10. SummariesExact'
  BY <1>6, <1>7, ZenonT(60) DEF SummariesExact
<1> QED BY <1>3, <1>4, <1>8, <1>9, <1>10, ZenonT(60)

IInv == TypeOK /\ SummariesExact /\ AvailableExact /\ ResultsExact /\ LoopInvariant

----------------------------------------------------------------------------
(* Counting blocks                                                         *)

(* A set of blocks is finite and no larger than the device.                *)
LEMMA BlockSetCardinality ==
  ASSUME NEW S, S \subseteq Blocks
  PROVE  IsFiniteSet(S) /\ Cardinality(S) \in 0 .. Total
<1>1. IsFiniteSet(Blocks) /\ Cardinality(Blocks) = Total
  BY GeometryAssumption, FS_Interval DEF Blocks
<1>2. IsFiniteSet(S) /\ Cardinality(S) <= Cardinality(Blocks)
  BY <1>1, FS_Subset, Zenon
<1>3. Cardinality(S) \in Nat
  BY <1>2, FS_CardinalityType, Zenon
<1> QED BY <1>1, <1>2, <1>3, GeometryAssumption

(* Counting unions and differences of sets of blocks.                      *)
LEMMA SplitCardinality ==
  ASSUME NEW S, NEW T, S \subseteq Blocks, T \subseteq Blocks
  PROVE  /\ Cardinality(S \cup T) = Cardinality(S) + Cardinality(T \ S)
         /\ Cardinality(S \ T) = Cardinality(S) - Cardinality(T \cap S)
         /\ S \cap T = {} => Cardinality(S \cup T) = Cardinality(S) + Cardinality(T)
         /\ T \subseteq S => Cardinality(S \ T) = Cardinality(S) - Cardinality(T)
<1>1. IsFiniteSet(S) /\ IsFiniteSet(T) /\ IsFiniteSet(T \ S)
  BY BlockSetCardinality, Zenon
<1>2. Cardinality(S) \in Nat /\ Cardinality(T) \in Nat /\ Cardinality(T \ S) \in Nat
  BY <1>1, FS_CardinalityType, Zenon
<1>3. Cardinality({}) = 0
  BY FS_EmptySet, Zenon
<1>4. Cardinality(S \cup (T \ S)) = Cardinality(S) + Cardinality(T \ S) - Cardinality(S \cap (T \ S))
  BY <1>1, FS_Union, Zenon
<1>5. S \cup (T \ S) = S \cup T /\ S \cap (T \ S) = {} /\ S \cap T = T \cap S
  BY Zenon
<1>6. Cardinality(S \cup T) = Cardinality(S) + Cardinality(T \ S)
  BY <1>2, <1>3, <1>4, <1>5, SMTT(30)
<1>7. Cardinality(S \ T) = Cardinality(S) - Cardinality(T \cap S)
  BY <1>1, <1>5, FS_Difference
<1>8. S \cap T = {} => T \ S = T
  BY Zenon
<1>9. T \subseteq S => T \cap S = T
  BY Zenon
<1> QED BY <1>6, <1>7, <1>8, <1>9, Zenon

(* The number of blocks of an extent is its size.                          *)
LEMMA IntervalCardinality ==
  ASSUME NEW a \in Int, NEW n \in Nat \ {0}
  PROVE  Cardinality(a .. a + n - 1) = n
<1> DEFINE z == a + n - 1
<1>1. z \in Int /\ ~(a > z) /\ z - a + 1 = n
  OBVIOUS
<1> HIDE DEF z
<1>2. Cardinality(a .. z) = IF a > z THEN 0 ELSE z - a + 1
  BY <1>1, FS_Interval, Zenon
<1> QED BY <1>1, <1>2, Zenon DEF z

(* No extents, no blocks.                                                  *)
LEMMA EmptyBlocks == BlocksOf(<<>>) = {}
BY DEF BlocksOf

(* The blocks of one extent.                                               *)
LEMMA SingleBlocks ==
  ASSUME NEW r \in Extents
  PROVE  /\ <<r>> \in Seq(Extents)
         /\ DOMAIN <<r>> = {1} /\ <<r>>[1] = r
         /\ BlocksOf(<<r>>) = r.offset .. EndOf(r) - 1
<1>1. <<r>> \in Seq(Extents) /\ DOMAIN <<r>> = {1} /\ <<r>>[1] = r
  OBVIOUS
<1> QED BY <1>1, Zenon DEF BlocksOf

\* appendResult adds the blocks of the extent, whether it merges or appends.
LEMMA AppendResultBlocks ==
  ASSUME NEW rs \in Seq(Extents), NEW r \in Extents, ValidRange(r),
         \A i \in DOMAIN rs : ValidRange(rs[i])
  PROVE  /\ AppendResult(rs, r) \in Seq(Extents)
         /\ \A i \in DOMAIN AppendResult(rs, r) : ValidRange(AppendResult(rs, r)[i])
         /\ BlocksOf(AppendResult(rs, r)) = BlocksOf(rs) \cup (r.offset .. EndOf(r) - 1)
<1> DEFINE ap == AppendResult(rs, r)
           n == Len(rs)
           I(x) == x.offset .. EndOf(x) - 1
<1> USE GeometryAssumption
<1>1. n \in Nat /\ DOMAIN rs = 1 .. n /\ \A i \in 1 .. n : rs[i] \in Extents /\ ValidRange(rs[i])
  OBVIOUS
<1>2. \A x : x \in BlocksOf(rs) <=> \E i \in 1 .. n : x \in I(rs[i])
  BY <1>1, Zenon DEF BlocksOf
<1>3. CASE rs # <<>> /\ EndOf(rs[n]) = r.offset
  <2> DEFINE m == Extent(rs[n].offset, rs[n].size + r.size)
  <2>1. n \in 1 .. n /\ rs[n] \in Extents /\ ValidRange(rs[n])
    BY <1>1, <1>3, SMTT(30)
  <2>2. m \in Extents /\ ValidRange(m) /\ EndOf(m) = EndOf(r) /\ m.offset = rs[n].offset
    BY <1>3, <2>1, SMTT(30) DEF Extent, EndOf, Extents, ValidRange
  <2>3. ap = [rs EXCEPT ![n] = m]
    BY <1>3, Zenon DEF AppendResult
  <2> HIDE DEF m
  <2>4. ap \in Seq(Extents) /\ DOMAIN ap = 1 .. n
        /\ \A i \in 1 .. n : ap[i] = IF i = n THEN m ELSE rs[i]
    BY <1>1, <2>1, <2>2, <2>3
  <2>5. I(m) = I(rs[n]) \cup I(r)
    <3> DEFINE a == rs[n].offset
               b == r.offset
               c == EndOf(r)
    <3>1. a \in Int /\ b \in Int /\ c \in Int /\ a < b /\ b < c
      BY <1>3, <2>1, SMTT(30) DEF EndOf, Extents, ValidRange
    <3>2. I(m) = a .. c - 1 /\ I(rs[n]) = a .. b - 1 /\ I(r) = b .. c - 1
      BY <1>3, <2>2, Zenon
    <3> HIDE DEF a, b, c
    <3>3. a .. c - 1 = (a .. b - 1) \cup (b .. c - 1)
      BY <3>1
    <3> QED BY <3>2, <3>3, Zenon
  <2> HIDE DEF ap, n, I
  <2>6. \A i \in DOMAIN ap : ValidRange(ap[i])
    BY <1>1, <2>2, <2>4, Zenon
  <2>7. \A x : x \in BlocksOf(ap) <=> \E i \in 1 .. n : x \in I(ap[i])
    BY <2>4, Zenon DEF BlocksOf, I
  <2>8. ASSUME NEW x PROVE x \in BlocksOf(ap) <=> x \in BlocksOf(rs) \/ x \in I(r)
    BY <1>2, <2>1, <2>4, <2>5, <2>7, Zenon
  <2>9. BlocksOf(ap) = BlocksOf(rs) \cup I(r)
    BY <2>8, Zenon
  <2> QED BY <2>4, <2>6, <2>9, Zenon DEF ap, I
<1>4. CASE ~(rs # <<>> /\ EndOf(rs[n]) = r.offset)
  <2>1. ap = Append(rs, r)
    BY <1>4, Zenon DEF AppendResult
  <2>2. ap \in Seq(Extents) /\ DOMAIN ap = 1 .. n + 1
        /\ \A i \in 1 .. n + 1 : ap[i] = IF i = n + 1 THEN r ELSE rs[i]
    BY <1>1, <2>1
  <2> HIDE DEF ap, n, I
  <2>3. \A i \in DOMAIN ap : ValidRange(ap[i])
    BY <1>1, <2>2
  <2>4. \A x : x \in BlocksOf(ap) <=> \E i \in 1 .. n + 1 : x \in I(ap[i])
    BY <2>2, Zenon DEF BlocksOf, I
  <2>5. ASSUME NEW x PROVE x \in BlocksOf(ap) <=> x \in BlocksOf(rs) \/ x \in I(r)
    <3>1. 1 .. n + 1 = 1 .. n \cup {n + 1}
      BY <1>1
    <3>2. \A i \in 1 .. n : i # n + 1
      BY <1>1
    <3> QED BY <1>1, <1>2, <2>2, <2>4, <3>1, <3>2, ZenonT(60)
  <2>6. BlocksOf(ap) = BlocksOf(rs) \cup I(r)
    BY <2>5, Zenon
  <2> QED BY <2>2, <2>3, <2>6, Zenon DEF ap, I
<1> QED BY <1>3, <1>4, Zenon

----------------------------------------------------------------------------
(* The initial state                                                       *)

(* The invariant holds at the start.                                       *)
LEMMA InitInvariant == Init => IInv
<1> SUFFICES ASSUME Init PROVE IInv
  BY Zenon
<1> USE GeometryAssumption, SizesPositive
<1>1. l0 = Blocks /\ available = Total /\ lastPos = 0 /\ pc = "idle" /\ want = 0
      /\ left = 0 /\ pass = 0 /\ from = 0 /\ results = <<>>
      /\ reply = Reply("new", TRUE, <<>>)
  BY Zenon DEF Init
<1>2. l1 \in [L1Entries -> {FULL, PARTIAL, FREE}] /\ l2 \in [L2Entries -> {FULL, PARTIAL, FREE}]
  BY EntryType, Zenon DEF Init, L1EntryOf, L2EntryOf
<1>3. TypeOK
  BY <1>1, <1>2 DEF TypeOK, Reply, Blocks
<1>4. SummariesExact
  BY Zenon DEF Init, SummariesExact
<1>5. Cardinality(l0) = Total
  BY <1>1, FS_Interval DEF Blocks
<1>6. BlocksOf(results) = {} /\ Cardinality(BlocksOf(results)) = 0
  BY <1>1, EmptyBlocks, FS_EmptySet, Zenon
<1>7. AvailableExact /\ ResultsExact /\ LoopInvariant
  BY <1>1, <1>5, <1>6 DEF AvailableExact, ResultsExact, LoopInvariant
<1> QED BY <1>3, <1>4, <1>7, Zenon DEF IInv

----------------------------------------------------------------------------
(* Allocate's loop                                                         *)

\* What one search of the loop finds, in the terms of the invariant.
LEMMA ScanStep ==
  ASSUME IInv, pc = "scan", left > 0, pass < 2
  PROVE  LET run == NextFreeRun(from, left)
             take == MinInt(run.size, left)
             got == Extent(run.offset, take)
         IN /\ run.size = 0 => \A b \in l0 : b < from
            /\ run.size # 0 => /\ got \in Extents /\ ValidRange(got)
                               /\ take \in 1 .. left
                               /\ EndOf(got) = run.offset + take
                               /\ run.offset .. EndOf(got) - 1 \subseteq l0
                               /\ run.offset \in l0 /\ from <= run.offset
                               /\ \A b \in l0 : b < from \/ run.offset <= b
<1> DEFINE run == NextFreeRun(from, left)
           S == {b \in l0 : from <= b}
           take == MinInt(run.size, left)
           got == Extent(run.offset, take)
<1> USE GeometryAssumption
<1>1. TypeOK /\ SummariesExact /\ left \in Nat \ {0} /\ from \in 0 .. Total
  BY DEF IInv, TypeOK
<1>2. IsFirstRun(run, S, left)
  BY <1>1, NextFreeRunFinds, Zenon
<1>3. l0 \subseteq Blocks /\ \A b \in l0 : b \in Nat /\ b < Total
  BY <1>1 DEF TypeOK, Blocks
<1> HIDE DEF run
<1>4. ASSUME run.size = 0 PROVE \A b \in l0 : b < from
  <2>1. S = {}
    BY <1>1, <1>2, <1>4 DEF IsFirstRun
  <2> QED BY <1>1, <1>3, <2>1
<1>5. ASSUME run.size # 0
      PROVE  /\ got \in Extents /\ ValidRange(got)
             /\ take \in 1 .. left
             /\ EndOf(got) = run.offset + take
             /\ run.offset .. EndOf(got) - 1 \subseteq l0
             /\ run.offset \in l0 /\ from <= run.offset
             /\ \A b \in l0 : b < from \/ run.offset <= b
  <2>1. S # {}
    BY <1>2, <1>5 DEF IsFirstRun, NoRun, Extent
  <2>2. /\ run.offset \in S /\ (\A b \in S : run.offset <= b) /\ run.size \in 1 .. left
        /\ run.offset .. EndOf(run) - 1 \subseteq l0
    BY <1>2, <2>1, Zenon DEF IsFirstRun
  <2>3. run.offset \in Nat /\ run.size \in Nat /\ take = run.size
    BY <1>1, <1>3, <2>2, SMTT(30) DEF MinInt
  <2>4. got \in Extents /\ EndOf(got) = run.offset + run.size /\ got.offset = run.offset
        /\ got.size = run.size /\ EndOf(run) = run.offset + run.size
    BY <2>3 DEF Extent, Extents, EndOf
  <2>5. run.offset + run.size - 1 \in l0
    BY <2>2, <2>3, <2>4
  <2>6. run.offset + run.size <= Total
    BY <1>3, <2>3, <2>5, SMTT(30)
  <2>7. ValidRange(got)
    BY <1>1, <2>2, <2>3, <2>4, <2>6, SMTT(30) DEF ValidRange
  <2>8. \A b \in l0 : b < from \/ run.offset <= b
    BY <1>1, <1>3, <2>2
  <2> QED BY <2>2, <2>3, <2>4, <2>7, <2>8, ZenonT(60)
<1> QED BY <1>4, <1>5, Zenon DEF run

(* A step of the search keeps the invariant.                               *)
LEMMA AllocateScanInvariant == IInv /\ AllocateScan => IInv'
<1> SUFFICES ASSUME IInv, AllocateScan PROVE IInv'
  BY Zenon
<1> USE GeometryAssumption
<1> DEFINE run == NextFreeRun(from, left)
           take == MinInt(run.size, left)
           got == Extent(run.offset, take)
           G == run.offset .. EndOf(got) - 1
<1>1. /\ pc = "scan" /\ left > 0 /\ pass < 2
      /\ available' = available /\ lastPos' = lastPos /\ pc' = pc /\ want' = want /\ reply' = reply
  BY Zenon DEF AllocateScan
<1>2. /\ TypeOK /\ SummariesExact /\ AvailableExact /\ ResultsExact /\ LoopInvariant
      /\ left \in Nat \ {0} /\ want \in Nat /\ left <= want /\ from \in 0 .. Total
      /\ pass \in {0, 1} /\ lastPos \in Nat /\ lastPos < Total /\ available \in 0 .. Total
      /\ results \in Seq(Extents)
  BY <1>1 DEF IInv, TypeOK, Blocks
<1>3. l0 \subseteq Blocks /\ \A b \in l0 : b \in Nat /\ b < Total
  BY <1>2 DEF TypeOK, Blocks
<1>4. /\ run.size = 0 => \A b \in l0 : b < from
      /\ run.size # 0 => /\ got \in Extents /\ ValidRange(got)
                         /\ take \in 1 .. left
                         /\ EndOf(got) = run.offset + take
                         /\ G \subseteq l0
                         /\ run.offset \in l0 /\ from <= run.offset
                         /\ \A b \in l0 : b < from \/ run.offset <= b
  BY <1>1, ScanStep, Zenon
<1>5. CASE run.size = 0 \/ (pass = 1 /\ run.offset >= lastPos)
  <2>1. pass' = pass + 1 /\ from' = 0 /\ l0' = l0 /\ l1' = l1 /\ l2' = l2 /\ left' = left
        /\ results' = results
    BY <1>5, Zenon DEF AllocateScan, bitmap
  <2>2. TypeOK'
    BY <1>1, <1>2, <2>1, SMTT(30) DEF TypeOK
  <2>3. SummariesExact' /\ AvailableExact' /\ ResultsExact'
    BY <1>1, <1>2, <2>1, ZenonT(60) DEF SummariesExact, AvailableExact, ResultsExact
  <2> HIDE DEF run
  <2>4. run.size = 0
    BY <1>1, <1>2, <1>3, <1>4, <1>5, SMTT(30) DEF LoopInvariant
  <2>5. \A b \in l0 : b < from
    BY <1>4, <2>4, Zenon
  <2>6. CASE pass = 0
    <3>1. \A b \in l0 : b < lastPos /\ 0 <= b
      BY <1>1, <1>2, <1>3, <2>5, <2>6, SMTT(30) DEF LoopInvariant
    <3>2. \A t \in BlocksOf(results) : lastPos <= t
      BY <1>1, <1>2, <2>6, ZenonT(60) DEF LoopInvariant
    <3>3. pass' = 1
      BY <2>1, <2>6, SMTT(30)
    <3>4. LoopInvariant'
      BY <1>1, <1>2, <2>1, <3>1, <3>2, <3>3, SMTT(30) DEF LoopInvariant
    <3> QED BY <2>2, <2>3, <3>4, ZenonT(60) DEF IInv
  <2>7. CASE pass = 1
    <3>1. l0 = {}
      BY <1>1, <1>2, <1>3, <2>5, <2>7, SMTT(30) DEF LoopInvariant
    <3>2. pass' = 2
      BY <2>1, <2>7, SMTT(30)
    <3>3. LoopInvariant'
      BY <1>1, <1>2, <2>1, <3>1, <3>2, SMTT(30) DEF LoopInvariant
    <3> QED BY <2>2, <2>3, <3>3, Zenon DEF IInv
  <2> QED BY <1>2, <2>6, <2>7, Zenon
<1>6. CASE ~(run.size = 0 \/ (pass = 1 /\ run.offset >= lastPos))
  <2>1. /\ Mark(<<got>>, FALSE) /\ results' = AppendResult(results, got)
        /\ left' = left - take /\ from' = run.offset + take /\ pass' = pass
    BY <1>6, Zenon DEF AllocateScan
  <2> HIDE DEF run
  <2>2. /\ got \in Extents /\ ValidRange(got) /\ take \in 1 .. left /\ G \subseteq l0
        /\ EndOf(got) = run.offset + take
        /\ run.offset \in l0 /\ from <= run.offset /\ \A b \in l0 : b < from \/ run.offset <= b
        /\ got.offset = run.offset /\ run.offset \in Nat
    BY <1>3, <1>4, <1>6, Zenon DEF Extent
  <2> HIDE DEF take, got
  <2>3. /\ <<got>> \in Seq(Extents) /\ BlocksOf(<<got>>) = G
        /\ \A i \in DOMAIN <<got>> : ValidRange(<<got>>[i])
    BY <2>2, SingleBlocks
  <2>4. /\ l0' = l0 \ G /\ l0' \subseteq Blocks /\ SummariesExact'
        /\ l1' \in [L1Entries -> {FULL, PARTIAL, FREE}]
        /\ l2' \in [L2Entries -> {FULL, PARTIAL, FREE}]
    BY <1>2, <2>1, <2>3, MarkPreserves, Zenon
  <2>5. /\ results' \in Seq(Extents) /\ \A i \in DOMAIN results' : ValidRange(results'[i])
        /\ BlocksOf(results') = BlocksOf(results) \cup G
    BY <1>2, <2>1, <2>2, AppendResultBlocks, ZenonT(60) DEF ResultsExact
  <2>6. BlocksOf(results) \subseteq Blocks
    <3>1. \A i \in DOMAIN results : results[i] \in Extents /\ ValidRange(results[i])
      BY <1>2 DEF ResultsExact
    <3>2. \A i \in DOMAIN results : results[i].offset .. EndOf(results[i]) - 1 \subseteq Blocks
      BY <3>1, MarkMaskMeaning, Zenon
    <3> QED BY <3>2, ZenonT(60) DEF BlocksOf
  <2>7. Cardinality(G) = take
    <3>1. run.offset \in Int /\ take \in Nat \ {0} /\ G = run.offset .. run.offset + take - 1
      BY <1>2, <2>2
    <3> HIDE DEF G
    <3> QED BY <3>1, IntervalCardinality, Zenon
  <2>8. G \subseteq Blocks /\ Cardinality(l0 \ G) = Cardinality(l0) - take
        /\ Cardinality(l0) \in Nat
    <3>1. G \subseteq l0 /\ G \subseteq Blocks
      BY <1>3, <2>2, Zenon
    <3> HIDE DEF G
    <3>2. Cardinality(l0 \ G) = Cardinality(l0) - Cardinality(G)
      BY <1>3, <3>1, SplitCardinality, ZenonT(60)
    <3> QED BY <1>3, <2>7, <3>1, <3>2, BlockSetCardinality, SMTT(30)
  <2>9. left' \in 0 .. want /\ left' = left - take /\ take \in Nat
    BY <1>2, <2>1, <2>2
  <2>10. EndOf(got) <= Total
    BY <2>2, Zenon DEF ValidRange
  <2>11. TypeOK'
    <3>1. from' \in 0 .. Total
      BY <1>2, <2>1, <2>2, <2>10, SMTT(30)
    <3> QED BY <1>1, <1>2, <2>1, <2>4, <2>5, <2>9, <3>1, ZenonT(60) DEF TypeOK
  <2>12. AvailableExact'
    BY <1>1, <1>2, <2>4, <2>8, <2>9, SMTT(30) DEF AvailableExact
  <2>13. ResultsExact'
    <3>1. BlocksOf(results) \cap l0 = {} /\ Cardinality(BlocksOf(results)) = want - left
      BY <1>2, Zenon DEF ResultsExact
    <3>2. BlocksOf(results) \cap G = {}
      BY <2>2, <3>1, Zenon
    <3> HIDE DEF G
    <3>3. Cardinality(BlocksOf(results')) = (want - left) + take
      <4>1. Cardinality(BlocksOf(results) \cup G) = Cardinality(BlocksOf(results)) + Cardinality(G)
        BY <2>6, <2>8, <3>2, SplitCardinality, ZenonT(60)
      <4> QED BY <2>5, <2>7, <3>1, <4>1, Zenon
    <3>4. BlocksOf(results') \cap l0' = {}
      BY <2>4, <2>5, <3>1, Zenon
    <3>5. (want - left) + take = want - left'
      BY <1>2, <2>9
    <3> QED BY <1>1, <2>5, <3>3, <3>4, <3>5, ZenonT(60) DEF ResultsExact
  <2>14. \A x \in G : x \in Nat /\ run.offset <= x /\ x < from'
    BY <2>1, <2>2
  <2>15. \A b \in l0 : run.offset <= b => b \in G \/ from' <= b
    BY <1>2, <1>3, <2>1, <2>2
  <2>16. LoopInvariant'
    <3>1. CASE pass = 0
      <4>1. /\ lastPos <= from /\ (\A b \in l0 : b < lastPos \/ from <= b)
            /\ \A t \in BlocksOf(results) : t \in Nat /\ lastPos <= t /\ t < from
        BY <1>1, <1>2, <2>6, <3>1, IndexRanges, ZenonT(60) DEF LoopInvariant
      <4>2. from' \in Nat /\ from <= from' /\ lastPos <= from'
        BY <1>2, <2>1, <2>2, <4>1, SMTT(30)
      <4>3. \A b \in l0' : b < lastPos \/ from' <= b
        BY <1>2, <1>3, <2>2, <2>4, <2>15, <4>1, SMTT(30)
      <4>4. \A t \in BlocksOf(results') : lastPos <= t /\ t < from'
        <5>1. \A t \in G : lastPos <= t /\ t < from'
          BY <1>2, <2>2, <2>14, <4>1, SMTT(30)
        <5>2. \A t \in BlocksOf(results) : lastPos <= t /\ t < from'
          BY <1>2, <4>1, <4>2
        <5> HIDE DEF G
        <5> QED BY <2>5, <5>1, <5>2, ZenonT(60)
      <4>5. pass' = 0
        BY <2>1, <3>1, ZenonT(60)
      <4> QED BY <1>1, <1>2, <4>2, <4>3, <4>4, <4>5, SMTT(30) DEF LoopInvariant
    <3>2. CASE pass = 1
      <4>1. /\ \A b \in l0 : b < lastPos /\ from <= b
            /\ \A t \in BlocksOf(results) : t \in Nat /\ (lastPos <= t \/ t < from)
        BY <1>1, <1>2, <2>6, <3>2, IndexRanges, ZenonT(60) DEF LoopInvariant
      <4>2. from' \in Nat /\ from <= from'
        BY <1>2, <2>1, <2>2, SMTT(30)
      <4>3. \A b \in l0' : b < lastPos /\ from' <= b
        BY <1>2, <1>3, <2>2, <2>4, <2>15, <4>1, SMTT(30)
      <4>4. \A t \in BlocksOf(results') : lastPos <= t \/ t < from'
        <5>1. \A t \in BlocksOf(results) : lastPos <= t \/ t < from'
          BY <1>2, <4>1, <4>2
        <5> HIDE DEF G
        <5> QED BY <2>5, <2>14, <5>1, Zenon
      <4>5. pass' = 1
        BY <2>1, <3>2, Zenon
      <4> QED BY <1>1, <1>2, <4>3, <4>4, <4>5, SMTT(30) DEF LoopInvariant
    <3> QED BY <1>2, <3>1, <3>2, ZenonT(60)
  <2> QED BY <2>4, <2>11, <2>12, <2>13, <2>16, ZenonT(60) DEF IInv
<1> QED BY <1>5, <1>6, Zenon

----------------------------------------------------------------------------
(* The end of Allocate                                                     *)

(* A search among enough free blocks does not end with some still wanted.  *)
LEMMA SearchCompleteFromIInv == IInv => SearchComplete
<1> SUFFICES ASSUME IInv, pc = "scan", pass = 2, left > 0 PROVE FALSE
  BY Zenon DEF SearchComplete
<1>1. l0 = {} /\ want <= available /\ available = Cardinality(l0) + (want - left)
      /\ want \in Nat /\ left \in Nat /\ available \in Int
  BY DEF IInv, LoopInvariant, AvailableExact, TypeOK
<1>2. Cardinality(l0) = 0
  BY <1>1, FS_EmptySet, Zenon
<1> QED BY <1>1, <1>2

(* Blocks are taken in the order in which they follow lastPos.             *)
LEMMA NextFitFromIInv == IInv => NextFit
<1> SUFFICES ASSUME IInv, NEW t \in BlocksOf(results), NEW b \in l0
             PROVE  FromLastPos(t) < FromLastPos(b)
  BY Zenon DEF NextFit
<1> USE GeometryAssumption
<1>1. BlocksOf(results) \subseteq Blocks
  <2>1. \A i \in DOMAIN results : results[i] \in Extents /\ ValidRange(results[i])
    BY DEF IInv, ResultsExact, TypeOK
  <2>2. \A i \in DOMAIN results : results[i].offset .. EndOf(results[i]) - 1 \subseteq Blocks
    BY <2>1, MarkMaskMeaning, ZenonT(60)
  <2> QED BY <2>2, Zenon DEF BlocksOf
<1>2. t \in Nat /\ t < Total /\ b \in Nat /\ b < Total /\ lastPos \in Nat /\ from \in Nat
  BY <1>1 DEF IInv, TypeOK, Blocks
<1>3. pc = "scan"
  BY EmptyBlocks, Zenon DEF IInv, TypeOK, LoopInvariant
<1>4. pass = 0 \/ pass = 1 \/ pass = 2
  BY DEF IInv, TypeOK
<1>5. CASE pass = 0
  BY <1>2, <1>3, <1>5, SMTT(30) DEF IInv, LoopInvariant, FromLastPos
<1>6. CASE pass = 1
  BY <1>2, <1>3, <1>6 DEF IInv, LoopInvariant, FromLastPos
<1>7. CASE pass = 2
  BY <1>3, <1>7, Zenon DEF IInv, LoopInvariant
<1> QED BY <1>4, <1>5, <1>6, <1>7, Zenon

\* Allocate ends in the rollback never, and otherwise with all it was asked for.
LEMMA FinishStep ==
  ASSUME IInv, AllocateFinish
  PROVE  /\ left = 0 /\ want > 0 /\ want \in Nat
         /\ results \in Seq(Extents) /\ results # <<>>
         /\ EndOf(results[Len(results)]) \in 1 .. Total
         /\ available' = available - want /\ lastPos' \in Blocks
         /\ reply' = Reply("allocate", TRUE, results)
         /\ l0' = l0 /\ l1' = l1 /\ l2' = l2
         /\ pc' = "idle" /\ want' = 0 /\ left' = 0 /\ pass' = 0 /\ from' = 0 /\ results' = <<>>
<1> USE GeometryAssumption
<1> DEFINE end == EndOf(results[Len(results)])
<1>1. pc = "scan" /\ (left = 0 \/ pass = 2)
      /\ pc' = "idle" /\ want' = 0 /\ left' = 0 /\ pass' = 0 /\ from' = 0 /\ results' = <<>>
  BY Zenon DEF AllocateFinish
<1>2. left = 0 /\ want > 0 /\ want \in Nat /\ results \in Seq(Extents)
  <2>1. ~(pass = 2 /\ left > 0)
    BY <1>1, SearchCompleteFromIInv, Zenon DEF SearchComplete
  <2>2. left \in Nat /\ want \in Nat /\ 0 < want /\ results \in Seq(Extents)
    BY <1>1 DEF IInv, TypeOK, LoopInvariant
  <2> QED BY <1>1, <2>1, <2>2
<1>3. /\ available' = available - want /\ lastPos' = (IF end >= Total THEN 0 ELSE end)
      /\ reply' = Reply("allocate", TRUE, results) /\ l0' = l0 /\ l1' = l1 /\ l2' = l2
  BY <1>2 DEF AllocateFinish, bitmap
<1>4. results # <<>>
  <2>1. Cardinality(BlocksOf(results)) = want
    BY <1>2 DEF IInv, ResultsExact
  <2>2. results = <<>> => Cardinality(BlocksOf(results)) = 0
    BY EmptyBlocks, FS_EmptySet, Zenon
  <2> QED BY <1>2, <2>1, <2>2
<1>5. Len(results) \in DOMAIN results
  BY <1>2, <1>4
<1>6. results[Len(results)] \in Extents /\ ValidRange(results[Len(results)])
  BY <1>2, <1>5 DEF IInv, ResultsExact
<1>7. end \in 1 .. Total
  BY <1>6 DEF ValidRange, EndOf, Extents
<1>8. lastPos' \in Blocks
  BY <1>3, <1>7 DEF Blocks
<1> QED BY <1>1, <1>2, <1>3, <1>4, <1>7, <1>8, ZenonT(60)

(* The end of an allocation keeps the invariant.                           *)
LEMMA AllocateFinishInvariant == IInv /\ AllocateFinish => IInv'
<1> SUFFICES ASSUME IInv, AllocateFinish PROVE IInv'
  BY Zenon
<1> USE GeometryAssumption
<1>1. /\ left = 0 /\ want \in Nat /\ results \in Seq(Extents)
      /\ available' = available - want /\ lastPos' \in Blocks
      /\ reply' = Reply("allocate", TRUE, results)
      /\ l0' = l0 /\ l1' = l1 /\ l2' = l2
      /\ pc' = "idle" /\ want' = 0 /\ left' = 0 /\ pass' = 0 /\ from' = 0 /\ results' = <<>>
  BY FinishStep, Zenon
<1>2. available = Cardinality(l0) + want /\ Cardinality(l0) \in 0 .. Total
  BY <1>1, BlockSetCardinality DEF IInv, AvailableExact, TypeOK
<1>3. available' = Cardinality(l0) /\ available' \in 0 .. Total
  BY <1>1, <1>2, SMTT(30)
<1>4. TypeOK'
  BY <1>1, <1>3 DEF IInv, TypeOK, Reply
<1>5. SummariesExact'
  BY <1>1, Zenon DEF IInv, SummariesExact
<1>6. BlocksOf(results') = {} /\ Cardinality(BlocksOf(results')) = 0
  BY <1>1, EmptyBlocks, FS_EmptySet, ZenonT(60)
<1>7. AvailableExact' /\ ResultsExact' /\ LoopInvariant'
  BY <1>1, <1>2, <1>3, <1>6 DEF AvailableExact, ResultsExact, LoopInvariant
<1> QED BY <1>4, <1>5, <1>7, Zenon DEF IInv

----------------------------------------------------------------------------
(* The other operations                                                    *)

(* So do its beginning and its refusal.                                    *)
LEMMA AllocateStartInvariant ==
  ASSUME NEW n \in Wants
  PROVE  IInv /\ (AllocateRefuse(n) \/ AllocateStart(n)) => IInv'
<1> USE GeometryAssumption
<1>1. n \in Int
  BY InputAssumption, Zenon
<1>2. ASSUME IInv, AllocateRefuse(n) PROVE IInv'
  <2>1. /\ l0' = l0 /\ l1' = l1 /\ l2' = l2 /\ available' = available /\ lastPos' = lastPos
        /\ pc' = pc /\ want' = want /\ left' = left /\ pass' = pass /\ from' = from
        /\ results' = results /\ reply' = Reply("allocate", FALSE, <<>>)
    BY <1>2, Zenon DEF AllocateRefuse, bitmap, scanning
  <2>2. TypeOK'
    BY <1>2, <2>1 DEF IInv, TypeOK, Reply
  <2> QED BY <1>2, <2>1, <2>2, Zenon
          DEF IInv, SummariesExact, AvailableExact, ResultsExact, LoopInvariant
<1>3. ASSUME IInv, AllocateStart(n) PROVE IInv'
  <2>1. /\ l0' = l0 /\ l1' = l1 /\ l2' = l2 /\ available' = available /\ lastPos' = lastPos
        /\ pc = "idle" /\ n > 0 /\ available >= n /\ reply' = reply
        /\ pc' = "scan" /\ want' = n /\ left' = n /\ pass' = 0 /\ from' = lastPos
        /\ results' = <<>>
    BY <1>3, Zenon DEF AllocateStart, bitmap
  <2>2. TypeOK'
    BY <1>1, <1>3, <2>1, SMTT(30) DEF IInv, TypeOK, Blocks
  <2>3. want = 0 /\ left = 0 /\ available \in Nat /\ lastPos \in Nat
        /\ \A b \in l0 : b \in Nat
    BY <1>3, <2>1 DEF IInv, LoopInvariant, TypeOK, Blocks
  <2>4. BlocksOf(results') = {} /\ Cardinality(BlocksOf(results')) = 0
    BY <2>1, EmptyBlocks, FS_EmptySet, Zenon
  <2>5. SummariesExact'
    BY <1>3, <2>1, Zenon DEF IInv, SummariesExact
  <2>6. AvailableExact' /\ ResultsExact'
    BY <1>1, <1>3, <2>1, <2>3, <2>4, SMTT(30) DEF IInv, AvailableExact, ResultsExact
  <2>7. LoopInvariant'
    BY <1>1, <2>1, <2>3, <2>4 DEF LoopInvariant
  <2> QED BY <2>2, <2>5, <2>6, <2>7, Zenon DEF IInv
<1> QED BY <1>2, <1>3, Zenon

\* An operation that runs while no Allocate does, and leaves its variables alone.
LEMMA IdleStep ==
  ASSUME IInv, pc = "idle", UNCHANGED <<lastPos, scanning>>,
         l0' \subseteq Blocks,
         l1' \in [L1Entries -> {FULL, PARTIAL, FREE}],
         l2' \in [L2Entries -> {FULL, PARTIAL, FREE}],
         SummariesExact', available' = Cardinality(l0'),
         NEW op \in {"release", "restore"}, NEW ok \in BOOLEAN, reply' = Reply(op, ok, <<>>)
  PROVE  IInv' /\ available' \in 0 .. Total
<1> USE GeometryAssumption
<1>1. /\ lastPos' = lastPos /\ pc' = pc /\ want' = want /\ left' = left /\ pass' = pass
      /\ from' = from /\ results' = results
  BY Zenon DEF scanning
<1>2. want = 0 /\ left = 0 /\ pass = 0 /\ results = <<>>
  BY Zenon DEF IInv, LoopInvariant
<1>3. available' \in 0 .. Total
  BY BlockSetCardinality, ZenonT(60)
<1>4. TypeOK'
  BY <1>1, <1>3 DEF IInv, TypeOK, Reply
<1>5. BlocksOf(results') = {} /\ Cardinality(BlocksOf(results')) = 0
  BY <1>1, <1>2, EmptyBlocks, FS_EmptySet, ZenonT(60)
<1>6. AvailableExact' /\ ResultsExact' /\ LoopInvariant'
  BY <1>1, <1>2, <1>3, <1>5, SMTT(30) DEF AvailableExact, ResultsExact, LoopInvariant
<1> QED BY <1>3, <1>4, <1>6, Zenon DEF IInv

(* Between calls available counts the free bits.                           *)
LEMMA IdleAvailable ==
  ASSUME IInv, pc = "idle"
  PROVE  /\ available = Cardinality(l0) /\ available \in Nat
         /\ l0 \subseteq Blocks /\ results = <<>> /\ BlocksOf(results) = {}
<1>1. want = 0 /\ left = 0 /\ results = <<>> /\ l0 \subseteq Blocks
  BY Zenon DEF IInv, LoopInvariant, TypeOK
<1>2. Cardinality(l0) \in Nat
  BY <1>1, BlockSetCardinality
<1> QED BY <1>1, <1>2, EmptyBlocks, SMTT(30) DEF IInv, AvailableExact

(* Release keeps the invariant, for valid extents and refused ones.        *)
LEMMA ReleaseInvariant ==
  ASSUME NEW rs \in ExtentLists, IInv, Release(rs)
  PROVE  IInv'
<1> DEFINE accepted ==
             /\ \A i \in DOMAIN rs : ValidRange(rs[i]) /\ RangeFullyAllocated(rs[i])
             /\ \A i, j \in DOMAIN rs : i < j => ~ExtentsOverlap(rs[i], rs[j])
<1>1. pc = "idle" /\ UNCHANGED <<lastPos, scanning>> /\ rs \in Seq(Extents)
      /\ TypeOK /\ SummariesExact
  BY InputAssumption, Zenon DEF Release, IInv
<1>2. available = Cardinality(l0) /\ l0 \subseteq Blocks
  BY <1>1, IdleAvailable, Zenon
<1>3. CASE accepted
  <2>1. /\ Mark(rs, TRUE) /\ available' = available + Cardinality(MarkMasks(rs) \ l0)
        /\ reply' = Reply("release", TRUE, <<>>)
    BY <1>3, Zenon DEF Release
  <2>2. /\ MarkMasks(rs) = BlocksOf(rs) /\ BlocksOf(rs) \subseteq Blocks
        /\ l0' = l0 \cup BlocksOf(rs) /\ l0' \subseteq Blocks
        /\ l1' \in [L1Entries -> {FULL, PARTIAL, FREE}]
        /\ l2' \in [L2Entries -> {FULL, PARTIAL, FREE}] /\ SummariesExact'
    BY <1>1, <1>3, <2>1, MarkPreserves, Zenon
  <2>3. available' = Cardinality(l0')
    BY <1>2, <2>1, <2>2, SplitCardinality, ZenonT(60)
  <2> QED BY <1>1, <2>1, <2>2, <2>3, IdleStep, ZenonT(60)
<1>4. CASE ~accepted
  <2>1. l0' = l0 /\ l1' = l1 /\ l2' = l2 /\ available' = available
        /\ reply' = Reply("release", FALSE, <<>>)
    BY <1>4, Zenon DEF Release, bitmap
  <2>2. SummariesExact'
    BY <1>1, <2>1, Zenon DEF SummariesExact
  <2> QED BY <1>1, <1>2, <2>1, <2>2, IdleStep, Zenon DEF TypeOK
<1> QED BY <1>3, <1>4, Zenon

\* InitAllocated and InitFree, which differ in the value they write.
LEMMA RestoreInvariant ==
  ASSUME NEW r \in Extents, IInv, InitAllocated(r) \/ InitFree(r)
  PROVE  IInv' /\ available' \in 0 .. Total
<1>1. pc = "idle" /\ UNCHANGED <<lastPos, scanning>> /\ TypeOK /\ SummariesExact
  BY Zenon DEF InitAllocated, InitFree, IInv
<1>2. available = Cardinality(l0) /\ l0 \subseteq Blocks
  BY <1>1, IdleAvailable, Zenon
<1>3. /\ <<r>> \in Seq(Extents) /\ BlocksOf(<<r>>) = r.offset .. EndOf(r) - 1
      /\ DOMAIN <<r>> = {1} /\ <<r>>[1] = r
  BY SingleBlocks, Zenon
<1>4. PICK ok \in BOOLEAN : reply' = Reply("restore", ok, <<>>)
  BY Zenon DEF InitAllocated, InitFree
<1>5. CASE ~(r.size > 0 /\ ValidRange(r))
  <2>1. l0' = l0 /\ l1' = l1 /\ l2' = l2 /\ available' = available
    BY <1>5, Zenon DEF InitAllocated, InitFree, bitmap
  <2>2. SummariesExact'
    BY <1>1, <2>1, Zenon DEF SummariesExact
  <2> QED BY <1>1, <1>2, <1>4, <2>1, <2>2, IdleStep, ZenonT(60) DEF TypeOK
<1>6. CASE r.size > 0 /\ ValidRange(r)
  <2>1. PICK isFree \in BOOLEAN :
          /\ Mark(<<r>>, isFree)
          /\ available' = IF isFree THEN available + Cardinality(MarkMask(r) \ l0)
                          ELSE available - Cardinality(MarkMask(r) \cap l0)
    BY <1>6, Zenon DEF InitAllocated, InitFree
  <2>2. \A i \in DOMAIN <<r>> : ValidRange(<<r>>[i])
    BY <1>3, <1>6, Zenon
  <2>3. /\ BlocksOf(<<r>>) \subseteq Blocks
        /\ l0' = (IF isFree THEN l0 \cup BlocksOf(<<r>>) ELSE l0 \ BlocksOf(<<r>>))
        /\ l0' \subseteq Blocks
        /\ l1' \in [L1Entries -> {FULL, PARTIAL, FREE}]
        /\ l2' \in [L2Entries -> {FULL, PARTIAL, FREE}] /\ SummariesExact'
    BY <1>1, <1>3, <2>1, <2>2, MarkPreserves, ZenonT(60)
  <2>4. MarkMask(r) = BlocksOf(<<r>>)
    BY <1>3, <1>6, MarkMaskMeaning, ZenonT(60)
  <2>5. available' = Cardinality(l0')
    <3> DEFINE B == BlocksOf(<<r>>)
    <3>1. B \subseteq Blocks
      BY <2>3, Zenon
    <3> HIDE DEF B
    <3>2. /\ Cardinality(l0 \cup B) = Cardinality(l0) + Cardinality(B \ l0)
          /\ Cardinality(l0 \ B) = Cardinality(l0) - Cardinality(B \cap l0)
      BY <1>2, <3>1, SplitCardinality, ZenonT(60)
    <3> QED BY <1>2, <2>1, <2>3, <2>4, <3>2, ZenonT(60) DEF B
  <2> QED BY <1>1, <1>4, <2>3, <2>5, IdleStep, ZenonT(60)
<1> QED BY <1>5, <1>6, Zenon

----------------------------------------------------------------------------
(* The theorems                                                            *)

(* Every step keeps the invariant.                                         *)
LEMMA NextInvariant == IInv /\ [Next]_vars => IInv'
<1> SUFFICES ASSUME IInv, [Next]_vars PROVE IInv'
  BY Zenon
<1>1. ASSUME NEW n \in Wants, AllocateRefuse(n) \/ AllocateStart(n) PROVE IInv'
  BY <1>1, AllocateStartInvariant, Zenon
<1>2. CASE AllocateScan
  BY <1>2, AllocateScanInvariant, Zenon
<1>3. CASE AllocateFinish
  BY <1>3, AllocateFinishInvariant, Zenon
<1>4. ASSUME NEW rs \in ExtentLists, Release(rs) PROVE IInv'
  BY <1>4, ReleaseInvariant, Zenon
<1>5. ASSUME NEW rs \in ExtentLists, NEW i \in DOMAIN rs,
             InitAllocated(rs[i]) \/ InitFree(rs[i])
      PROVE  IInv'
  <2>1. rs[i] \in Extents
    BY InputAssumption
  <2> QED BY <1>5, <2>1, RestoreInvariant, ZenonT(60)
<1>6. CASE UNCHANGED vars
  BY <1>6, ZenonT(60) DEF vars, IInv, TypeOK, SummariesExact, AvailableExact, ResultsExact, LoopInvariant
<1> QED BY <1>1, <1>2, <1>3, <1>4, <1>5, <1>6, ZenonT(60) DEF Next

(* The inductive invariant of the allocator, for every device and every    *)
(* sequence of Allocate, Release, InitAllocated and InitFree calls.        *)
THEOREM Invariant == Spec => []IInv
BY InitInvariant, NextInvariant, PTL DEF Spec

(* The state keeps its type: in particular available stays in 0 .. Total   *)
(* and lastPos is always a block.                                          *)
THEOREM TypeCorrect == Spec => []TypeOK
BY Invariant, PTL DEF IInv

(* L1 and L2 describe L0 exactly after every step of every operation       *)
(* (markRangeLocked, updateL1ForL0Slot, updateL2ForL1Slot).                *)
THEOREM SummariesAreExact == Spec => []SummariesExact
BY Invariant, PTL DEF IInv

(* The counter Allocate trusts is the number of free bits.                 *)
THEOREM AvailableIsExact == Spec => []AvailableExact
BY Invariant, PTL DEF IInv

(* No block is handed out twice: the extents a running Allocate has taken  *)
(* are no longer free, and are exactly as many blocks as it has counted.   *)
THEOREM ResultsAreExact == Spec => []ResultsExact
BY Invariant, PTL DEF IInv

(* Allocate never ends in its "bitmap inconsistent" rollback.              *)
THEOREM SearchIsComplete == Spec => []SearchComplete
BY Invariant, SearchCompleteFromIInv, PTL

(* Allocate takes the free blocks in their order from lastPos on and skips *)
(* none.                                                                   *)
THEOREM SearchIsNextFit == Spec => []NextFit
BY Invariant, NextFitFromIInv, PTL

----------------------------------------------------------------------------
(* The allocator implements BlockPool                                      *)

poolFree == l0 \cup BlocksOf(results)
poolReply == [op |-> reply.op, ok |-> reply.ok, blocks |-> BlocksOf(reply.extents)]

(* A reply with extents is a reply of the pool with their blocks.          *)
LEMMA PoolReply ==
  ASSUME NEW op, NEW ok, NEW rs, reply' = Reply(op, ok, rs)
  PROVE  poolReply' = Pool!Reply(op, ok, BlocksOf(rs))
BY Zenon DEF poolReply, Reply, Pool!Reply

(* Both modules count with the same Cardinality.                           *)
LEMMA PoolCardinality == ASSUME NEW S PROVE Pool!Cardinality(S) = Cardinality(S)
BY Zenon DEF Pool!Cardinality, Cardinality

(* Both modules mean the same by the blocks of an extent and by a valid    *)
(* one.                                                                    *)
LEMMA ExtentBlocksAgree ==
  ASSUME NEW r \in Extents
  PROVE  /\ Pool!ExtentBlocks(r) = r.offset .. EndOf(r) - 1
         /\ Pool!ValidExtent(r) <=> ValidRange(r)
         /\ r.size <= 0 => Pool!ExtentBlocks(r) = {}
<1> USE GeometryAssumption
<1>1. r.offset \in Int /\ r.size \in Int /\ EndOf(r) = r.offset + r.size
  BY Zenon DEF Extents, EndOf
<1>2. Pool!ExtentBlocks(r) = r.offset .. EndOf(r) - 1
  BY <1>1 DEF Pool!ExtentBlocks
<1>3. r.size <= 0 => Pool!ExtentBlocks(r) = {}
  BY <1>1, <1>2
<1>4. ASSUME Pool!ValidExtent(r) PROVE ValidRange(r)
  <2>1. r.size > 0 /\ r.offset .. EndOf(r) - 1 \subseteq 0 .. Total - 1
    BY <1>2, <1>4, Zenon DEF Pool!ValidExtent, Pool!Blocks
  <2>2. r.offset \in r.offset .. EndOf(r) - 1 /\ EndOf(r) - 1 \in r.offset .. EndOf(r) - 1
    BY <1>1, <2>1
  <2>3. r.offset \in 0 .. Total - 1 /\ EndOf(r) - 1 \in 0 .. Total - 1
    BY <2>1, <2>2, Zenon
  <2> QED BY <1>1, <2>1, <2>3 DEF ValidRange
<1>5. ASSUME ValidRange(r) PROVE Pool!ValidExtent(r)
  BY <1>1, <1>2, <1>5 DEF ValidRange, Pool!ValidExtent, Pool!Blocks
<1> QED BY <1>2, <1>3, <1>4, <1>5, ZenonT(60)

(* The allocator starts as a full pool.                                    *)
LEMMA PoolInit == Init => Pool!Init
<1> SUFFICES ASSUME Init PROVE Pool!Init
  BY Zenon
<1>1. l0 = Blocks /\ results = <<>> /\ reply = Reply("new", TRUE, <<>>)
  BY Zenon DEF Init
<1>2. l0 \cup BlocksOf(results) = 0 .. Total - 1
  BY <1>1, EmptyBlocks, Zenon DEF Blocks
<1>3. BlocksOf(reply.extents) = {} /\ reply.op = "new" /\ reply.ok = TRUE
  BY <1>1, EmptyBlocks, Zenon DEF Reply
<1> QED BY <1>2, <1>3, Zenon DEF Pool!Init, Pool!Blocks, Pool!Reply

(* A refusal of the allocator is one of the pool.                          *)
LEMMA PoolRefuse ==
  ASSUME IInv, NEW n \in Wants, AllocateRefuse(n)
  PROVE  Pool!Refuse(n)
<1>1. pc = "idle" /\ (n <= 0 \/ available < n) /\ reply' = Reply("allocate", FALSE, <<>>)
      /\ l0' = l0 /\ results' = results
  BY Zenon DEF AllocateRefuse, bitmap, scanning
<1>2. available = Cardinality(l0) /\ BlocksOf(results) = {}
  BY <1>1, IdleAvailable, ZenonT(60)
<1>3. n <= 0 \/ Cardinality(poolFree) < n
  BY <1>1, <1>2, Zenon DEF poolFree
<1>4. poolReply' = Pool!Reply("allocate", FALSE, {})
  BY <1>1, PoolReply, EmptyBlocks, ZenonT(60)
<1>5. poolFree' = poolFree
  BY <1>1, Zenon DEF poolFree
<1>6. n <= 0 \/ Pool!Cardinality(poolFree) < n
  BY <1>3, PoolCardinality, Zenon
<1> QED BY <1>4, <1>5, <1>6, ZenonT(60) DEF Pool!Refuse, poolFree, poolReply

\* A step of the loop only moves blocks from l0 to results.
LEMMA PoolScan ==
  ASSUME IInv, AllocateScan \/ \E n \in Wants : AllocateStart(n)
  PROVE  poolFree' = poolFree /\ poolReply' = poolReply
<1>1. ASSUME NEW n, AllocateStart(n) PROVE poolFree' = poolFree /\ poolReply' = poolReply
  <2>1. pc = "idle" /\ l0' = l0 /\ results' = <<>> /\ reply' = reply
    BY <1>1, Zenon DEF AllocateStart, bitmap
  <2>2. results = <<>>
    BY <2>1, IdleAvailable, Zenon
  <2> QED BY <2>1, <2>2, ZenonT(60) DEF poolFree, poolReply
<1>2. ASSUME AllocateScan PROVE poolFree' = poolFree /\ poolReply' = poolReply
  <2> DEFINE run == NextFreeRun(from, left)
             take == MinInt(run.size, left)
             got == Extent(run.offset, take)
             G == run.offset .. EndOf(got) - 1
  <2>1. pc = "scan" /\ left > 0 /\ pass < 2 /\ reply' = reply
    BY <1>2, Zenon DEF AllocateScan
  <2>2. CASE run.size = 0 \/ (pass = 1 /\ run.offset >= lastPos)
    BY <1>2, <2>1, <2>2, ZenonT(60) DEF AllocateScan, bitmap, poolFree, poolReply
  <2>3. CASE ~(run.size = 0 \/ (pass = 1 /\ run.offset >= lastPos))
    <3>1. Mark(<<got>>, FALSE) /\ results' = AppendResult(results, got)
      BY <1>2, <2>3, ZenonT(60) DEF AllocateScan
    <3>2. got \in Extents /\ ValidRange(got) /\ G \subseteq l0
      BY <2>1, <2>3, ScanStep, Zenon
    <3>3. got.offset = run.offset
      BY Zenon DEF Extent
    <3> HIDE DEF run, take, got
    <3>4. /\ <<got>> \in Seq(Extents) /\ BlocksOf(<<got>>) = G
          /\ \A i \in DOMAIN <<got>> : ValidRange(<<got>>[i])
      BY <3>2, <3>3, SingleBlocks, Zenon
    <3>5. l0' = l0 \ G
      BY <3>1, <3>4, MarkPreserves, Zenon DEF IInv
    <3>6. BlocksOf(results') = BlocksOf(results) \cup G
      BY <3>1, <3>2, <3>3, AppendResultBlocks, ZenonT(60) DEF IInv, ResultsExact, TypeOK
    <3> HIDE DEF G
    <3>7. poolFree' = poolFree
      BY <3>2, <3>5, <3>6, Zenon DEF poolFree
    <3> QED BY <2>1, <3>7, Zenon DEF poolReply
  <2> QED BY <2>2, <2>3, ZenonT(60)
<1> QED BY <1>1, <1>2, Zenon

(* A finished allocation is a grant of as many free blocks as were wanted. *)
LEMMA PoolGrant ==
  ASSUME IInv, AllocateFinish
  PROVE  want > 0 /\ Pool!Grant(want)
<1> DEFINE S == BlocksOf(results)
<1>1. /\ left = 0 /\ want > 0 /\ want \in Nat
      /\ reply' = Reply("allocate", TRUE, results) /\ l0' = l0 /\ results' = <<>>
  BY FinishStep, Zenon
<1>2. S \cap l0 = {} /\ Cardinality(S) = want
  BY <1>1 DEF IInv, ResultsExact
<1>3. BlocksOf(results') = {}
  BY <1>1, EmptyBlocks, Zenon
<1>4. poolReply' = Pool!Reply("allocate", TRUE, S)
  BY <1>1, PoolReply, Zenon
<1>5. S \in SUBSET poolFree /\ poolFree' = poolFree \ S
  BY <1>1, <1>2, <1>3, Zenon DEF poolFree
<1>6. Pool!Cardinality(S) = want
  BY <1>2, PoolCardinality, Zenon
<1> HIDE DEF S
<1> QED BY <1>1, <1>4, <1>5, <1>6, Zenon DEF Pool!Grant, poolFree, poolReply

(* A release gives the blocks back.                                        *)
LEMMA PoolGiveBack ==
  ASSUME IInv, NEW rs \in ExtentLists, Release(rs)
  PROVE  Pool!GiveBack(rs)
<1> USE GeometryAssumption
<1> DEFINE accepted ==
             /\ \A i \in DOMAIN rs : ValidRange(rs[i]) /\ RangeFullyAllocated(rs[i])
             /\ \A i, j \in DOMAIN rs : i < j => ~ExtentsOverlap(rs[i], rs[j])
           X(i) == rs[i].offset .. EndOf(rs[i]) - 1
<1>1. pc = "idle" /\ results' = results /\ rs \in Seq(Extents)
      /\ TypeOK /\ SummariesExact /\ \A i \in DOMAIN rs : rs[i] \in Extents
  BY InputAssumption DEF Release, IInv, scanning
<1>2. BlocksOf(results) = {} /\ poolFree = l0 /\ poolFree' = l0'
  BY <1>1, IdleAvailable, Zenon DEF poolFree
<1>3. DOMAIN rs \subseteq Nat
  BY <1>1
<1>4. \A i \in DOMAIN rs : /\ Pool!ExtentBlocks(rs[i]) = X(i)
                           /\ Pool!ValidExtent(rs[i]) <=> ValidRange(rs[i])
  BY <1>1, ExtentBlocksAgree, Zenon
<1>5. \A i \in DOMAIN rs : ValidRange(rs[i]) => (RangeFullyAllocated(rs[i]) <=> X(i) \cap l0 = {})
  BY <1>1, MarkMaskMeaning, Zenon DEF RangeFullyAllocated
<1>6. ASSUME NEW i \in DOMAIN rs, NEW j \in DOMAIN rs, ValidRange(rs[i]), ValidRange(rs[j])
      PROVE  ExtentsOverlap(rs[i], rs[j]) <=> X(i) \cap X(j) # {}
  <2> DEFINE a == rs[i].offset
             b == EndOf(rs[i])
             c == rs[j].offset
             d == EndOf(rs[j])
  <2>1. a \in Int /\ b \in Int /\ c \in Int /\ d \in Int /\ a < b /\ c < d
    BY <1>1, <1>6, SMTT(30) DEF ValidRange, EndOf, Extents
  <2>2. ExtentsOverlap(rs[i], rs[j]) <=> a < d /\ c < b
    BY Zenon DEF ExtentsOverlap
  <2> HIDE DEF a, b, c, d
  <2>3. ASSUME a < d, c < b PROVE (a .. b - 1) \cap (c .. d - 1) # {}
    <3>1. CASE a <= c
      <4>1. c \in a .. b - 1 /\ c \in c .. d - 1
        BY <2>1, <2>3, <3>1, SMTT(30)
      <4> QED BY <4>1, Zenon
    <3>2. CASE c < a
      <4>1. a \in a .. b - 1 /\ a \in c .. d - 1
        BY <2>1, <2>3, <3>2, SMTT(30)
      <4> QED BY <4>1, Zenon
    <3> QED BY <2>1, <3>1, <3>2
  <2>4. ASSUME (a .. b - 1) \cap (c .. d - 1) # {} PROVE a < d /\ c < b
    BY <2>1, <2>4
  <2>5. X(i) = a .. b - 1 /\ X(j) = c .. d - 1
    BY Zenon DEF a, b, c, d
  <2> QED BY <2>2, <2>3, <2>4, <2>5, ZenonT(60)
<1> HIDE DEF X
<1>7. accepted <=> /\ \A i \in DOMAIN rs : Pool!ValidExtent(rs[i]) /\ Pool!ExtentBlocks(rs[i]) \cap l0 = {}
                   /\ \A i, j \in DOMAIN rs :
                         i # j => Pool!ExtentBlocks(rs[i]) \cap Pool!ExtentBlocks(rs[j]) = {}
  <2>1. ASSUME accepted
        PROVE  /\ \A i \in DOMAIN rs : Pool!ValidExtent(rs[i]) /\ Pool!ExtentBlocks(rs[i]) \cap l0 = {}
               /\ \A i, j \in DOMAIN rs :
                     i # j => Pool!ExtentBlocks(rs[i]) \cap Pool!ExtentBlocks(rs[j]) = {}
    <3>1. \A i \in DOMAIN rs : Pool!ValidExtent(rs[i]) /\ Pool!ExtentBlocks(rs[i]) \cap l0 = {}
      BY <1>4, <1>5, <2>1, ZenonT(60)
    <3>2. ASSUME NEW i \in DOMAIN rs, NEW j \in DOMAIN rs, i # j PROVE X(i) \cap X(j) = {}
      <4>1. CASE i < j
        BY <1>6, <2>1, <4>1, Zenon
      <4>2. CASE j < i
        <5>1. X(j) \cap X(i) = {}
          BY <1>6, <2>1, <4>2, Zenon
        <5> QED BY <5>1, Zenon
      <4> QED BY <1>3, <3>2, <4>1, <4>2
    <3> QED BY <1>4, <3>1, <3>2, Zenon
  <2>2. ASSUME /\ \A i \in DOMAIN rs : Pool!ValidExtent(rs[i]) /\ Pool!ExtentBlocks(rs[i]) \cap l0 = {}
               /\ \A i, j \in DOMAIN rs :
                     i # j => Pool!ExtentBlocks(rs[i]) \cap Pool!ExtentBlocks(rs[j]) = {}
        PROVE  accepted
    <3>1. \A i \in DOMAIN rs : ValidRange(rs[i]) /\ RangeFullyAllocated(rs[i])
      BY <1>4, <1>5, <2>2, Zenon
    <3>2. ASSUME NEW i \in DOMAIN rs, NEW j \in DOMAIN rs, i < j PROVE ~ExtentsOverlap(rs[i], rs[j])
      <4>1. i # j
        BY <1>3, <3>2
      <4>2. X(i) \cap X(j) = {}
        BY <1>4, <2>2, <4>1, Zenon
      <4> QED BY <1>6, <3>1, <4>2, ZenonT(60)
    <3> QED BY <3>1, <3>2, Zenon
  <2> QED BY <2>1, <2>2, Zenon
<1>8. accepted <=> Pool!Releasable(rs)
  BY <1>2, <1>7, Zenon DEF Pool!Releasable, poolFree
<1>9. Pool!BlocksOf(rs) = BlocksOf(rs)
  BY <1>4, Zenon DEF Pool!BlocksOf, BlocksOf, X
<1>10. CASE accepted
  <2>1. Mark(rs, TRUE) /\ reply' = Reply("release", TRUE, <<>>)
    BY <1>10, Zenon DEF Release
  <2>2. l0' = l0 \cup BlocksOf(rs)
    BY <1>1, <1>10, <2>1, MarkPreserves, ZenonT(60)
  <2>3. poolReply' = Pool!Reply("release", TRUE, {})
    BY <2>1, PoolReply, EmptyBlocks, Zenon
  <2>4. poolFree' = poolFree \cup Pool!BlocksOf(rs)
    BY <1>2, <1>9, <2>2, Zenon
  <2> QED BY <1>8, <1>10, <2>3, <2>4, ZenonT(60) DEF Pool!GiveBack, poolFree, poolReply
<1>11. CASE ~accepted
  <2>1. l0' = l0 /\ reply' = Reply("release", FALSE, <<>>)
    BY <1>11, Zenon DEF Release, bitmap
  <2>2. poolReply' = Pool!Reply("release", FALSE, {})
    BY <2>1, PoolReply, EmptyBlocks, ZenonT(60)
  <2>3. poolFree' = poolFree
    BY <1>2, <2>1, Zenon
  <2> QED BY <1>8, <1>11, <2>2, <2>3, ZenonT(60) DEF Pool!GiveBack, poolFree, poolReply
<1> QED BY <1>10, <1>11, ZenonT(60)

(* InitAllocated and InitFree are Restore.                                 *)
LEMMA PoolRestore ==
  ASSUME IInv, NEW r \in Extents, NEW isFree \in BOOLEAN,
         IF isFree THEN InitFree(r) ELSE InitAllocated(r)
  PROVE  Pool!Restore(r, isFree)
<1> USE GeometryAssumption
<1>1. pc = "idle" /\ results' = results /\ TypeOK /\ SummariesExact
  BY ZenonT(60) DEF InitAllocated, InitFree, IInv, scanning
<1>2. BlocksOf(results) = {} /\ poolFree = l0 /\ poolFree' = l0'
  BY <1>1, IdleAvailable, Zenon DEF poolFree
<1>3. available' \in 0 .. Total
  BY RestoreInvariant, Zenon
<1>4. reply' = Reply("restore", r.size <= 0 \/ ValidRange(r), <<>>)
  <2>1. available' >= 0 /\ available' <= Total
    BY <1>3
  <2>2. CASE isFree
    <3>1. reply' = Reply("restore", r.size <= 0 \/ (ValidRange(r) /\ available' <= Total), <<>>)
      BY <2>2, Zenon DEF InitFree
    <3>2. (r.size <= 0 \/ (ValidRange(r) /\ available' <= Total)) = (r.size <= 0 \/ ValidRange(r))
      BY <2>1, Zenon
    <3> QED BY <3>1, <3>2, ZenonT(60)
  <2>3. CASE ~isFree
    <3>1. reply' = Reply("restore", r.size <= 0 \/ (ValidRange(r) /\ available' >= 0), <<>>)
      BY <2>3, Zenon DEF InitAllocated
    <3>2. (r.size <= 0 \/ (ValidRange(r) /\ available' >= 0)) = (r.size <= 0 \/ ValidRange(r))
      BY <2>1, Zenon
    <3> QED BY <3>1, <3>2, ZenonT(60)
  <2> QED BY <2>2, <2>3, Zenon
<1>5. poolReply' = Pool!Reply("restore", r.size <= 0 \/ ValidRange(r), {})
  BY <1>4, PoolReply, EmptyBlocks, Zenon
<1>6. /\ Pool!ExtentBlocks(r) = r.offset .. EndOf(r) - 1
      /\ Pool!ValidExtent(r) <=> ValidRange(r)
      /\ r.size <= 0 => Pool!ExtentBlocks(r) = {}
      /\ r.size \in Int
  BY ExtentBlocksAgree, Zenon DEF Extents
<1>7. /\ <<r>> \in Seq(Extents) /\ BlocksOf(<<r>>) = r.offset .. EndOf(r) - 1
      /\ DOMAIN <<r>> = {1} /\ <<r>>[1] = r
  BY SingleBlocks, Zenon
<1>8. CASE r.size > 0 /\ ValidRange(r)
  <2>1. Mark(<<r>>, isFree)
    BY <1>8, Zenon DEF InitAllocated, InitFree
  <2>2. l0' = IF isFree THEN l0 \cup BlocksOf(<<r>>) ELSE l0 \ BlocksOf(<<r>>)
    BY <1>1, <1>7, <1>8, <2>1, MarkPreserves, ZenonT(60)
  <2>3. poolFree' = IF isFree THEN poolFree \cup Pool!ExtentBlocks(r)
                    ELSE poolFree \ Pool!ExtentBlocks(r)
    BY <1>2, <1>6, <1>7, <2>2, ZenonT(60)
  <2>4. poolReply' = Pool!Reply("restore", TRUE, {})
    BY <1>5, <1>8, ZenonT(60)
  <2> QED BY <1>6, <1>8, <2>3, <2>4, ZenonT(60) DEF Pool!Restore, poolFree, poolReply
<1>9. CASE ~(r.size > 0 /\ ValidRange(r))
  <2>1. l0' = l0
    BY <1>9, ZenonT(60) DEF InitAllocated, InitFree, bitmap
  <2>2. CASE r.size <= 0
    <3>1. poolFree' = IF isFree THEN poolFree \cup Pool!ExtentBlocks(r)
                      ELSE poolFree \ Pool!ExtentBlocks(r)
      BY <1>2, <1>6, <2>1, <2>2, Zenon
    <3>2. poolReply' = Pool!Reply("restore", TRUE, {})
      BY <1>5, <2>2, Zenon
    <3> QED BY <2>2, <3>1, <3>2, Zenon DEF Pool!Restore, poolFree, poolReply
  <2>3. CASE ~(r.size <= 0)
    <3>1. ~ValidRange(r)
      BY <1>6, <1>9, <2>3
    <3>2. poolReply' = Pool!Reply("restore", FALSE, {}) /\ poolFree' = poolFree
      BY <1>2, <1>5, <2>1, <2>3, <3>1, ZenonT(60)
    <3> QED BY <1>6, <2>3, <3>1, <3>2, ZenonT(60) DEF Pool!Restore, poolFree, poolReply
  <2> QED BY <2>2, <2>3, Zenon
<1> QED BY <1>8, <1>9, ZenonT(60)

(* Every step of the allocator is a step of the pool, or leaves it alone.  *)
LEMMA PoolStep == IInv /\ [Next]_vars => [Pool!Next]_<<poolFree, poolReply>>
<1> SUFFICES ASSUME IInv, [Next]_vars PROVE [Pool!Next]_<<poolFree, poolReply>>
  BY Zenon
<1>1. ASSUME NEW n \in Wants, AllocateRefuse(n) PROVE Pool!Next
  BY <1>1, PoolRefuse, Zenon DEF Pool!Next
<1>2. CASE AllocateScan \/ \E n \in Wants : AllocateStart(n)
  BY <1>2, PoolScan, Zenon
<1>3. CASE AllocateFinish
  <2>1. want \in Wants
    BY <1>3, Zenon DEF AllocateFinish, IInv, LoopInvariant
  <2> QED BY <1>3, <2>1, PoolGrant, Zenon DEF Pool!Next
<1>4. ASSUME NEW rs \in ExtentLists, Release(rs) PROVE Pool!Next
  BY <1>4, PoolGiveBack, Zenon DEF Pool!Next
<1>5. ASSUME NEW rs \in ExtentLists, NEW i \in DOMAIN rs,
             InitAllocated(rs[i]) \/ InitFree(rs[i])
      PROVE  Pool!Next
  <2>1. rs[i] \in Extents
    BY InputAssumption
  <2>2. Pool!Restore(rs[i], TRUE) \/ Pool!Restore(rs[i], FALSE)
    BY <1>5, <2>1, PoolRestore, Zenon
  <2> QED BY <2>2, Zenon DEF Pool!Next
<1>6. CASE UNCHANGED vars
  BY <1>6, Zenon DEF vars, poolFree, poolReply
<1> QED BY <1>1, <1>2, <1>3, <1>4, <1>5, <1>6, ZenonT(60) DEF Next

(* AllocatorV3 implements BlockPool: seen through Allocate, Release,       *)
(* InitAllocated and InitFree, the three-level bitmap with its next-fit    *)
(* search is a set of free blocks that grants exactly what is asked for    *)
(* and refuses only for lack of space.                                     *)
THEOREM Refinement == Spec => ImplementsPool
<1>1. Init => Pool!Init
  BY PoolInit, Zenon
<1>2. IInv /\ [Next]_vars => [Pool!Next]_<<l0 \cup BlocksOf(results),
         [op |-> reply.op, ok |-> reply.ok, blocks |-> BlocksOf(reply.extents)]>>
  BY PoolStep, Zenon DEF poolFree, poolReply
<1> QED BY <1>1, <1>2, Invariant, PTL DEF Spec, ImplementsPool, Pool!Spec

==============================================================================
