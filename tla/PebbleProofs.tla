----------------------------- MODULE PebbleProofs -----------------------------
(***************************************************************************)
(* Proofs about what is kept in Pebble by merging: a key and its operands  *)
(* (MergeLog), and the space bitmap of a device (SpaceBitmap).  They share *)
(* the merge operator and the lemmas on naturals and sequences.            *)
(***************************************************************************)
EXTENDS MergeLog, SpaceBitmap, WellFoundedInduction, TLAPS

----------------------------------------------------------------------------
(* Least and greatest elements                                             *)

(* A set of naturals that is not empty has its least element.              *)
LEMMA MinNat ==
  ASSUME NEW S, S \subseteq Nat, S # {}
  PROVE  \E x \in S : \A y \in S : x <= y
<1> DEFINE R == OpToRel(<, Nat)
<1>1. IsWellFoundedOn(R, Nat)
  BY NatLessThanWellFounded, Zenon
<1>2. \A x, y \in Nat : x < y => <<x, y>> \in R
  BY Zenon DEF OpToRel
<1> HIDE DEF R
<1>3. PICK x \in S : \A y \in S : ~(<<y, x>> \in R)
  BY <1>1, WFMin, Zenon
<1>4. ASSUME NEW y \in S PROVE x <= y
  <2>1. x \in Nat /\ y \in Nat
    BY Zenon
  <2>2. ~(y < x)
    BY <1>2, <1>3, <2>1, Zenon
  <2> QED BY <2>1, <2>2
<1> QED BY <1>4, Zenon

(* And its greatest, if it is bounded.                                     *)
LEMMA MaxNat ==
  ASSUME NEW S, S \subseteq Nat, S # {}, NEW n \in Nat, \A x \in S : x <= n
  PROVE  \E x \in S : \A y \in S : y <= x
<1> DEFINE D == {d \in 0 .. n : n - d \in S}
<1>1. \A x \in S : n - x \in D
  <2> TAKE x \in S
  <2>1. x \in Nat /\ x <= n
    BY Zenon
  <2>2. n - (n - x) = x /\ n - x \in 0 .. n
    BY <2>1
  <2> QED BY <2>2, Zenon
<1>2. D \subseteq Nat /\ D # {}
  <2>1. D \subseteq Nat
    OBVIOUS
  <2> QED BY <1>1, <2>1, Zenon
<1>3. PICK d \in D : \A y \in D : d <= y
  BY <1>2, MinNat, Zenon
<1>4. n - d \in S /\ d \in Nat
  BY <1>2
<1>5. ASSUME NEW y \in S PROVE y <= n - d
  <2>1. d <= n - y
    BY <1>1, <1>3, Zenon
  <2> QED BY <1>4, <2>1
<1> QED BY <1>4, <1>5, Zenon

----------------------------------------------------------------------------
(* Division                                                                *)

(* Where a quotient and a remainder lie.                                   *)
LEMMA DivBounds ==
  ASSUME NEW a \in Nat, NEW d \in Nat \ {0}
  PROVE  /\ a \div d \in Nat /\ a % d \in 0 .. d - 1
         /\ a = (a \div d) * d + (a % d)
OBVIOUS

(* They are the only ones.                                                 *)
LEMMA DivUnique ==
  ASSUME NEW a \in Nat, NEW d \in Nat \ {0}, NEW q \in Int, NEW r \in 0 .. d - 1,
         a = q * d + r
  PROVE  a \div d = q /\ a % d = r
OBVIOUS

(* Multiplication keeps the order, and can be undone.                      *)
LEMMA MulMono ==
  ASSUME NEW a \in Int, NEW b \in Int, NEW c \in Nat \ {0}
  PROVE  (a <= b <=> a * c <= b * c) /\ (a < b <=> a * c < b * c) /\ (a = b <=> a * c = b * c)
OBVIOUS

(* The laws of multiplication the SMT solver has to be told.               *)
LEMMA MulAlgebra ==
  ASSUME NEW a \in Int, NEW b \in Int, NEW c \in Int
  PROVE  /\ a * b \in Int /\ (a * b) * c = a * (b * c) /\ a * b = b * a
         /\ (a + b) * c = a * c + b * c /\ (a - b) * c = a * c - b * c
OBVIOUS

----------------------------------------------------------------------------
(* Sequences                                                               *)

\* Two neighbouring elements of a sequence replaced by one.
Splice(log, m, r) == SubSeq(log, 1, m - 1) \o <<r>> \o SubSeq(log, m + 2, Len(log))

\* What that leaves where.
IsSplice(l2, log, m, r, V) ==
    /\ l2 \in Seq(V) /\ Len(l2) = Len(log) - 1 /\ l2[m] = r
    /\ \A i \in 1 .. m - 1 : l2[i] = log[i]
    /\ \A i \in m + 1 .. Len(log) - 1 : l2[i] = log[i + 1]

(* The positions of a sequence after a splice.                             *)
LEMMA Spliced ==
    ASSUME NEW V, NEW log \in Seq(V), NEW m \in 1 .. Len(log) - 1, NEW r \in V
    PROVE  IsSplice(Splice(log, m, r), log, m, r, V)
<1> DEFINE n == Len(log)
           a == SubSeq(log, 1, m - 1)
           b == SubSeq(log, m + 2, n)
           l2 == Splice(log, m, r)
<1>1. n \in Nat /\ m \in Nat /\ 1 <= m /\ m + 1 <= n /\ \A i \in 1 .. n : log[i] \in V
  OBVIOUS
<1>2. /\ a \in Seq(V) /\ Len(a) = m - 1 /\ \A i \in 1 .. m - 1 : a[i] = log[i]
  BY <1>1
<1>3. /\ b \in Seq(V) /\ Len(b) = n - m - 1
      /\ \A i \in 1 .. n - m - 1 : b[i] = log[i + m + 1]
  BY <1>1
<1> HIDE DEF a, b
<1>4. /\ a \o <<r>> \in Seq(V) /\ Len(a \o <<r>>) = m /\ (a \o <<r>>)[m] = r
      /\ \A i \in 1 .. m - 1 : (a \o <<r>>)[i] = a[i]
  BY <1>1, <1>2
<1> DEFINE c == a \o <<r>>
<1> HIDE DEF l2
<1>5. /\ l2 \in Seq(V) /\ Len(l2) = m + (n - m - 1)
      /\ \A i \in 1 .. m : l2[i] = c[i]
      /\ \A i \in m + 1 .. n - 1 : l2[i] = b[i - m]
  <2>1. c \in Seq(V) /\ Len(c) = m /\ l2 = c \o b
    BY <1>4, Zenon DEF l2, Splice, a, b
  <2> HIDE DEF c
  <2>2. /\ c \o b \in Seq(V) /\ Len(c \o b) = Len(c) + Len(b)
        /\ \A i \in 1 .. Len(c) + Len(b) :
              (c \o b)[i] = IF i <= Len(c) THEN c[i] ELSE b[i - Len(c)]
    <3>1. b \in Seq(V) /\ c \in Seq(V)
      BY <1>3, <2>1, Zenon
    <3>2. c \o b \in Seq(V)
      BY <3>1
    <3>3. Len(c \o b) = Len(c) + Len(b)
      BY <3>1
    <3>4. \A i \in 1 .. Len(c) + Len(b) : (c \o b)[i] = IF i <= Len(c) THEN c[i] ELSE b[i - Len(c)]
      BY <3>1
    <3> QED BY <3>2, <3>3, <3>4, Zenon
  <2> QED BY <1>1, <1>3, <2>1, <2>2
<1>6. \A i \in m + 1 .. n - 1 : b[i - m] = log[i + 1]
  BY <1>1, <1>3
<1>7. /\ l2 \in Seq(V) /\ Len(l2) = n - 1 /\ l2[m] = r
      /\ \A i \in 1 .. m - 1 : l2[i] = log[i]
      /\ \A i \in m + 1 .. n - 1 : l2[i] = log[i + 1]
  BY <1>1, <1>2, <1>4, <1>5, <1>6
<1> QED BY <1>7, Zenon DEF l2, IsSplice

----------------------------------------------------------------------------
(* Merging is associative                                                  *)

(* Counters are added modulo the word size.                                *)
LEMMA CountersMerge ==
    ASSUME NEW c, NEW u \in Counters, NEW v \in Counters, NEW w \in Counters
    PROVE  /\ mossMergeValues(c, u, v) \in Counters
           /\ mossMergeValues(c, mossMergeValues(c, u, v), w)
                = mossMergeValues(c, u, mossMergeValues(c, v, w))
<1>0. WordSize \in Nat \ {0}
  BY MergerAssumption, Zenon
<1>1. ASSUME NEW x \in 0 .. WordSize - 1, NEW y \in 0 .. WordSize - 1
      PROVE  /\ mossMergeValues(c, Num(x), Num(y)) = Num((x + y) % WordSize)
             /\ (x + y) % WordSize \in 0 .. WordSize - 1
  <2>1. Num(x).kind = "num" /\ Num(y).kind = "num" /\ Num(x).n = x /\ Num(y).n = y
    BY DEF Num
  <2>2. mossMergeValues(c, Num(x), Num(y)) = Num((x + y) % WordSize)
    BY <2>1 DEF mossMergeValues
  <2>3. (x + y) % WordSize \in 0 .. WordSize - 1
    BY <1>0
  <2> QED BY <2>2, <2>3, Zenon
<1>2. PICK x \in 0 .. WordSize - 1 : u = Num(x)
  BY Zenon DEF Counters
<1>3. PICK y \in 0 .. WordSize - 1 : v = Num(y)
  BY Zenon DEF Counters
<1>4. PICK z \in 0 .. WordSize - 1 : w = Num(z)
  BY Zenon DEF Counters
<1>5. ASSUME NEW a \in Nat, NEW b \in Nat
      PROVE  ((a % WordSize) + b) % WordSize = (a + b) % WordSize
  <2> DEFINE q == a \div WordSize
             r == a % WordSize
             Q == (a + b) \div WordSize
             R == (a + b) % WordSize
  <2>1. q \in Nat /\ r \in 0 .. WordSize - 1 /\ a = q * WordSize + r
    BY <1>0, DivBounds, Zenon
  <2>2. Q \in Nat /\ R \in 0 .. WordSize - 1 /\ a + b = Q * WordSize + R
    <3>1. a + b \in Nat
      OBVIOUS
    <3> QED BY <1>0, <3>1, DivBounds, Zenon
  <2> HIDE DEF q, r, Q, R
  <2>3. (Q - q) * WordSize = Q * WordSize - q * WordSize /\ Q * WordSize \in Int /\ q * WordSize \in Int
    BY <1>0, <2>1, <2>2, MulAlgebra
  <2>4. r + b = (Q - q) * WordSize + R /\ r + b \in Nat /\ Q - q \in Int
    BY <1>0, <2>1, <2>2, <2>3
  <2>5. (r + b) % WordSize = R
    BY <1>0, <2>2, <2>4, DivUnique
  <2> QED BY <2>5, Zenon DEF r, R
<1>6. /\ x \in Nat /\ y \in Nat /\ z \in Nat /\ x + y \in Nat /\ y + z \in Nat
      /\ (x + y) + z = (y + z) + x
  BY <1>0
<1>7. (((x + y) % WordSize) + z) % WordSize = (((y + z) % WordSize) + x) % WordSize
  <2>1. (((x + y) % WordSize) + z) % WordSize = ((x + y) + z) % WordSize
    BY <1>5, <1>6, Zenon
  <2>2. (((y + z) % WordSize) + x) % WordSize = ((y + z) + x) % WordSize
    BY <1>5, <1>6, Zenon
  <2> QED BY <1>6, <2>1, <2>2, Zenon
<1>8. ((y + z) % WordSize) + x = x + ((y + z) % WordSize)
  BY <1>0, <1>1, <1>6
<1>9. Num((x + y) % WordSize) \in Counters
  BY <1>1, Zenon DEF Counters
<1>10. mossMergeValues(c, mossMergeValues(c, u, v), w) = Num((((x + y) % WordSize) + z) % WordSize)
  BY <1>1, <1>2, <1>3, <1>4, Zenon
<1>11. mossMergeValues(c, u, mossMergeValues(c, v, w)) = Num((x + ((y + z) % WordSize)) % WordSize)
  BY <1>1, <1>2, <1>3, <1>4, Zenon
<1> QED BY <1>1, <1>2, <1>3, <1>7, <1>8, <1>9, <1>10, <1>11, Zenon

\* The order in which stamped documents win: by stamp, then by version.
VersionLess(v, w) == w # Missing /\ (v = Missing \/ v < w)
Newer(u, v) ==
    \/ u.stamp.t < v.stamp.t
    \/ u.stamp.t = v.stamp.t /\ VersionLess(u.version, v.version)

(* Of two stamped documents the newer one wins, the older record if they   *)
(* are even.                                                               *)
LEMMA DocWins ==
    ASSUME NEW u, NEW v, IsDualDoc(u), IsDualDoc(v)
    PROVE  mossMergeValues("json", u, v) = IF Newer(u, v) THEN v ELSE u
<1>0. Missing \notin Int
  BY MergerAssumption, Zenon
<1> DEFINE x == u.stamp.t
           y == v.stamp.t
<1>1. /\ x \in Int /\ y \in Int /\ u.version \in Int \cup {Missing} /\ v.version \in Int \cup {Missing}
  BY Zenon DEF IsDualDoc
<1>2. /\ u.kind = "doc" /\ v.kind = "doc" /\ u.deleteMark = FALSE
      /\ u.stamp = [dual |-> TRUE, t |-> x] /\ v.stamp = [dual |-> TRUE, t |-> y]
  BY DEF IsDualDoc, Doc
<1>3. IsDual(u.stamp) /\ IsDual(v.stamp)
  <2>1. u.stamp # Missing /\ v.stamp # Missing
    BY Zenon DEF IsDualDoc
  <2> QED BY <1>2, <2>1 DEF IsDual
<1>4. compareSyncStamp(u.stamp, v.stamp) = y - x
  <2>1. x # Missing /\ y # Missing
    BY <1>0, <1>1, Zenon
  <2> HIDE DEF x, y
  <2>2. compareVersion(x, y) = y - x
    BY <2>1 DEF compareVersion
  <2> QED BY <1>3, <2>2 DEF compareSyncStamp, x, y
<1> DEFINE by == compareVersion(u.version, v.version)
<1>5. by \in Int /\ (by > 0 <=> VersionLess(u.version, v.version))
  <2>1. CASE u.version = Missing /\ v.version = Missing
    BY <2>1 DEF compareVersion, VersionLess
  <2>2. CASE u.version = Missing /\ v.version # Missing
    BY <2>2 DEF compareVersion, VersionLess
  <2>3. CASE u.version # Missing /\ v.version = Missing
    BY <2>3 DEF compareVersion, VersionLess
  <2>4. CASE u.version # Missing /\ v.version # Missing
    <3>1. by = v.version - u.version
      BY <2>4 DEF compareVersion
    <3>2. u.version \in Int /\ v.version \in Int
      BY <1>1, <2>4, Zenon
    <3>3. VersionLess(u.version, v.version) <=> u.version < v.version
      BY <2>4, Zenon DEF VersionLess
    <3> HIDE DEF by
    <3> QED BY <3>1, <3>2, <3>3
  <2> QED BY <2>1, <2>2, <2>3, <2>4, Zenon
<1> HIDE DEF by
<1>6. mossJSONMerge(u, v) = IF y - x > 0 \/ (y - x = 0 /\ by > 0) THEN v ELSE u
  BY <1>2, <1>3, <1>4, Zenon DEF mossJSONMerge, by
<1>7. mossMergeValues("json", u, v) = mossJSONMerge(u, v)
  BY <1>2 DEF mossMergeValues
<1>8. Newer(u, v) <=> x < y \/ (x = y /\ by > 0)
  BY <1>5, Zenon DEF Newer
<1>9. (y - x > 0 <=> x < y) /\ (y - x = 0 <=> x = y)
  BY <1>1
<1> QED BY <1>6, <1>7, <1>8, <1>9, Zenon

(* That order is a weak order.                                             *)
LEMMA NewerOrder ==
    ASSUME NEW u, NEW v, NEW w, IsDualDoc(u), IsDualDoc(v), IsDualDoc(w)
    PROVE  /\ Newer(u, v) /\ Newer(v, w) => Newer(u, w)
           /\ ~ Newer(u, v) /\ ~ Newer(v, w) => ~ Newer(u, w)
<1>0. Missing \notin Int
  BY MergerAssumption, Zenon
<1>1. /\ u.stamp.t \in Int /\ v.stamp.t \in Int /\ w.stamp.t \in Int
      /\ u.version \in Int \cup {Missing} /\ v.version \in Int \cup {Missing}
      /\ w.version \in Int \cup {Missing}
  BY Zenon DEF IsDualDoc
<1>2. ASSUME NEW a \in Int \cup {Missing}, NEW b \in Int \cup {Missing}, NEW c \in Int \cup {Missing}
      PROVE  /\ VersionLess(a, b) /\ VersionLess(b, c) => VersionLess(a, c)
             /\ ~ VersionLess(a, b) /\ ~ VersionLess(b, c) => ~ VersionLess(a, c)
  <2>1. ASSUME NEW i \in Int, NEW j \in Int, NEW k \in Int
        PROVE  (i < j /\ j < k => i < k) /\ (~ (i < j) /\ ~ (j < k) => ~ (i < k))
    OBVIOUS
  <2> QED BY <1>0, <2>1, Zenon DEF VersionLess
<1> DEFINE p == VersionLess(u.version, v.version)
           q == VersionLess(v.version, w.version)
           r == VersionLess(u.version, w.version)
<1>3. (p /\ q => r) /\ (~ p /\ ~ q => ~ r)
  BY <1>1, <1>2, Zenon
<1>4. /\ Newer(u, v) <=> u.stamp.t < v.stamp.t \/ (u.stamp.t = v.stamp.t /\ p)
      /\ Newer(v, w) <=> v.stamp.t < w.stamp.t \/ (v.stamp.t = w.stamp.t /\ q)
      /\ Newer(u, w) <=> u.stamp.t < w.stamp.t \/ (u.stamp.t = w.stamp.t /\ r)
  BY Zenon DEF Newer
<1> HIDE DEF p, q, r
<1> QED BY <1>1, <1>3, <1>4

(* Stamped documents: the winner is one of them, whatever the grouping.    *)
LEMMA DocsMerge ==
    ASSUME NEW u, NEW v, NEW w, IsDualDoc(u), IsDualDoc(v), IsDualDoc(w)
    PROVE  /\ mossMergeValues("json", u, v) \in {u, v}
           /\ mossMergeValues("json", mossMergeValues("json", u, v), w)
                = mossMergeValues("json", u, mossMergeValues("json", v, w))
<1> DEFINE op(a, b) == mossMergeValues("json", a, b)
<1>1. /\ op(u, v) = (IF Newer(u, v) THEN v ELSE u) /\ op(v, w) = (IF Newer(v, w) THEN w ELSE v)
      /\ op(u, w) = (IF Newer(u, w) THEN w ELSE u)
  BY DocWins, Zenon
<1>2. /\ Newer(u, v) /\ Newer(v, w) => Newer(u, w)
      /\ ~ Newer(u, v) /\ ~ Newer(v, w) => ~ Newer(u, w)
  BY NewerOrder, Zenon
<1> HIDE DEF op
<1>3. op(op(u, v), w) = op(u, op(v, w))
  <2>1. CASE Newer(u, v) /\ Newer(v, w)
    BY <1>1, <1>2, <2>1, Zenon
  <2>2. CASE Newer(u, v) /\ ~ Newer(v, w)
    BY <1>1, <1>2, <2>2, Zenon
  <2>3. CASE ~ Newer(u, v) /\ Newer(v, w)
    BY <1>1, <1>2, <2>3, Zenon
  <2>4. CASE ~ Newer(u, v) /\ ~ Newer(v, w)
    BY <1>1, <1>2, <2>4, Zenon
  <2> QED BY <2>1, <2>2, <2>3, <2>4, Zenon
<1>4. op(u, v) \in {u, v}
  BY <1>1, Zenon
<1> QED BY <1>3, <1>4, Zenon DEF op

\* The values that operands of a key can merge to.
Carrier(c) == IF Operands[c] \subseteq Counters THEN Counters ELSE Operands[c]

(* On them, merging is closed and associative.                             *)
LEMMA CarrierMerges ==
    ASSUME Groupable, NEW c \in DOMAIN Operands
    PROVE  /\ Operands[c] \subseteq Carrier(c) /\ NoValue \notin Carrier(c)
           /\ \A u, v, w \in Carrier(c) :
                /\ mossMergeValues(c, u, v) \in Carrier(c)
                /\ mossMergeValues(c, mossMergeValues(c, u, v), w)
                     = mossMergeValues(c, u, mossMergeValues(c, v, w))
<1>1. NoValue \notin Counters \cup Operands[c]
  BY Zenon DEF Groupable
<1>2. Operands[c] \subseteq Carrier(c) /\ NoValue \notin Carrier(c)
  BY <1>1, Zenon DEF Carrier
<1>3. CASE Operands[c] \subseteq Counters
  <2>1. \A u, v, w \in Counters :
          /\ mossMergeValues(c, u, v) \in Counters
          /\ mossMergeValues(c, mossMergeValues(c, u, v), w)
               = mossMergeValues(c, u, mossMergeValues(c, v, w))
    BY CountersMerge
  <2>2. Carrier(c) = Counters
    BY <1>3, Zenon DEF Carrier
  <2>3. ASSUME NEW u \in Carrier(c), NEW v \in Carrier(c), NEW w \in Carrier(c)
        PROVE  /\ mossMergeValues(c, u, v) \in Carrier(c)
               /\ mossMergeValues(c, mossMergeValues(c, u, v), w)
                    = mossMergeValues(c, u, mossMergeValues(c, v, w))
    <3>1. u \in Counters /\ v \in Counters /\ w \in Counters
      BY <2>2, Zenon
    <3> QED BY <2>1, <2>2, <3>1
  <2> QED BY <1>2, <2>3, Zenon
<1>4. CASE ~ (Operands[c] \subseteq Counters)
  <2>1. c = "json" /\ \A v \in Operands[c] : IsDualDoc(v)
    BY <1>4, Zenon DEF Groupable
  <2>2. Carrier(c) = Operands[c]
    BY <1>4, Zenon DEF Carrier
  <2>3. ASSUME NEW u \in Carrier(c), NEW v \in Carrier(c), NEW w \in Carrier(c)
        PROVE  /\ mossMergeValues(c, u, v) \in Carrier(c)
               /\ mossMergeValues(c, mossMergeValues(c, u, v), w)
                    = mossMergeValues(c, u, mossMergeValues(c, v, w))
    <3>1. IsDualDoc(u) /\ IsDualDoc(v) /\ IsDualDoc(w)
      BY <2>1, <2>2, Zenon
    <3>2. /\ mossMergeValues("json", u, v) \in {u, v}
          /\ mossMergeValues("json", mossMergeValues("json", u, v), w)
               = mossMergeValues("json", u, mossMergeValues("json", v, w))
      BY <3>1, DocsMerge
    <3>3. c = "json"
      BY <2>1, Zenon
    <3>4. mossMergeValues("json", u, v) \in Carrier(c)
      BY <3>2, Zenon
    <3>5. mossMergeValues(c, u, v) \in Carrier(c)
      BY <3>3, <3>4, Zenon
    <3>6. mossMergeValues(c, mossMergeValues(c, u, v), w)
            = mossMergeValues(c, u, mossMergeValues(c, v, w))
      BY <3>2, <3>3, Zenon
    <3> QED BY <3>5, <3>6, Zenon
  <2> QED BY <1>2, <2>3, Zenon
<1> QED BY <1>3, <1>4, Zenon

----------------------------------------------------------------------------
(* Reading and compacting                                                  *)

\* f[i] is the merge of the records from i on, as a read computes it.
Chain(c, log, f) ==
    /\ f \in [1 .. Len(log) -> Carrier(c)]
    /\ \A i \in 1 .. Len(log) :
          f[i] = IF i = Len(log) THEN log[i] ELSE mossMergeValues(c, log[i], f[i + 1])

(* A read returns the head of the chain.                                   *)
LEMMA ReadsChain ==
    ASSUME NEW c, NEW log, Len(log) \in Nat, Len(log) # 0, log # <<>>, NEW f, Chain(c, log, f)
    PROVE  MergedGet(c, log) = f[1]
<1> DEFINE n == Len(log)
           F(g) == [i \in 1 .. n |-> IF i = n THEN log[i] ELSE mossMergeValues(c, log[i], g[i + 1])]
           acc == CHOOSE g : g = F(g)
<1>1. f = F(f)
  <2>1. f = [i \in 1 .. n |-> f[i]]
    BY Zenon DEF Chain
  <2>2. \A i \in 1 .. n : f[i] = IF i = n THEN log[i] ELSE mossMergeValues(c, log[i], f[i + 1])
    BY Zenon DEF Chain
  <2> QED BY <2>1, <2>2, Zenon
<1>2. acc = F(acc)
  BY <1>1, Zenon
<1> HIDE DEF acc
<1>3. MergedGet(c, log) = acc[1]
  BY DEF MergedGet, acc
<1>4. \A i \in 1 .. n : acc[i] = f[i]
  <2> DEFINE B == {i \in 1 .. n : acc[i] # f[i]}
  <2>1. SUFFICES ASSUME B # {} PROVE FALSE
    BY Zenon
  <2>2. B \subseteq Nat /\ \A i \in B : i <= n
    OBVIOUS
  <2>3. PICK i \in B : \A j \in B : j <= i
    BY <2>1, <2>2, MaxNat, Zenon
  <2>4. i \in 1 .. n /\ i # n => i + 1 \in 1 .. n /\ ~ (i + 1 <= i)
    OBVIOUS
  <2>5. i # n => acc[i + 1] = f[i + 1]
    BY <2>3, <2>4, Zenon
  <2>6. /\ acc[i] = IF i = n THEN log[i] ELSE mossMergeValues(c, log[i], acc[i + 1])
        /\ f[i] = IF i = n THEN log[i] ELSE mossMergeValues(c, log[i], f[i + 1])
    BY <1>1, <1>2, <2>3, Zenon
  <2> QED BY <2>3, <2>5, <2>6, Zenon
<1>5. 1 \in 1 .. n
  OBVIOUS
<1> QED BY <1>3, <1>4, <1>5, Zenon

(* The chain after a merge: every link is merged with the new operand.     *)
LEMMA AppendChain ==
    ASSUME Groupable, NEW c \in DOMAIN Operands, NEW log \in Seq(Carrier(c)), log # <<>>,
           NEW f, Chain(c, log, f), NEW v \in Carrier(c)
    PROVE  \E g : /\ Chain(c, Append(log, v), g)
                  /\ g[1] = mossMergeValues(c, f[1], v)
<1> DEFINE n == Len(log)
           V == Carrier(c)
           op(a, b) == mossMergeValues(c, a, b)
           l2 == Append(log, v)
           g == [i \in 1 .. n + 1 |-> IF i = n + 1 THEN v ELSE op(f[i], v)]
<1>1. n \in Nat /\ n # 0 /\ \A i \in 1 .. n : log[i] \in V
  OBVIOUS
<1>2. Len(l2) = n + 1 /\ l2[n + 1] = v /\ \A i \in 1 .. n : l2[i] = log[i]
  OBVIOUS
<1>3. f \in [1 .. n -> V] /\ \A i \in 1 .. n : f[i] = IF i = n THEN log[i] ELSE op(log[i], f[i + 1])
  BY Zenon DEF Chain
<1>4. \A a, b, d \in V : op(a, b) \in V /\ op(op(a, b), d) = op(a, op(b, d))
  BY CarrierMerges, Zenon
<1> HIDE DEF V, op, l2
<1>5. g \in [1 .. n + 1 -> V]
  <2>1. \A i \in 1 .. n + 1 : i # n + 1 => i \in 1 .. n
    BY <1>1
  <2> QED BY <1>3, <1>4, <2>1, Zenon DEF V
<1>6. ASSUME NEW i \in 1 .. n + 1
      PROVE  g[i] = IF i = n + 1 THEN l2[i] ELSE op(l2[i], g[i + 1])
  <2>1. CASE i = n + 1
    BY <1>2, <2>1, Zenon
  <2>2. CASE i = n
    <3>1. i # n + 1 /\ i + 1 = n + 1 /\ n + 1 \in 1 .. n + 1 /\ i \in 1 .. n
      BY <1>1, <2>2
    <3>2. g[i] = op(f[i], v) /\ g[i + 1] = v
      BY <3>1, Zenon
    <3>3. f[i] = log[i] /\ l2[i] = log[i]
      BY <1>2, <1>3, <2>2, <3>1, Zenon
    <3> QED BY <3>1, <3>2, <3>3, Zenon
  <2>3. CASE i # n /\ i # n + 1
    <3>1. i \in 1 .. n /\ i + 1 \in 1 .. n /\ i + 1 # n + 1 /\ i + 1 \in 1 .. n + 1
      BY <1>1, <2>3
    <3>2. g[i] = op(f[i], v) /\ g[i + 1] = op(f[i + 1], v)
      BY <2>3, <3>1, Zenon
    <3>3. f[i] = op(log[i], f[i + 1]) /\ l2[i] = log[i] /\ log[i] \in V /\ f[i + 1] \in V /\ v \in V
      BY <1>1, <1>2, <1>3, <2>3, <3>1, Zenon DEF V
    <3>4. op(op(log[i], f[i + 1]), v) = op(log[i], op(f[i + 1], v))
      BY <1>4, <3>3, ZenonT(60)
    <3> QED BY <2>3, <3>2, <3>3, <3>4, Zenon
  <2> QED BY <2>1, <2>2, <2>3, Zenon
<1>7. g[1] = op(f[1], v)
  <2>1. 1 \in 1 .. n + 1 /\ 1 # n + 1
    BY <1>1
  <2> QED BY <2>1, Zenon
<1> HIDE DEF g
<1>8. Chain(c, l2, g)
  BY <1>2, <1>5, <1>6, Zenon DEF Chain, V, op
<1> QED BY <1>7, <1>8, Zenon DEF l2, op

(* The chain after a compaction: one link is gone.                         *)
LEMMA CompactChain ==
    ASSUME Groupable, NEW c \in DOMAIN Operands, NEW log \in Seq(Carrier(c)),
           NEW f, Chain(c, log, f), NEW m \in 1 .. Len(log) - 1
    PROVE  /\ Compacted(c, log, m) \in Seq(Carrier(c)) /\ Compacted(c, log, m) # <<>>
           /\ \E g : Chain(c, Compacted(c, log, m), g) /\ g[1] = f[1]
<1> DEFINE n == Len(log)
           V == Carrier(c)
           op(a, b) == mossMergeValues(c, a, b)
           r == op(log[m], log[m + 1])
           l2 == Compacted(c, log, m)
           g == [i \in 1 .. n - 1 |-> IF i <= m THEN f[i] ELSE f[i + 1]]
<1>1. n \in Nat /\ m \in Nat /\ 1 <= m /\ m + 1 <= n /\ \A i \in 1 .. n : log[i] \in V
  OBVIOUS
<1>2. f \in [1 .. n -> V] /\ \A i \in 1 .. n : f[i] = IF i = n THEN log[i] ELSE op(log[i], f[i + 1])
  BY Zenon DEF Chain
<1>3. \A a, b, d \in V : op(a, b) \in V /\ op(op(a, b), d) = op(a, op(b, d))
  BY CarrierMerges, Zenon
<1>4. r \in V
  <2>1. m \in 1 .. n /\ m + 1 \in 1 .. n
    BY <1>1
  <2> HIDE DEF op, V
  <2> QED BY <1>1, <1>3, <2>1, Zenon
<1>5. /\ l2 \in Seq(V) /\ Len(l2) = n - 1 /\ l2[m] = r
      /\ \A i \in 1 .. m - 1 : l2[i] = log[i]
      /\ \A i \in m + 1 .. n - 1 : l2[i] = log[i + 1]
  <2>1. l2 = Splice(log, m, r)
    BY Zenon DEF Compacted, Splice
  <2> HIDE DEF r, V, l2
  <2>2. log \in Seq(V)
    BY Zenon DEF V
  <2>3. IsSplice(Splice(log, m, r), log, m, r, V)
    BY <1>4, <2>2, Spliced, Zenon
  <2> QED BY <2>1, <2>3, Zenon DEF IsSplice
<1> HIDE DEF l2, V, op
<1>6. g \in [1 .. n - 1 -> V]
  <2>1. \A i \in 1 .. n - 1 : i \in 1 .. n /\ i + 1 \in 1 .. n
    BY <1>1
  <2> QED BY <1>2, <2>1, Zenon
<1>7. ASSUME NEW i \in 1 .. n - 1
      PROVE  g[i] = IF i = n - 1 THEN l2[i] ELSE op(l2[i], g[i + 1])
  <2>0. i \in 1 .. n /\ i + 1 \in 1 .. n
    BY <1>1
  <2>1. CASE i < m
    <3>1. /\ i <= m /\ i # n /\ i # n - 1 /\ i \in 1 .. m - 1 /\ i + 1 \in 1 .. n - 1 /\ i + 1 <= m
      BY <1>1, <2>1
    <3>2. g[i] = f[i] /\ g[i + 1] = f[i + 1] /\ l2[i] = log[i]
      BY <1>5, <3>1, Zenon
    <3> QED BY <1>2, <2>0, <3>1, <3>2, Zenon
  <2>2. CASE i = m
    <3>1. /\ m <= m /\ m # n /\ m \in 1 .. n /\ m + 1 \in 1 .. n /\ m \in 1 .. n - 1
      BY <1>1
    <3>2. g[m] = f[m] /\ l2[m] = op(log[m], log[m + 1]) /\ f[m] = op(log[m], f[m + 1])
      BY <1>2, <1>5, <3>1, Zenon
    <3>3. CASE m = n - 1
      <4>1. m + 1 = n
        BY <1>1, <3>3
      <4>2. f[m + 1] = log[m + 1]
        BY <1>2, <3>1, <4>1, Zenon
      <4> QED BY <2>2, <3>2, <3>3, <4>2, Zenon
    <3>4. CASE m # n - 1
      <4>1. /\ m + 1 # n /\ m + 1 \in 1 .. n - 1 /\ ~ (m + 1 <= m) /\ (m + 1) + 1 \in 1 .. n
        BY <1>1, <3>4
      <4>2. g[m + 1] = f[(m + 1) + 1] /\ f[m + 1] = op(log[m + 1], f[(m + 1) + 1])
        BY <1>2, <3>1, <4>1, Zenon
      <4>3. log[m] \in V /\ log[m + 1] \in V /\ f[(m + 1) + 1] \in V
        BY <1>1, <1>2, <3>1, <4>1, Zenon
      <4>4. op(op(log[m], log[m + 1]), f[(m + 1) + 1]) = op(log[m], op(log[m + 1], f[(m + 1) + 1]))
        BY <1>3, <4>3, ZenonT(60)
      <4> QED BY <2>2, <3>2, <3>4, <4>2, <4>4, Zenon
    <3> QED BY <3>3, <3>4, Zenon
  <2>3. CASE i > m
    <3>1. i \in m + 1 .. n - 1 /\ ~ (i <= m)
      BY <1>1, <2>3
    <3>2. g[i] = f[i + 1] /\ l2[i] = log[i + 1]
      BY <1>5, <3>1, Zenon
    <3>3. CASE i = n - 1
      <4>1. i + 1 = n
        BY <1>1, <3>3
      <4> QED BY <1>2, <2>0, <3>2, <3>3, <4>1, Zenon
    <3>4. CASE i # n - 1
      <4>1. i + 1 # n /\ i + 1 \in 1 .. n - 1 /\ ~ (i + 1 <= m)
        BY <1>1, <2>3, <3>4
      <4>2. g[i + 1] = f[(i + 1) + 1] /\ f[i + 1] = op(log[i + 1], f[(i + 1) + 1])
        BY <1>2, <2>0, <4>1, Zenon
      <4> QED BY <3>2, <3>4, <4>2, Zenon
    <3> QED BY <3>3, <3>4, Zenon
  <2>4. i < m \/ i = m \/ i > m
    BY <1>1
  <2> QED BY <2>1, <2>2, <2>3, <2>4, Zenon
<1>8. g[1] = f[1]
  <2>1. 1 \in 1 .. n - 1 /\ 1 <= m
    BY <1>1
  <2> QED BY <2>1, Zenon
<1> HIDE DEF g
<1>9. Chain(c, l2, g)
  BY <1>5, <1>6, <1>7, Zenon DEF Chain, V, op
<1>10. l2 # <<>>
  BY <1>1, <1>5
<1> QED BY <1>5, <1>8, <1>9, <1>10, Zenon DEF l2, V

\* A read and the merge of all operands on their arrival are the head of one
\* chain.
MergeInv ==
    /\ class \in DOMAIN Operands
    /\ records \in Seq(Carrier(class))
    /\ records = <<>> => merged = NoValue
    /\ records # <<>> => /\ merged \in Carrier(class)
                         /\ \E f : Chain(class, records, f) /\ f[1] = merged

(* A merge.                                                                *)
LEMMA MergeStep ==
    ASSUME Groupable, MergeInv, NEW v \in Operands[class], Merge(v)
    PROVE  MergeInv'
<1>1. /\ class' = class /\ records' = Append(records, v) /\ class \in DOMAIN Operands
      /\ merged' = IF merged = NoValue THEN v ELSE mossMergeValues(class, merged, v)
      /\ records \in Seq(Carrier(class))
  BY Zenon DEF MergeInv, Merge
<1>2. /\ v \in Carrier(class) /\ NoValue \notin Carrier(class)
      /\ \A a, b \in Carrier(class) : mossMergeValues(class, a, b) \in Carrier(class)
  BY <1>1, CarrierMerges, Zenon
<1> DEFINE l2 == Append(records, v)
           V == Carrier(class)
<1>3. l2 \in Seq(V) /\ l2 # <<>> /\ Len(l2) = Len(records) + 1 /\ Len(records) \in Nat
  <2> HIDE DEF V
  <2>1. v \in V /\ records \in Seq(V)
    BY <1>1, <1>2, Zenon DEF V
  <2> QED BY <2>1
<1>4. \E f : Chain(class, l2, f) /\ f[1] = merged' /\ merged' \in V
  <2>1. CASE records = <<>>
    <3>1. merged = NoValue /\ merged' = v
      BY <1>1, <2>1, Zenon DEF MergeInv
    <3>2. l2 = <<v>> /\ Len(l2) = 1 /\ l2[1] = v /\ 1 .. 1 = {1}
      BY <2>1
    <3> DEFINE f == [i \in {1} |-> v]
    <3>3. f \in [1 .. 1 -> V] /\ f[1] = v /\ \A i \in 1 .. 1 : i = 1
      BY <1>2, <3>2, Zenon
    <3> HIDE DEF f, l2
    <3>4. Chain(class, l2, f)
      BY <3>2, <3>3, Zenon DEF Chain
    <3> QED BY <1>2, <3>1, <3>3, <3>4, Zenon
  <2>2. CASE records # <<>>
    <3>1. PICK f : Chain(class, records, f) /\ f[1] = merged
      BY <2>2, Zenon DEF MergeInv
    <3>2. merged \in V /\ merged # NoValue
      BY <1>2, <2>2, Zenon DEF MergeInv
    <3>3. merged' = mossMergeValues(class, merged, v)
      BY <1>1, <3>2, Zenon
    <3>4. \E g : Chain(class, l2, g) /\ g[1] = mossMergeValues(class, f[1], v)
      BY <1>1, <1>2, <2>2, <3>1, AppendChain
    <3> QED BY <1>2, <3>1, <3>2, <3>3, <3>4, Zenon
  <2> QED BY <2>1, <2>2, Zenon
<1> QED BY <1>1, <1>3, <1>4, Zenon DEF MergeInv

(* A compaction.                                                           *)
LEMMA CompactRecordsStep ==
    ASSUME Groupable, MergeInv, CompactRecords
    PROVE  MergeInv'
<1>1. PICK m \in 1 .. Len(records) - 1 : records' = Compacted(class, records, m)
  BY Zenon DEF CompactRecords
<1>2. /\ class' = class /\ merged' = merged /\ class \in DOMAIN Operands
      /\ records \in Seq(Carrier(class))
  BY Zenon DEF CompactRecords, MergeInv
<1>3. records # <<>>
  BY <1>1, <1>2
<1>4. PICK f : Chain(class, records, f) /\ f[1] = merged
  BY <1>3, Zenon DEF MergeInv
<1>5. /\ records' \in Seq(Carrier(class)) /\ records' # <<>>
      /\ \E g : Chain(class, records', g) /\ g[1] = f[1]
  BY <1>1, <1>2, <1>4, CompactChain
<1>6. merged \in Carrier(class)
  BY <1>3, Zenon DEF MergeInv
<1> QED BY <1>2, <1>4, <1>5, <1>6, Zenon DEF MergeInv

(* What a read returns does not depend on how Pebble groups the operands   *)
(* of a key, for any number of counters of any word size, or of stamped    *)
(* documents that are not deleted, and any compactions.                    *)
THEOREM GroupingNeverMatters ==
    ASSUME Groupable
    PROVE  MergeSpec => []GroupingIrrelevant
<1>1. MergeInit => MergeInv
  <2>1. <<>> \in Seq(Carrier(class))
    OBVIOUS
  <2> QED BY <2>1, Zenon DEF MergeInit, MergeInv
<1>2. MergeInv /\ [MergeNext]_mergeVars => MergeInv'
  <2>1. ASSUME MergeInv, UNCHANGED mergeVars PROVE MergeInv'
    BY <2>1, Zenon DEF MergeInv, mergeVars
  <2> QED BY <2>1, MergeStep, CompactRecordsStep, Zenon DEF MergeNext
<1>3. MergeInv => GroupingIrrelevant
  <2> SUFFICES ASSUME MergeInv PROVE GroupingIrrelevant
    OBVIOUS
  <2>1. CASE records = <<>>
    <3>1. MergedGet(class, records) = NoValue
      BY <2>1 DEF MergedGet
    <3> QED BY <2>1, <3>1, Zenon DEF MergeInv, GroupingIrrelevant
  <2>2. CASE records # <<>>
    <3>1. PICK f : Chain(class, records, f) /\ f[1] = merged
      BY <2>2, Zenon DEF MergeInv
    <3>2. records \in Seq(Carrier(class))
      BY Zenon DEF MergeInv
    <3>3. Len(records) \in Nat /\ Len(records) # 0
      BY <2>2, <3>2
    <3>4. MergedGet(class, records) = f[1]
      BY <2>2, <3>1, <3>3, ReadsChain, Zenon
    <3> QED BY <3>1, <3>4, Zenon DEF GroupingIrrelevant
  <2> QED BY <2>1, <2>2, Zenon
<1> QED BY <1>1, <1>2, <1>3, PTL DEF MergeSpec

----------------------------------------------------------------------------
(* The records of a key                                                    *)

\* The records of a key are deltas of allocations; only the oldest may be a
\* value that was Set.
AreMarks(log) ==
    \A i \in 1 .. Len(log) : \E M \in SUBSET AllBits :
       log[i] = Delta(M, AllBits) \/ (i = 1 /\ log[i] = Space(M))

\* The bits that the records from the i-th on set.
BitsFrom(log, i) == UNION {log[j].lo : j \in i .. Len(log)}

\* The records of a key stand for these bits.
Holds(log, bits) == AreMarks(log) /\ bits = BitsFrom(log, 1)

(* A delta is no bitmap.                                                   *)
LEMMA Differ == \A X, Y, Z : Delta(X, Y) # Space(Z)
BY DEF Delta, Space

(* Bitmaps and deltas of allocations are values, with these bits.          *)
LEMMA MarkIsValue ==
    ASSUME NEW M \in SUBSET AllBits
    PROVE  /\ Space(M) \in SpaceValues /\ Delta(M, AllBits) \in SpaceValues
           /\ Space(M).lo = M /\ Delta(M, AllBits).lo = M
<1>1. AllBits \in SUBSET AllBits
  BY Zenon
<1>2. \A lo, hi \in SUBSET AllBits : Delta(lo, hi) \in SpaceValues
  BY DEF SpaceValues
<1>3. Space(M) \in SpaceValues
  BY DEF SpaceValues
<1>4. Space(M).lo = M /\ Delta(M, AllBits).lo = M
  BY DEF Space, Delta
<1> QED BY <1>1, <1>2, <1>3, <1>4, Zenon

(* Merging the deltas of two allocations gives the delta of both.          *)
LEMMA MergeMarks ==
    ASSUME NEW M \in SUBSET AllBits, NEW N \in SUBSET AllBits
    PROVE  /\ mossMergeValues("space", Delta(M, AllBits), Delta(N, AllBits)) = Delta(M \cup N, AllBits)
           /\ mossMergeValues("space", Space(M), Delta(N, AllBits)) = Space(M \cup N)
<1>1. /\ \A X : Delta(X, AllBits).kind = "delta" /\ Delta(X, AllBits).lo = X
                /\ Delta(X, AllBits).hi = AllBits
      /\ Space(M).kind = "space" /\ Space(M).lo = M
  BY DEF Space, Delta
<1>2. /\ (M \cup N) \cap (AllBits \cap AllBits) = M \cup N
      /\ (M \cup N) \cup (AllBits \cap AllBits) = AllBits
      /\ (M \cup N) \cap AllBits = M \cup N
  BY Zenon
<1>3. "delta" # "num" /\ "space" # "num" /\ "delta" # "space"
  OBVIOUS
<1>4. mossMergeValues("space", Delta(M, AllBits), Delta(N, AllBits))
         = mossBitmapMerge(Delta(M, AllBits), Delta(N, AllBits))
  BY <1>1 DEF mossMergeValues
<1>5. mossMergeValues("space", Space(M), Delta(N, AllBits)) = mossBitmapMerge(Space(M), Delta(N, AllBits))
  BY <1>1 DEF mossMergeValues
<1>6. mossBitmapMerge(Delta(M, AllBits), Delta(N, AllBits))
         = Delta((M \cup N) \cap (AllBits \cap AllBits), (M \cup N) \cup (AllBits \cap AllBits))
  BY <1>1, <1>3, Zenon DEF mossBitmapMerge
<1>7. mossBitmapMerge(Space(M), Delta(N, AllBits)) = Space((M \cup N) \cap AllBits)
  BY <1>1, Zenon DEF mossBitmapMerge
<1> QED BY <1>2, <1>4, <1>5, <1>6, <1>7, Zenon

(* The bits from one record on are its own and those of the later ones.    *)
LEMMA BitsFromNext ==
    ASSUME NEW log, Len(log) \in Nat, NEW i \in 1 .. Len(log)
    PROVE  BitsFrom(log, i) = log[i].lo \cup (IF i = Len(log) THEN {} ELSE BitsFrom(log, i + 1))
<1>1. CASE i = Len(log)
  <2>1. i .. Len(log) = {i}
    BY <1>1
  <2> QED BY <1>1, <2>1, Zenon DEF BitsFrom
<1>2. CASE i # Len(log)
  <2>1. i .. Len(log) = {i} \cup (i + 1 .. Len(log))
    BY <1>2
  <2> QED BY <1>2, <2>1, Zenon DEF BitsFrom
<1> QED BY <1>1, <1>2, Zenon

(* Their bits are bits, and what each record holds.                        *)
LEMMA MarksType ==
    ASSUME NEW log, AreMarks(log), NEW i
    PROVE  /\ i \in 1 .. Len(log) => log[i].lo \in SUBSET AllBits
           /\ i \in 1 .. Len(log) => log[i] = Delta(log[i].lo, AllBits)
                                       \/ (i = 1 /\ log[i] = Space(log[i].lo))
           /\ i \in Nat \ {0} => BitsFrom(log, i) \in SUBSET AllBits
<1>1. ASSUME NEW j \in 1 .. Len(log)
      PROVE  /\ log[j].lo \in SUBSET AllBits
             /\ log[j] = Delta(log[j].lo, AllBits) \/ (j = 1 /\ log[j] = Space(log[j].lo))
  <2>1. PICK M \in SUBSET AllBits : log[j] = Delta(M, AllBits) \/ (j = 1 /\ log[j] = Space(M))
    BY Zenon DEF AreMarks
  <2>2. Space(M).lo = M /\ Delta(M, AllBits).lo = M
    BY MarkIsValue, Zenon
  <2>3. log[j].lo = M
    BY <2>1, <2>2, Zenon
  <2> QED BY <2>1, <2>3, Zenon
<1>2. ASSUME i \in Nat \ {0} PROVE BitsFrom(log, i) \in SUBSET AllBits
  <2>1. \A j \in i .. Len(log) : j \in 1 .. Len(log)
    BY <1>2
  <2>2. \A j \in i .. Len(log) : log[j].lo \subseteq AllBits
    BY <1>1, <2>1, Zenon
  <2>3. BitsFrom(log, i) \subseteq AllBits
    BY <2>2, ZenonT(60) DEF BitsFrom
  <2> QED BY <2>3, Zenon
<1> QED BY <1>1, <1>2, Zenon

(* A read of a key with records, from the newest down, gives the bits that *)
(* its records stand for.                                                  *)
LEMMA ReadsBack ==
    ASSUME NEW log, Len(log) \in Nat, log # <<>>, Len(log) # 0, NEW bits, Holds(log, bits)
    PROVE  MergedGet("space", log) \in {Space(bits), Delta(bits, AllBits)}
<1> DEFINE n == Len(log)
           F(g) == [i \in 1 .. n |->
                      IF i = n THEN log[i] ELSE mossMergeValues("space", log[i], g[i + 1])]
           acc == CHOOSE g : g = F(g)
           U(i) == BitsFrom(log, i)
           w == [i \in 1 .. n |-> IF log[i] = Space(log[i].lo) THEN Space(U(i)) ELSE Delta(U(i), AllBits)]
<1>1. AreMarks(log) /\ bits = U(1) /\ n \in Nat \ {0}
  BY Zenon DEF Holds
<1>3. w = F(w)
  <2>1. ASSUME NEW i \in 1 .. n
        PROVE  w[i] = IF i = n THEN log[i] ELSE mossMergeValues("space", log[i], w[i + 1])
    <3> DEFINE M == log[i].lo
               N == U(i + 1)
    <3>1. /\ w[i] = IF log[i] = Space(M) THEN Space(U(i)) ELSE Delta(U(i), AllBits)
          /\ M \in SUBSET AllBits
          /\ log[i] = Delta(M, AllBits) \/ (i = 1 /\ log[i] = Space(M))
      BY <1>1, MarksType, Zenon
    <3>2. U(i) = M \cup (IF i = n THEN {} ELSE N)
      BY <1>1, BitsFromNext, Zenon
    <3>3. CASE i = n
      <4>1. U(i) = M
        BY <3>2, <3>3, Zenon
      <4> HIDE DEF w, M
      <4>2. w[i] = log[i]
        <5>1. CASE log[i] = Space(M)
          BY <3>1, <4>1, <5>1, Zenon
        <5>2. CASE log[i] # Space(M) /\ log[i] = Delta(M, AllBits)
          BY <3>1, <4>1, <5>2, Zenon
        <5> QED BY <3>1, <5>1, <5>2, Zenon
      <4> QED BY <3>3, <4>2, Zenon
    <3>4. CASE i # n
      <4>1. i + 1 \in 1 .. n /\ i + 1 # 1 /\ i + 1 \in Nat \ {0}
        BY <1>1, <3>4
      <4>2. N \in SUBSET AllBits
        BY <1>1, <4>1, MarksType, Zenon
      <4>3. w[i + 1] = Delta(N, AllBits)
        <5>1. log[i + 1] = Delta(log[i + 1].lo, AllBits)
          BY <1>1, <4>1, MarksType, Zenon
        <5>2. log[i + 1] # Space(log[i + 1].lo)
          BY <5>1, Differ, Zenon
        <5> QED BY <4>1, <5>2, Zenon
      <4>4. U(i) = M \cup N
        BY <3>2, <3>4, Zenon
      <4>5. /\ mossMergeValues("space", Delta(M, AllBits), Delta(N, AllBits)) = Delta(M \cup N, AllBits)
            /\ mossMergeValues("space", Space(M), Delta(N, AllBits)) = Space(M \cup N)
        BY <3>1, <4>2, MergeMarks, Zenon
      <4> HIDE DEF w, M, N
      <4> QED BY <3>1, <3>4, <4>3, <4>4, <4>5, Zenon
    <3> QED BY <3>3, <3>4, Zenon
  <2> QED BY <2>1, Zenon
<1>2. w[1] \in {Space(bits), Delta(bits, AllBits)}
  <2>1. 1 \in 1 .. n
    BY <1>1
  <2> QED BY <1>1, <2>1, Zenon
<1> HIDE DEF w
<1>4. acc = F(acc)
  BY <1>3, SMTT(30)
<1> HIDE DEF acc
<1>5. MergedGet("space", log) = acc[1]
  BY DEF MergedGet, acc
<1>6. \A i \in 1 .. n : acc[i] = w[i]
  <2> DEFINE B == {i \in 1 .. n : acc[i] # w[i]}
  <2>1. SUFFICES ASSUME B # {} PROVE FALSE
    BY Zenon
  <2>2. B \subseteq Nat /\ \A i \in B : i <= n
    BY <1>1
  <2>3. PICK i \in B : \A j \in B : j <= i
    BY <1>1, <2>1, <2>2, MaxNat, Zenon
  <2>4. i \in 1 .. n /\ i # n => i + 1 \in 1 .. n /\ ~ (i + 1 <= i)
    BY <1>1
  <2>5. i # n => acc[i + 1] = w[i + 1]
    BY <2>3, <2>4, Zenon
  <2>6. /\ acc[i] = IF i = n THEN log[i] ELSE mossMergeValues("space", log[i], acc[i + 1])
        /\ w[i] = IF i = n THEN log[i] ELSE mossMergeValues("space", log[i], w[i + 1])
    BY <1>3, <1>4, <2>3, Zenon
  <2> QED BY <2>3, <2>5, <2>6, Zenon
<1>7. 1 \in 1 .. n
  BY <1>1
<1> QED BY <1>2, <1>5, <1>6, <1>7, Zenon

(* What a read returns is a value, and its first half is the bits.         *)
LEMMA ReadBits ==
    ASSUME NEW log \in Seq(SpaceValues), NEW bits \in SUBSET AllBits, Holds(log, bits)
    PROVE  /\ log = <<>> => MergedGet("space", log) = NoValue /\ bits = {}
           /\ log # <<>> => MergedGet("space", log) # NoValue /\ MergedGet("space", log).lo = bits
<1>1. Len(log) \in Nat /\ (Len(log) = 0 <=> log = <<>>)
  OBVIOUS
<1>2. ASSUME log = <<>> PROVE MergedGet("space", log) = NoValue /\ bits = {}
  <2>1. MergedGet("space", log) = NoValue
    BY <1>2, Zenon DEF MergedGet
  <2>2. \A i : i \notin 1 .. Len(log)
    BY <1>1, <1>2
  <2> QED BY <2>1, <2>2, Zenon DEF Holds, BitsFrom
<1>3. ASSUME log # <<>> PROVE MergedGet("space", log) # NoValue /\ MergedGet("space", log).lo = bits
  <2>1. MergedGet("space", log) \in {Space(bits), Delta(bits, AllBits)}
    BY <1>1, <1>3, ReadsBack, Zenon
  <2>2. /\ Space(bits) \in SpaceValues /\ Delta(bits, AllBits) \in SpaceValues
        /\ Space(bits).lo = bits /\ Delta(bits, AllBits).lo = bits
    BY MarkIsValue, Zenon
  <2> QED BY <2>1, <2>2, SpaceAssumption, Zenon
<1> QED BY <1>2, <1>3, Zenon

(* A merge appends the delta of an allocation.                             *)
LEMMA AppendHolds ==
    ASSUME NEW log \in Seq(SpaceValues), NEW X, Holds(log, X), NEW M \in SUBSET AllBits
    PROVE  /\ Append(log, Delta(M, AllBits)) \in Seq(SpaceValues)
           /\ Holds(Append(log, Delta(M, AllBits)), X \cup M)
           /\ Append(log, Delta(M, AllBits)) # <<>>
<1> DEFINE n == Len(log)
           r == Delta(M, AllBits)
           l2 == Append(log, r)
<1>1. r \in SpaceValues /\ r.lo = M
  BY MarkIsValue, Zenon
<1> HIDE DEF r
<1>2. /\ l2 \in Seq(SpaceValues) /\ n \in Nat /\ Len(l2) = n + 1 /\ l2[n + 1] = r
      /\ \A i \in 1 .. n : l2[i] = log[i]
  BY <1>1
<1>3. l2 # <<>>
  BY <1>2
<1> HIDE DEF l2
<1>4. 1 .. n + 1 = (1 .. n) \cup {n + 1}
  BY <1>2
<1>5. AreMarks(l2)
  <2>1. ASSUME NEW i \in 1 .. n
        PROVE  \E N \in SUBSET AllBits : l2[i] = Delta(N, AllBits) \/ (i = 1 /\ l2[i] = Space(N))
    BY <1>2, Zenon DEF Holds, AreMarks
  <2>2. l2[n + 1] = Delta(M, AllBits)
    BY <1>2, Zenon DEF r
  <2> QED BY <1>2, <1>4, <2>1, <2>2, Zenon DEF AreMarks
<1>6. BitsFrom(l2, 1) = X \cup M
  <2>1. X = UNION {log[j].lo : j \in 1 .. n}
    BY Zenon DEF Holds, BitsFrom
  <2>2. BitsFrom(l2, 1) = UNION {l2[j].lo : j \in (1 .. n) \cup {n + 1}}
    BY <1>2, <1>4, Zenon DEF BitsFrom
  <2>3. \A j \in 1 .. n : l2[j].lo = log[j].lo
    BY <1>2, Zenon
  <2>4. l2[n + 1].lo = M
    BY <1>1, <1>2, Zenon
  <2> QED BY <2>1, <2>2, <2>3, <2>4, ZenonT(60)
<1> QED BY <1>2, <1>3, <1>5, <1>6, Zenon DEF Holds, l2, r

(* A compaction of neighbours stands for the same bits.                    *)
LEMMA CompactHolds ==
    ASSUME NEW log \in Seq(SpaceValues), NEW X, Holds(log, X), NEW m \in 1 .. Len(log) - 1
    PROVE  /\ Compacted("space", log, m) \in Seq(SpaceValues)
           /\ Holds(Compacted("space", log, m), X)
           /\ Compacted("space", log, m) # <<>>
<1> DEFINE n == Len(log)
           M == log[m].lo
           N == log[m + 1].lo
           r == mossMergeValues("space", log[m], log[m + 1])
           l2 == Compacted("space", log, m)
<1>1. AreMarks(log) /\ X = UNION {log[j].lo : j \in 1 .. n}
  BY Zenon DEF Holds, BitsFrom
<1>2. /\ n \in Nat /\ m \in Nat /\ 1 <= m /\ m + 1 <= n
      /\ m \in 1 .. n /\ m + 1 \in 1 .. n /\ m + 1 # 1
  OBVIOUS
<1>3. /\ M \in SUBSET AllBits /\ N \in SUBSET AllBits /\ log[m + 1] = Delta(N, AllBits)
      /\ log[m] = Delta(M, AllBits) \/ (m = 1 /\ log[m] = Space(M))
  BY <1>1, <1>2, MarksType, Zenon
<1>4. r = Delta(M \cup N, AllBits) \/ (m = 1 /\ r = Space(M \cup N))
  BY <1>3, MergeMarks, Zenon
<1>5. M \cup N \in SUBSET AllBits
  BY <1>3, Zenon
<1>6. r \in SpaceValues /\ r.lo = M \cup N
  <2> DEFINE K == M \cup N
  <2>1. K \in SUBSET AllBits /\ (r = Delta(K, AllBits) \/ r = Space(K))
    BY <1>4, <1>5, Zenon
  <2> HIDE DEF K, r
  <2>2. r \in SpaceValues /\ r.lo = K
    BY <2>1, MarkIsValue, Zenon
  <2> QED BY <2>2, Zenon DEF K
<1>7. /\ l2 \in Seq(SpaceValues) /\ Len(l2) = n - 1 /\ l2[m] = r
      /\ \A i \in 1 .. m - 1 : l2[i] = log[i]
      /\ \A i \in m + 1 .. n - 1 : l2[i] = log[i + 1]
  <2>1. l2 = Splice(log, m, r)
    BY Zenon DEF Compacted, Splice
  <2> HIDE DEF r, l2
  <2>2. IsSplice(Splice(log, m, r), log, m, r, SpaceValues)
    BY <1>6, Spliced, Zenon
  <2> QED BY <2>1, <2>2, Zenon DEF IsSplice
<1> HIDE DEF l2, r
<1>8. \A i \in 1 .. n - 1 : i \in 1 .. m - 1 \/ i = m \/ (i \in m + 1 .. n - 1 /\ i + 1 \in 1 .. n /\ i + 1 # 1)
  BY <1>2
<1>9. \A i \in 1 .. m - 1 : i \in 1 .. n /\ i \in 1 .. n - 1
  BY <1>2
<1>10. AreMarks(l2)
  <2>1. ASSUME NEW i \in 1 .. n - 1
        PROVE  \E K \in SUBSET AllBits : l2[i] = Delta(K, AllBits) \/ (i = 1 /\ l2[i] = Space(K))
    <3>1. CASE i \in 1 .. m - 1
      BY <1>1, <1>7, <1>9, <3>1, Zenon DEF AreMarks
    <3>2. CASE i = m
      BY <1>4, <1>5, <1>7, <3>2, Zenon
    <3>3. CASE i \in m + 1 .. n - 1 /\ i + 1 \in 1 .. n /\ i + 1 # 1
      BY <1>1, <1>7, <3>3, Zenon DEF AreMarks
    <3> QED BY <1>8, <3>1, <3>2, <3>3, Zenon
  <2> QED BY <1>7, <2>1, Zenon DEF AreMarks
<1>11. BitsFrom(l2, 1) = X
  <2>1. BitsFrom(l2, 1) = UNION {l2[i].lo : i \in 1 .. n - 1}
    BY <1>7, Zenon DEF BitsFrom
  <2>2. ASSUME NEW x, NEW i \in 1 .. n - 1, x \in l2[i].lo PROVE x \in X
    <3>1. CASE i \in 1 .. m - 1
      BY <1>1, <1>7, <1>9, <2>2, <3>1, Zenon
    <3>2. CASE i = m
      BY <1>1, <1>2, <1>6, <1>7, <2>2, <3>2, Zenon
    <3>3. CASE i \in m + 1 .. n - 1 /\ i + 1 \in 1 .. n
      BY <1>1, <1>7, <2>2, <3>3, Zenon
    <3> QED BY <1>8, <3>1, <3>2, <3>3, Zenon
  <2>3. ASSUME NEW x, NEW j \in 1 .. n, x \in log[j].lo PROVE \E i \in 1 .. n - 1 : x \in l2[i].lo
    <3>1. m \in 1 .. n - 1
      BY <1>2
    <3>2. CASE j \in 1 .. m - 1
      BY <1>7, <1>9, <2>3, <3>2, Zenon
    <3>3. CASE j = m \/ j = m + 1
      BY <1>6, <1>7, <2>3, <3>1, <3>3, Zenon
    <3>4. CASE j - 1 \in m + 1 .. n - 1 /\ j - 1 \in 1 .. n - 1 /\ (j - 1) + 1 = j
      <4>1. l2[j - 1] = log[j]
        BY <1>7, <3>4, Zenon
      <4> QED BY <2>3, <3>4, <4>1, Zenon
    <3>5. \/ j \in 1 .. m - 1 \/ j = m \/ j = m + 1
          \/ (j - 1 \in m + 1 .. n - 1 /\ j - 1 \in 1 .. n - 1 /\ (j - 1) + 1 = j)
      BY <1>2
    <3> QED BY <3>2, <3>3, <3>4, <3>5, Zenon
  <2> QED BY <1>1, <2>1, <2>2, <2>3, Zenon
<1>12. l2 # <<>>
  BY <1>2, <1>7
<1> QED BY <1>7, <1>10, <1>11, <1>12, Zenon DEF Holds, l2

(* A value that is Set, alone.                                             *)
LEMMA SetHolds ==
    ASSUME NEW Y \in SUBSET AllBits
    PROVE  <<Space(Y)>> \in Seq(SpaceValues) /\ Holds(<<Space(Y)>>, Y) /\ <<Space(Y)>> # <<>>
<1> DEFINE r == Space(Y)
           l == <<r>>
<1>1. r \in SpaceValues /\ r.lo = Y
  BY MarkIsValue, Zenon
<1> HIDE DEF r
<1>2. /\ l \in Seq(SpaceValues) /\ Len(l) = 1 /\ l[1] = r /\ l # <<>>
  BY <1>1
<1>3. 1 .. 1 = {1}
  OBVIOUS
<1> HIDE DEF l
<1>4. AreMarks(l)
  BY <1>2, <1>3, Zenon DEF AreMarks, r
<1>5. BitsFrom(l, 1) = Y
  BY <1>1, <1>2, <1>3, Zenon DEF BitsFrom
<1> QED BY <1>2, <1>4, <1>5, Zenon DEF Holds, l, r

(* A key that was never written has no bits.                               *)
LEMMA EmptyHolds == <<>> \in Seq(SpaceValues) /\ Holds(<<>>, {})
<1>1. <<>> \in Seq(SpaceValues) /\ Len(<<>>) = 0 /\ \A i : i \notin 1 .. 0
  OBVIOUS
<1>2. AreMarks(<<>>) /\ BitsFrom(<<>>, 1) = {}
  BY <1>1, Zenon DEF AreMarks, BitsFrom
<1> QED BY <1>1, <1>2, Zenon DEF Holds

(* The sizes are positive.                                                 *)
LEMMA Sizes ==
    /\ {TotalBlocks, BlockSize, ByteBits, SpaceLen, InitKeys} \subseteq Nat \ {0}
    /\ BlocksPerSpace \in Nat \ {0} /\ SpaceSize \in Nat \ {0}
    /\ BlocksPerSpace = SpaceLen * ByteBits
<1>1. {TotalBlocks, BlockSize, ByteBits, SpaceLen, InitKeys} \subseteq Nat \ {0}
  BY SpaceAssumption, Zenon
<1>2. \A a, b \in Nat \ {0} : a * b \in Nat \ {0} /\ a * b = b * a
  OBVIOUS
<1> QED BY <1>1, <1>2, Zenon DEF BlocksPerSpace, SpaceSize

----------------------------------------------------------------------------
(* spaceUpdateValues                                                       *)

(* The marked bits are an interval, whatever bytes it spans.               *)
LEMMA MarksAre ==
    ASSUME NEW ms \in Nat, NEW me \in Nat, ms <= me,
           NEW bs \in 0 .. ByteBits - 1, NEW be \in 1 .. ByteBits
    PROVE  Marks(ms, me, bs, be) = (ms * ByteBits + bs) .. (me * ByteBits + be - 1)
<1> DEFINE w == ByteBits
<1>0. w \in Nat \ {0}
  BY Sizes, Zenon
<1>1. ms * w \in Nat /\ me * w \in Nat /\ \A i \in Int : i * w \in Int
  BY <1>0
<1>2. CASE me = ms
  <2>1. Marks(ms, me, bs, be) = {ms * w + i : i \in bs .. be - 1}
    BY <1>2 DEF Marks, Bit
  <2>2. \A x \in (ms * w + bs) .. (ms * w + be - 1) :
           x - ms * w \in bs .. be - 1 /\ x = ms * w + (x - ms * w)
    BY <1>0, <1>1
  <2>3. \A i \in bs .. be - 1 : ms * w + i \in (ms * w + bs) .. (ms * w + be - 1)
    BY <1>0, <1>1
  <2> QED BY <1>2, <2>1, <2>2, <2>3, Zenon
<1>3. CASE me # ms
  <2>0. ms + 1 <= me /\ ms * w + w <= me * w
    <3>1. ms + 1 <= me
      BY <1>3
    <3>2. (ms + 1) * w <= me * w /\ (ms + 1) * w = ms * w + w
      BY <1>0, <3>1, MulMono
    <3> QED BY <3>1, <3>2
  <2>1. Marks(ms, me, bs, be)
          = {ms * w + j : j \in bs .. w - 1}
              \cup {i * w + j : i \in ms + 1 .. me - 1, j \in 0 .. w - 1}
              \cup {me * w + j : j \in 0 .. be - 1}
    BY <1>3 DEF Marks, Bit
  <2>2. ASSUME NEW i \in ms + 1 .. me - 1
        PROVE  i \in Int /\ i * w \in Int /\ ms * w + w <= i * w /\ i * w + w <= me * w
    <3>1. i \in Int /\ ms + 1 <= i /\ i + 1 <= me
      OBVIOUS
    <3>2. (ms + 1) * w <= i * w /\ (i + 1) * w <= me * w
      BY <1>0, <3>1, MulMono
    <3>3. (ms + 1) * w = ms * w + w /\ (i + 1) * w = i * w + w /\ i * w \in Int
      BY <1>0, <3>1
    <3> QED BY <3>1, <3>2, <3>3, Zenon
  <2> DEFINE R == (ms * w + bs) .. (me * w + be - 1)
  <2>3. ASSUME NEW x \in Marks(ms, me, bs, be) PROVE x \in R
    <3>1. CASE \E j \in bs .. w - 1 : x = ms * w + j
      BY <1>0, <1>1, <2>0, <3>1
    <3>2. CASE \E i \in ms + 1 .. me - 1, j \in 0 .. w - 1 : x = i * w + j
      <4>1. PICK i \in ms + 1 .. me - 1, j \in 0 .. w - 1 : x = i * w + j
        BY <3>2, Zenon
      <4>2. i * w \in Int /\ ms * w + w <= i * w /\ i * w + w <= me * w
        BY <2>2, Zenon
      <4> QED BY <1>0, <1>1, <4>1, <4>2
    <3>3. CASE \E j \in 0 .. be - 1 : x = me * w + j
      BY <1>0, <1>1, <2>0, <3>3
    <3> QED BY <2>1, <2>3, <3>1, <3>2, <3>3
  <2>4. ASSUME NEW x \in R PROVE x \in Marks(ms, me, bs, be)
    <3> DEFINE i == x \div w
               j == x % w
    <3>0. x \in Nat /\ ms * w + bs <= x /\ x <= me * w + be - 1
      BY <1>0, <1>1
    <3>1. i \in Nat /\ j \in 0 .. w - 1 /\ x = i * w + j /\ i * w \in Nat
      <4>1. i \in Nat /\ j \in 0 .. w - 1 /\ x = i * w + j
        BY <1>0, <3>0, DivBounds, Zenon
      <4> HIDE DEF i, j
      <4>2. i * w \in Nat
        BY <1>0, <4>1
      <4> QED BY <4>1, <4>2, Zenon
    <3> HIDE DEF i, j
    <3>2. ms <= i
      <4>1. ms * w < (i + 1) * w
        BY <1>0, <1>1, <3>0, <3>1
      <4>2. ms < i + 1
        BY <1>0, <3>1, <4>1, MulMono
      <4> QED BY <3>1, <4>2
    <3>3. i <= me
      <4>1. i * w < (me + 1) * w
        BY <1>0, <1>1, <3>0, <3>1
      <4>2. i < me + 1
        BY <1>0, <3>1, <4>1, MulMono
      <4> QED BY <3>1, <4>2
    <3>4. CASE i = ms
      <4>1. j \in bs .. w - 1
        BY <1>0, <1>1, <3>0, <3>1, <3>4
      <4> QED BY <2>1, <3>1, <3>4, <4>1
    <3>5. CASE i = me
      <4>1. j \in 0 .. be - 1
        BY <1>0, <1>1, <3>0, <3>1, <3>5
      <4> QED BY <2>1, <3>1, <3>5, <4>1
    <3>6. CASE i # ms /\ i # me
      <4>1. i \in ms + 1 .. me - 1
        BY <3>1, <3>2, <3>3, <3>6
      <4> QED BY <2>1, <3>1, <4>1
    <3> QED BY <3>4, <3>5, <3>6, Zenon
  <2> QED BY <1>3, <2>3, <2>4, Zenon
<1> QED BY <1>2, <1>3, Zenon

\* The bits of a space key for a set of blocks.
BitsOf(k, S) == {b \in AllBits : k * BlocksPerSpace + b \in S}

(* Where an extent begins: its first block, and that block's key and bit.  *)
LEMMA ExtentStart ==
    ASSUME NEW off \in Nat, off % BlockSize = 0
    PROVE  LET first == off \div BlockSize
               k     == off \div SpaceSize
               bit   == (off - k * SpaceSize) \div BlockSize
           IN /\ first \in Nat /\ off = first * BlockSize /\ k \in Nat
              /\ bit \in 0 .. BlocksPerSpace - 1 /\ first = k * BlocksPerSpace + bit
<1> DEFINE first == off \div BlockSize
           k     == off \div SpaceSize
           bit   == (off - k * SpaceSize) \div BlockSize
           c     == first - k * BlocksPerSpace
<1>0. BlockSize \in Nat \ {0} /\ BlocksPerSpace \in Nat \ {0} /\ SpaceSize \in Nat \ {0}
  BY Sizes, Zenon
<1>1. first \in Nat /\ off = first * BlockSize
  <2>1. first \in Nat /\ off = first * BlockSize + (off % BlockSize)
    BY <1>0, DivBounds, Zenon
  <2> HIDE DEF first
  <2> QED BY <1>0, <2>1
<1>2. k \in Nat /\ off % SpaceSize \in 0 .. SpaceSize - 1 /\ off = k * SpaceSize + (off % SpaceSize)
  BY <1>0, DivBounds, Zenon
<1> HIDE DEF first, k
<1>3. /\ k * BlocksPerSpace \in Int /\ k * SpaceSize = (k * BlocksPerSpace) * BlockSize
      /\ SpaceSize = BlocksPerSpace * BlockSize
  BY <1>0, <1>2, MulAlgebra DEF SpaceSize
<1>4. c \in Int /\ c * BlockSize = off - k * SpaceSize
  <2>1. c \in Int
    BY <1>1, <1>3
  <2>2. c * BlockSize = first * BlockSize - (k * BlocksPerSpace) * BlockSize
    BY <1>0, <1>1, <1>3, MulAlgebra
  <2> QED BY <1>1, <1>3, <2>1, <2>2
<1> HIDE DEF c
<1>5. 0 * BlockSize <= c * BlockSize /\ c * BlockSize < BlocksPerSpace * BlockSize
  <2>1. k * SpaceSize \in Int
    BY <1>0, <1>2
  <2> QED BY <1>0, <1>2, <1>3, <1>4, <2>1
<1>6. 0 <= c /\ c < BlocksPerSpace
  BY <1>0, <1>4, <1>5, MulMono
<1>7. bit = c
  <2>1. c * BlockSize \in Nat /\ c * BlockSize = c * BlockSize + 0 /\ 0 \in 0 .. BlockSize - 1
    BY <1>0, <1>4, <1>6
  <2>2. (c * BlockSize) \div BlockSize = c
    BY <1>0, <1>4, <2>1, DivUnique
  <2> QED BY <1>4, <2>2, Zenon
<1>8. c \in 0 .. BlocksPerSpace - 1 /\ first = k * BlocksPerSpace + c
  BY <1>0, <1>1, <1>3, <1>4, <1>6, SMTT(30) DEF c
<1> QED BY <1>1, <1>2, <1>7, <1>8, Zenon DEF first, k

(* Where it ends: the key that has its last block, and how many bits of    *)
(* that key lie before the end.  A block begun counts as one.              *)
LEMMA ExtentEnd ==
    ASSUME NEW off \in Nat, off % BlockSize = 0, NEW size \in Nat \ {0}
    PROVE  LET end     == off + size
               k       == (end \div SpaceSize) - (IF end % SpaceSize = 0 THEN 1 ELSE 0)
               whole   == (end - k * SpaceSize) \div BlockSize
               partial == IF size % BlockSize > 0 THEN 1 ELSE 0
           IN /\ k \in Nat /\ whole \in Nat /\ whole + partial \in 1 .. BlocksPerSpace
              /\ (off \div BlockSize) + FitBlocks(size) = k * BlocksPerSpace + whole + partial
              /\ off \div SpaceSize <= k
<1> DEFINE end     == off + size
           q       == end \div SpaceSize
           r       == end % SpaceSize
           k       == q - (IF r = 0 THEN 1 ELSE 0)
           d       == end - k * SpaceSize
           whole   == d \div BlockSize
           m       == size % BlockSize
           partial == IF m > 0 THEN 1 ELSE 0
           first   == off \div BlockSize
           full    == size \div BlockSize
           c       == first + full - k * BlocksPerSpace
<1>0. BlockSize \in Nat \ {0} /\ BlocksPerSpace \in Nat \ {0} /\ SpaceSize \in Nat \ {0}
  BY Sizes, Zenon
<1>1. end \in Nat /\ end > 0
  OBVIOUS
<1>2. q \in Nat /\ r \in 0 .. SpaceSize - 1 /\ end = q * SpaceSize + r
  BY <1>0, <1>1, DivBounds, Zenon
<1> HIDE DEF q, r
<1>3. k \in Nat /\ d \in 1 .. SpaceSize
  <2>1. CASE r = 0
    <3>1. q # 0
      BY <1>0, <1>1, <1>2, <2>1
    <3>2. k = q - 1 /\ k \in Nat
      BY <1>2, <2>1, <3>1
    <3>3. (q - 1) * SpaceSize = q * SpaceSize - SpaceSize
      BY <1>0, <1>2
    <3>4. d = end - (q - 1) * SpaceSize
      BY <3>2, Zenon
    <3> HIDE DEF d, k, end
    <3>5. q * SpaceSize \in Int
      BY <1>0, <1>2
    <3>6. d = SpaceSize
      BY <1>0, <1>2, <2>1, <3>3, <3>4, <3>5
    <3> QED BY <1>0, <3>2, <3>6
  <2>2. CASE r # 0
    <3>1. k = q
      BY <1>2, <2>2
    <3>2. d = end - q * SpaceSize
      BY <3>1, Zenon
    <3> HIDE DEF d, k, end
    <3>3. q * SpaceSize \in Int
      BY <1>0, <1>2
    <3> QED BY <1>0, <1>2, <2>2, <3>1, <3>2, <3>3
  <2> QED BY <2>1, <2>2, Zenon
<1>4. first \in Nat /\ off = first * BlockSize
  BY ExtentStart, Zenon
<1>5. full \in Nat /\ m \in 0 .. BlockSize - 1 /\ size = full * BlockSize + m
  BY <1>0, DivBounds, Zenon
<1> HIDE DEF k, first, full, m
<1>6. /\ k * BlocksPerSpace \in Int /\ k * SpaceSize = (k * BlocksPerSpace) * BlockSize
      /\ SpaceSize = BlocksPerSpace * BlockSize
  BY <1>0, <1>3, MulAlgebra DEF SpaceSize
<1>7. c \in Int /\ d = c * BlockSize + m
  <2>1. c \in Int
    BY <1>4, <1>5, <1>6
  <2>2. c * BlockSize = (first + full) * BlockSize - (k * BlocksPerSpace) * BlockSize
    BY <1>0, <1>4, <1>5, <1>6, MulAlgebra
  <2>3. (first + full) * BlockSize = first * BlockSize + full * BlockSize
    BY <1>0, <1>4, <1>5, MulAlgebra
  <2>4. first * BlockSize \in Int /\ full * BlockSize \in Int /\ k * SpaceSize \in Int
    BY <1>0, <1>3, <1>4, <1>5
  <2>5. d = first * BlockSize + (full * BlockSize + m) - k * SpaceSize
    <3>1. d = (off + size) - k * SpaceSize
      BY Zenon
    <3> HIDE DEF d
    <3> QED BY <1>4, <1>5, <2>4, <3>1
  <2> HIDE DEF c, d
  <2> QED BY <1>5, <1>6, <2>1, <2>2, <2>3, <2>4, <2>5
<1>8. whole = c
  <2> HIDE DEF c, d
  <2>1. d \in Nat
    BY <1>0, <1>3
  <2> QED BY <1>0, <1>5, <1>7, <2>1, DivUnique, Zenon
<1>9. c \in Nat /\ c + partial \in 1 .. BlocksPerSpace
  <2> HIDE DEF c, d
  <2>0. c * BlockSize \in Int
    BY <1>0, <1>7
  <2>1. 0 * BlockSize < (c + 1) * BlockSize
    BY <1>0, <1>3, <1>5, <1>7, <2>0
  <2>2. 0 < c + 1
    BY <1>0, <1>7, <2>1, MulMono
  <2>3. c * BlockSize + m <= BlocksPerSpace * BlockSize /\ 0 < c * BlockSize + m
    BY <1>0, <1>3, <1>6, <1>7, <2>0
  <2>4. CASE m > 0
    <3>1. c * BlockSize < BlocksPerSpace * BlockSize
      BY <1>0, <1>5, <1>6, <2>0, <2>3, <2>4
    <3>2. c < BlocksPerSpace
      BY <1>0, <1>7, <3>1, MulMono
    <3> QED BY <1>0, <1>7, <2>2, <2>4, <3>2
  <2>5. CASE ~ (m > 0)
    <3>1. c * BlockSize <= BlocksPerSpace * BlockSize /\ 0 * BlockSize < c * BlockSize
      BY <1>0, <1>5, <1>6, <2>0, <2>3, <2>5
    <3>2. c <= BlocksPerSpace /\ 0 < c
      BY <1>0, <1>7, <3>1, MulMono
    <3> QED BY <1>0, <1>7, <2>5, <3>2
  <2> QED BY <2>4, <2>5, Zenon
<1>10. FitBlocks(size) = full + partial
  <2>1. FitBlocks(size) = full + (IF m = 0 THEN 0 ELSE 1)
    BY Zenon DEF FitBlocks, full, m
  <2> QED BY <1>5, <2>1
<1>11. first + FitBlocks(size) = k * BlocksPerSpace + c + partial
  BY <1>4, <1>5, <1>6, <1>10
<1>12. off \div SpaceSize <= k
  <2> DEFINE p == off \div SpaceSize
  <2>1. p \in Nat /\ off = p * SpaceSize + (off % SpaceSize) /\ off % SpaceSize \in 0 .. SpaceSize - 1
    BY <1>0, DivBounds, Zenon
  <2> HIDE DEF p
  <2>2. k * SpaceSize \in Int /\ p * SpaceSize \in Int
    BY <1>0, <1>3, <2>1
  <2>3. p * SpaceSize < k * SpaceSize + SpaceSize
    BY <1>0, <1>3, <2>1, <2>2
  <2>4. (k + 1) * SpaceSize = k * SpaceSize + SpaceSize
    BY <1>0, <1>3
  <2>5. p < k + 1
    BY <1>0, <1>3, <2>1, <2>3, <2>4, MulMono
  <2> QED BY <1>3, <2>1, <2>5 DEF p
<1>13. /\ k = (end \div SpaceSize) - (IF end % SpaceSize = 0 THEN 1 ELSE 0)
       /\ partial = IF size % BlockSize > 0 THEN 1 ELSE 0
       /\ whole = (end - k * SpaceSize) \div BlockSize /\ first = off \div BlockSize
  BY Zenon DEF k, q, r, m, first
<1> HIDE DEF end, d, whole, partial, c
<1> QED BY <1>3, <1>8, <1>9, <1>11, <1>12, <1>13 DEF end

(* spaceUpdateValues has a delta for every key in which the extent has     *)
(* blocks, and it marks exactly the bits of those.                         *)
LEMMA UpdateValues ==
    ASSUME NEW e \in Extents, NEW allocated \in BOOLEAN, NEW k \in Nat
    PROVE  LET values == spaceUpdateValues(e.Offset, e.Size, allocated)
               i      == k - (e.Offset \div SpaceSize) + 1
               bits   == BitsOf(k, BlocksOf(e))
           IN /\ i \in DOMAIN values =>
                    values[i] = IF allocated THEN Delta(bits, AllBits) ELSE Delta({}, AllBits \ bits)
              /\ i \notin DOMAIN values => bits = {}
<1> DEFINE offset == e.Offset
           size == e.Size
           keyStart == offset \div SpaceSize
           end == offset + size
           keyOffset == (end \div SpaceSize) - (IF end % SpaceSize = 0 THEN 1 ELSE 0)
           start == (offset - keyStart * SpaceSize) \div BlockSize
           endBlock == (end - keyOffset * SpaceSize) \div BlockSize
           partial == IF size % BlockSize > 0 THEN 1 ELSE 0
           bit == (endBlock % ByteBits) + partial
           byte == endBlock \div ByteBits
           keyEnd == keyOffset - (IF bit = 0 /\ byte = 0 THEN 1 ELSE 0)
           markEnd == IF bit = 0 THEN byte - 1 ELSE byte
           bitEnd == IF bit = 0 THEN ByteBits ELSE bit
           ms == IF k = keyStart THEN start \div ByteBits ELSE 0
           me == IF k = keyEnd THEN markEnd ELSE SpaceLen - 1
           bs == IF k = keyStart THEN start % ByteBits ELSE 0
           be == IF k = keyEnd THEN bitEnd ELSE ByteBits
           values == spaceUpdateValues(offset, size, allocated)
           i == k - keyStart + 1
           bits == BitsOf(k, BlocksOf(e))
           n == BlocksPerSpace
           last == endBlock + partial
<1>0. /\ ByteBits \in Nat \ {0} /\ SpaceLen \in Nat \ {0} /\ n \in Nat \ {0}
      /\ n = SpaceLen * ByteBits
      /\ offset \in Nat /\ offset % BlockSize = 0 /\ size \in Nat \ {0}
  BY Sizes, SpaceAssumption, Zenon
<1>1. /\ DOMAIN values = 1 .. keyEnd - keyStart + 1
      /\ i \in DOMAIN values =>
            values[i] = simpleSpaceUpdateValue(
                          IF keyStart + i - 1 = keyStart THEN start \div ByteBits ELSE 0,
                          IF keyStart + i - 1 = keyEnd THEN markEnd ELSE SpaceLen - 1,
                          IF keyStart + i - 1 = keyStart THEN start % ByteBits ELSE 0,
                          IF keyStart + i - 1 = keyEnd THEN bitEnd ELSE ByteBits, allocated)
  BY Zenon DEF spaceUpdateValues
<1>2. /\ keyStart \in Nat /\ start \in 0 .. n - 1 /\ offset \div BlockSize \in Nat
      /\ offset \div BlockSize = keyStart * n + start
  BY <1>0, ExtentStart, Zenon
<1>3. /\ keyOffset \in Nat /\ endBlock \in Nat /\ last \in 1 .. n /\ keyStart <= keyOffset
      /\ (offset \div BlockSize) + FitBlocks(size) = keyOffset * n + endBlock + partial
  <2>1. ASSUME NEW off \in Nat, NEW sz \in Nat \ {0}, off = offset, sz = size
        PROVE  /\ keyOffset \in Nat /\ endBlock \in Nat /\ last \in 1 .. n /\ keyStart <= keyOffset
               /\ (off \div BlockSize) + FitBlocks(sz) = keyOffset * n + endBlock + partial
    <3> HIDE DEF offset, size
    <3>1. off % BlockSize = 0
      BY <1>0, <2>1, Zenon
    <3>2. keyOffset \in Nat /\ endBlock \in Nat
      BY <2>1, <3>1, ExtentEnd, Zenon
    <3>3. last \in 1 .. n
      BY <2>1, <3>1, ExtentEnd, ZenonT(60)
    <3>4. keyStart <= keyOffset
      BY <2>1, <3>1, ExtentEnd, Zenon
    <3>5. (off \div BlockSize) + FitBlocks(sz) = keyOffset * n + endBlock + partial
      BY <2>1, <3>1, ExtentEnd
    <3> QED BY <3>2, <3>3, <3>4, <3>5, Zenon
  <2> QED BY <1>0, <2>1, Zenon
<1> HIDE DEF values
<1> HIDE DEF keyStart, keyOffset, start, endBlock
<1>4. /\ byte \in Nat /\ endBlock % ByteBits \in 0 .. ByteBits - 1
      /\ endBlock = byte * ByteBits + (endBlock % ByteBits)
  BY <1>0, <1>3, DivBounds, Zenon
<1>5. partial \in {0, 1}
  BY Zenon
<1> HIDE DEF byte, partial
<1>6. /\ keyEnd = keyOffset /\ markEnd \in Nat /\ bitEnd \in 1 .. ByteBits
      /\ markEnd * ByteBits + bitEnd = last
  <2> DEFINE rem == endBlock % ByteBits
  <2>1. rem \in 0 .. ByteBits - 1 /\ endBlock = byte * ByteBits + rem /\ bit = rem + partial
    BY <1>4, Zenon
  <2> HIDE DEF rem, bit
  <2>2. CASE bit = 0
    <3>1. rem = 0 /\ partial = 0 /\ byte # 0
      BY <1>0, <1>3, <1>4, <1>5, <2>1, <2>2
    <3>2. (byte - 1) * ByteBits + ByteBits = byte * ByteBits /\ byte - 1 \in Nat
      BY <1>0, <1>4, <3>1
    <3>3. keyEnd = keyOffset /\ markEnd = byte - 1 /\ bitEnd = ByteBits
      BY <1>3, <2>2, <3>1
    <3>4. last = byte * ByteBits
      BY <1>0, <1>3, <1>4, <2>1, <3>1
    <3> QED BY <1>0, <3>2, <3>3, <3>4
  <2>3. CASE bit # 0
    <3>1. bit \in 1 .. ByteBits
      BY <1>0, <1>5, <2>1, <2>3
    <3>2. keyEnd = keyOffset /\ markEnd = byte /\ bitEnd = bit
      BY <1>3, <2>3
    <3>3. byte * ByteBits + bit = last
      BY <1>0, <1>3, <1>4, <1>5, <2>1
    <3> QED BY <1>4, <3>1, <3>2, <3>3
  <2> QED BY <2>2, <2>3, Zenon
<1>7. /\ start \div ByteBits \in Nat /\ start % ByteBits \in 0 .. ByteBits - 1
      /\ start = (start \div ByteBits) * ByteBits + (start % ByteBits)
  <2>1. start \in Nat
    BY <1>0, <1>2
  <2> QED BY <1>0, <2>1, DivBounds, Zenon
<1> HIDE DEF keyEnd, markEnd, bitEnd, last
<1>8. i \in DOMAIN values <=> keyStart <= k /\ k <= keyEnd
  BY <1>1, <1>2, <1>3, <1>6
<1> DEFINE a == keyStart * n + start
           z == keyEnd * n + last
<1>9. BlocksOf(e) = a .. z - 1 /\ a \in Nat /\ z \in Nat /\ a < z
  <2>1. BlocksOf(e) = (offset \div BlockSize) .. (offset \div BlockSize) + FitBlocks(size) - 1
    BY Zenon DEF BlocksOf
  <2>2. keyStart * n \in Nat /\ keyEnd * n \in Nat
    BY <1>0, <1>2, <1>3, <1>6
  <2>3. keyOffset * n + endBlock + partial = z
    BY <1>3, <1>5, <1>6, <2>2 DEF last
  <2>4. FitBlocks(size) >= 1 /\ FitBlocks(size) \in Nat
    <3> DEFINE f == size \div BlockSize
               m == size % BlockSize
    <3>1. BlockSize \in Nat \ {0}
      BY Sizes, Zenon
    <3>2. f \in Nat /\ m \in 0 .. BlockSize - 1 /\ size = f * BlockSize + m
      BY <1>0, <3>1, DivBounds, Zenon
    <3>3. FitBlocks(size) = f + (IF m = 0 THEN 0 ELSE 1)
      BY Zenon DEF FitBlocks
    <3> HIDE DEF f, m
    <3>4. m = 0 => f # 0
      BY <1>0, <3>1, <3>2
    <3> QED BY <3>1, <3>2, <3>3, <3>4
  <2>5. a + FitBlocks(size) = z
    BY <1>2, <1>3, <2>3, Zenon
  <2>6. a \in Nat /\ z \in Nat
    BY <1>2, <1>3, <1>6, <2>2
  <2>7. BlocksOf(e) = a .. a + FitBlocks(size) - 1
    BY <1>2, <2>1, Zenon
  <2> HIDE DEF a, z
  <2> QED BY <2>4, <2>5, <2>6, <2>7
<1>10. \A x : x \in bits <=> x \in 0 .. n - 1 /\ a <= k * n + x /\ k * n + x < z
  <2>1. k * n \in Nat
    BY <1>0
  <2>2. \A x : x \in bits <=> x \in 0 .. n - 1 /\ k * n + x \in a .. z - 1
    BY <1>9, Zenon DEF BitsOf, AllBits
  <2> HIDE DEF a, z, bits
  <2>3. \A x \in 0 .. n - 1 : k * n + x \in a .. z - 1 <=> a <= k * n + x /\ k * n + x < z
    BY <1>0, <1>9, <2>1
  <2> QED BY <2>2, <2>3, Zenon
<1>11. /\ \A p, q \in Nat : p < q => p * n + n <= q * n
       /\ \A p \in Nat : p * n \in Nat
  <2>1. ASSUME NEW p \in Nat, NEW q \in Nat, p < q PROVE p * n + n <= q * n
    <3>1. (p + 1) * n <= q * n
      BY <1>0, <2>1, MulMono
    <3>2. (p + 1) * n = p * n + n
      BY <1>0
    <3> QED BY <3>1, <3>2
  <2> QED BY <1>0, <2>1
<1>12. ASSUME i \notin DOMAIN values PROVE bits = {}
  <2>1. k < keyStart \/ k > keyEnd
    BY <1>2, <1>3, <1>6, <1>8, <1>12
  <2>2. ASSUME NEW x \in bits PROVE FALSE
    <3>1. x \in 0 .. n - 1 /\ a <= k * n + x /\ k * n + x < z
      BY <1>10, <2>2, Zenon
    <3>2. CASE k < keyStart
      <4>1. k * n + n <= keyStart * n /\ keyStart * n \in Nat /\ k * n \in Nat
        BY <1>2, <1>11, <3>2, Zenon
      <4> QED BY <1>0, <1>2, <3>1, <4>1
    <3>3. CASE k > keyEnd
      <4>1. keyEnd * n + n <= k * n /\ keyEnd * n \in Nat /\ k * n \in Nat
        BY <1>3, <1>6, <1>11, <3>3
      <4> QED BY <1>0, <1>3, <3>1, <4>1
    <3> QED BY <2>1, <3>2, <3>3, Zenon
  <2> QED BY <2>2, Zenon
<1>13. ASSUME i \in DOMAIN values
       PROVE  values[i] = IF allocated THEN Delta(bits, AllBits) ELSE Delta({}, AllBits \ bits)
  <2>0. keyStart <= k /\ k <= keyEnd /\ keyStart + i - 1 = k
    BY <1>2, <1>8, <1>13
  <2>1. values[i] = simpleSpaceUpdateValue(ms, me, bs, be, allocated)
    BY <1>1, <1>13, <2>0, Zenon
  <2>2. /\ ms \in Nat /\ me \in Nat /\ bs \in 0 .. ByteBits - 1 /\ be \in 1 .. ByteBits
        /\ ms * ByteBits + bs = IF k = keyStart THEN start ELSE 0
        /\ me * ByteBits + be = IF k = keyEnd THEN last ELSE n
    <3>1. /\ ms \in Nat /\ bs \in 0 .. ByteBits - 1
          /\ ms * ByteBits + bs = IF k = keyStart THEN start ELSE 0
      <4>1. CASE k = keyStart
        BY <1>7, <4>1, Zenon
      <4>2. CASE k # keyStart
        <5>1. ms = 0 /\ bs = 0
          BY <4>2, Zenon
        <5> QED BY <1>0, <4>2, <5>1
      <4> QED BY <4>1, <4>2, Zenon
    <3>2. /\ me \in Nat /\ be \in 1 .. ByteBits
          /\ me * ByteBits + be = IF k = keyEnd THEN last ELSE n
      <4>1. CASE k = keyEnd
        BY <1>6, <4>1, Zenon
      <4>2. CASE k # keyEnd
        <5>1. me = SpaceLen - 1 /\ be = ByteBits
          BY <4>2, Zenon
        <5>2. (SpaceLen - 1) * ByteBits + ByteBits = SpaceLen * ByteBits
          BY <1>0
        <5> QED BY <1>0, <4>2, <5>1, <5>2
      <4> QED BY <4>1, <4>2, Zenon
    <3> QED BY <3>1, <3>2, Zenon
  <2> DEFINE lo == IF k = keyStart THEN start ELSE 0
             hi == IF k = keyEnd THEN last ELSE n
  <2>3. /\ lo \in 0 .. n - 1 /\ hi \in 1 .. n
        /\ \A x \in 0 .. n - 1 : (a <= k * n + x <=> lo <= x) /\ (k * n + x < z <=> x < hi)
    <3>1. lo \in 0 .. n - 1 /\ hi \in 1 .. n
      BY <1>0, <1>2, <1>3
    <3>2. k * n \in Nat /\ keyStart * n \in Nat /\ keyEnd * n \in Nat
      BY <1>2, <1>3, <1>6, <1>11, Zenon
    <3>3. ASSUME NEW x \in 0 .. n - 1 PROVE a <= k * n + x <=> lo <= x
      <4>1. CASE k = keyStart
        BY <1>0, <1>2, <3>2, <4>1
      <4>2. CASE k # keyStart
        <5>1. keyStart * n + n <= k * n
          BY <1>2, <1>11, <2>0, <4>2
        <5> QED BY <1>0, <1>2, <3>2, <4>2, <5>1, SMTT(30)
      <4> QED BY <4>1, <4>2, Zenon
    <3>4. ASSUME NEW x \in 0 .. n - 1 PROVE k * n + x < z <=> x < hi
      <4>1. CASE k = keyEnd
        BY <1>0, <1>3, <3>2, <4>1
      <4>2. CASE k # keyEnd
        <5>1. k * n + n <= keyEnd * n
          BY <1>3, <1>6, <1>11, <2>0, <4>2
        <5> QED BY <1>0, <1>3, <3>2, <4>2, <5>1, SMTT(30)
      <4> QED BY <4>1, <4>2, Zenon
    <3> QED BY <3>1, <3>3, <3>4, Zenon
  <2> HIDE DEF lo, hi, a, z, bits
  <2>4. bits = lo .. hi - 1
    <3>1. \A x : x \in bits <=> x \in 0 .. n - 1 /\ lo <= x /\ x < hi
      BY <1>10, <2>3, Zenon
    <3>2. \A x : x \in lo .. hi - 1 <=> x \in 0 .. n - 1 /\ lo <= x /\ x < hi
      BY <1>0, <2>3
    <3> QED BY <3>1, <3>2, Zenon
  <2>5. lo < hi
    <3>1. CASE k = keyStart /\ k = keyEnd
      BY <1>2, <1>3, <1>9, <1>11, <3>1, SMTT(30) DEF lo, hi, a, z
    <3>2. CASE k # keyStart \/ k # keyEnd
      BY <1>0, <1>2, <1>3, <3>2 DEF lo, hi
    <3> QED BY <3>1, <3>2, Zenon
  <2>6. ms * ByteBits + bs = lo /\ me * ByteBits + be = hi
    BY <2>2, Zenon DEF lo, hi
  <2> HIDE DEF ms, me, bs, be
  <2>7. ms <= me
    <3>1. ms * ByteBits \in Nat /\ me * ByteBits \in Nat
      BY <1>0, <2>2
    <3>2. ms * ByteBits < me * ByteBits + ByteBits
      BY <1>0, <2>2, <2>5, <2>6, <3>1
    <3>3. (me + 1) * ByteBits = me * ByteBits + ByteBits
      BY <1>0, <2>2
    <3>4. ms < me + 1
      BY <1>0, <2>2, <3>2, <3>3, MulMono
    <3> QED BY <2>2, <3>4
  <2>8. Marks(ms, me, bs, be) = bits
    <3>1. Marks(ms, me, bs, be) = (ms * ByteBits + bs) .. (me * ByteBits + be - 1)
      BY <2>2, <2>7, MarksAre
    <3>2. me * ByteBits \in Int
      BY <1>0, <2>2
    <3>3. me * ByteBits + be - 1 = hi - 1
      BY <2>2, <2>6, <3>2
    <3> QED BY <2>4, <2>6, <3>1, <3>3, Zenon
  <2> QED BY <2>1, <2>8, Zenon DEF simpleSpaceUpdateValue
<1> QED BY <1>12, <1>13, Zenon DEF keyStart, values

----------------------------------------------------------------------------
(* Keys and blocks                                                         *)

(* There are as many keys as the device needs, and at least one.           *)
LEMMA KeyCount ==
    /\ spaceKeyCount \in Nat \ {0} /\ TotalBlocks <= spaceKeyCount * BlocksPerSpace
    /\ 0 \in SpaceKeys /\ \A k \in SpaceKeys : k \in Nat
<1> DEFINE t == TotalBlocks * BlockSize
           c == spaceKeyCount
<1>0. /\ TotalBlocks \in Nat \ {0} /\ BlockSize \in Nat \ {0} /\ BlocksPerSpace \in Nat \ {0}
      /\ SpaceSize \in Nat \ {0}
  BY Sizes, Zenon
<1>1. t \in Nat \ {0} /\ t + SpaceSize - 1 \in Nat
  <2>1. t \in Nat \ {0}
    BY <1>0
  <2> HIDE DEF t
  <2> QED BY <1>0, <2>1
<1>2. c = (t + SpaceSize - 1) \div SpaceSize
  BY Zenon DEF spaceKeyCount
<1> HIDE DEF t, c
<1>3. /\ c \in Nat /\ (t + SpaceSize - 1) % SpaceSize \in 0 .. SpaceSize - 1
      /\ t + SpaceSize - 1 = c * SpaceSize + ((t + SpaceSize - 1) % SpaceSize)
  BY <1>0, <1>1, <1>2, DivBounds, Zenon
<1>4. c * SpaceSize \in Int /\ t <= c * SpaceSize
  <2>1. c * SpaceSize \in Int
    BY <1>0, <1>3
  <2> QED BY <1>0, <1>1, <1>3, <2>1
<1>5. c * SpaceSize = (c * BlocksPerSpace) * BlockSize /\ c * BlocksPerSpace \in Int
  BY <1>0, <1>3, MulAlgebra DEF SpaceSize
<1>6. TotalBlocks <= c * BlocksPerSpace
  BY <1>0, <1>4, <1>5, MulMono DEF t
<1>7. c # 0
  BY <1>0, <1>6
<1>8. spaceKeyCount \in Nat \ {0} /\ TotalBlocks <= spaceKeyCount * BlocksPerSpace
  BY <1>3, <1>6, <1>7 DEF c
<1> QED BY <1>8 DEF SpaceKeys

----------------------------------------------------------------------------
(* The scan of loadAllocator                                               *)

Runs == [Offset : Nat, Size : Nat]
Scans == [runs : Seq(Runs), start : Nat \cup {-1}, len : Nat]
RunsCover(runs) == UNION {RunBlocks(runs[i]) : i \in DOMAIN runs}

\* The scan has reached block n: its runs, the open one included, are the
\* blocks of S below n.
Covers(s, S, n) ==
    /\ s \in Scans
    /\ s.start >= 0 => s.start + s.len = n
    /\ s.start < 0 => s.len = 0
    /\ RunsCover(s.runs) \cup (IF s.start >= 0 THEN s.start .. n - 1 ELSE {}) = S \cap (0 .. n - 1)

(* Closing the open run.                                                   *)
LEMMA CloseCovers ==
    ASSUME NEW n \in Nat, NEW S, NEW s, Covers(s, S, n)
    PROVE  Covers(CloseRun(s), S, n) /\ CloseRun(s).start = -1
<1>1. /\ s \in Scans /\ s.runs \in Seq(Runs) /\ s.start \in Nat \cup {-1} /\ s.len \in Nat
  BY DEF Covers, Scans
<1>2. CASE s.start < 0
  <2>1. CloseRun(s) = s /\ s.start = -1
    BY <1>1, <1>2 DEF CloseRun
  <2> QED BY <2>1, Zenon
<1>3. CASE ~ (s.start < 0)
  <2> DEFINE r == [Offset |-> s.start, Size |-> s.len]
             rs == Append(s.runs, r)
             t == [runs |-> rs, start |-> -1, len |-> 0]
  <2>1. CloseRun(s) = t
    BY <1>3, Zenon DEF CloseRun
  <2>2. s.start \in Nat /\ s.start + s.len = n
    BY <1>1, <1>3 DEF Covers
  <2>3. r \in Runs /\ RunBlocks(r) = s.start .. n - 1
    BY <1>1, <2>2 DEF Runs, RunBlocks
  <2> HIDE DEF r
  <2>4. /\ rs \in Seq(Runs) /\ DOMAIN rs = (DOMAIN s.runs) \cup {Len(s.runs) + 1}
        /\ rs[Len(s.runs) + 1] = r /\ \A i \in DOMAIN s.runs : rs[i] = s.runs[i]
    BY <1>1, <2>3
  <2> HIDE DEF rs
  <2>5. RunsCover(rs) = RunsCover(s.runs) \cup RunBlocks(r)
    <3>1. \A b : b \in RunsCover(rs) <=> \E i \in DOMAIN rs : b \in RunBlocks(rs[i])
      BY Zenon DEF RunsCover
    <3>2. \A b : b \in RunsCover(s.runs) <=> \E i \in DOMAIN s.runs : b \in RunBlocks(s.runs[i])
      BY Zenon DEF RunsCover
    <3> QED BY <2>4, <3>1, <3>2, Zenon
  <2>6. t \in Scans /\ t.runs = rs /\ t.start = -1 /\ t.len = 0
    BY <2>4 DEF Scans
  <2> HIDE DEF t
  <2>7. RunsCover(s.runs) \cup (s.start .. n - 1) = S \cap (0 .. n - 1)
    BY <2>2 DEF Covers
  <2>8. Covers(t, S, n)
    BY <2>3, <2>5, <2>6, <2>7 DEF Covers
  <2> QED BY <2>1, <2>6, <2>8, Zenon
<1> QED BY <1>2, <1>3, Zenon

(* Passing blocks that are not allocated.                                  *)
LEMMA SkipCovers ==
    ASSUME NEW n \in Nat, NEW m \in Nat, n <= m, NEW S, NEW s, Covers(s, S, n), s.start = -1,
           \A b \in n .. m - 1 : b \notin S
    PROVE  Covers(s, S, m)
<1>1. S \cap (0 .. n - 1) = S \cap (0 .. m - 1)
  <2>1. \A b \in 0 .. m - 1 : b \in 0 .. n - 1 \/ b \in n .. m - 1
    OBVIOUS
  <2>2. \A b \in 0 .. n - 1 : b \in 0 .. m - 1
    OBVIOUS
  <2> QED BY <2>1, <2>2, Zenon
<1>2. ~ (-1 >= 0) /\ -1 < 0
  OBVIOUS
<1> QED BY <1>1, <1>2 DEF Covers

(* Passing blocks that are all allocated.                                  *)
LEMMA GrowCovers ==
    ASSUME NEW n \in Nat, NEW m \in Nat, NEW S, NEW s, Covers(s, S, n),
           \A b \in n .. n + m - 1 : b \in S
    PROVE  Covers(GrowRun(s, n, m), S, n + m)
<1> DEFINE st == IF s.start < 0 THEN n ELSE s.start
           t == GrowRun(s, n, m)
<1>1. /\ s \in Scans /\ s.runs \in Seq(Runs) /\ s.start \in Nat \cup {-1} /\ s.len \in Nat
  BY DEF Covers, Scans
<1>2. t = [s EXCEPT !.start = st, !.len = s.len + m]
  BY Zenon DEF GrowRun
<1>3. st \in Nat /\ s.len + m \in Nat /\ st + s.len = n /\ st <= n
  BY <1>1, SMTT(30) DEF Covers
<1> HIDE DEF t, st
<1>4. t \in Scans /\ t.runs = s.runs /\ t.start = st /\ t.len = s.len + m
  BY <1>1, <1>2, <1>3, Zenon DEF Scans
<1>5. RunsCover(s.runs) \cup (st .. n - 1) = S \cap (0 .. n - 1)
  <2>1. CASE s.start < 0
    <3>1. st = n /\ st .. n - 1 = {}
      BY <1>3, <2>1 DEF st
    <3>2. ~ (s.start >= 0)
      BY <1>1, <2>1
    <3> QED BY <3>1, <3>2, Zenon DEF Covers
  <2>2. CASE ~ (s.start < 0)
    <3>1. st = s.start /\ s.start >= 0
      BY <1>1, <2>2 DEF st
    <3> QED BY <3>1, Zenon DEF Covers
  <2> QED BY <2>1, <2>2, Zenon
<1>6. RunsCover(s.runs) \cup (st .. n + m - 1) = S \cap (0 .. n + m - 1)
  <2>1. /\ \A b : b \in st .. n + m - 1 <=> b \in st .. n - 1 \/ b \in n .. n + m - 1
        /\ \A b : b \in 0 .. n + m - 1 <=> b \in 0 .. n - 1 \/ b \in n .. n + m - 1
    BY <1>3
  <2> QED BY <1>5, <2>1, Zenon
<1>7. t.start >= 0 /\ ~ (t.start < 0) /\ t.start + t.len = n + m
  BY <1>1, <1>3, <1>4, SMTT(30)
<1>8. Covers(t, S, n + m)
  BY <1>4, <1>6, <1>7 DEF Covers
<1> QED BY <1>8, Zenon DEF t

\* g is the scan of the first n bits of a byte, from s.
IsBitScan(g, s, value, block, n) ==
    g = [j \in 0 .. n |->
           IF j = 0 THEN s
           ELSE IF j - 1 \in value THEN GrowRun(g[j - 1], block + j - 1, 1)
                ELSE CloseRun(g[j - 1])]

(* The loop over the bits of a byte is well defined.                       *)
LEMMA BitScanExists ==
    ASSUME NEW s, NEW value, NEW block, NEW n \in Nat
    PROVE  \E g : IsBitScan(g, s, value, block, n)
<1> DEFINE St(t, j) == IF j - 1 \in value THEN GrowRun(t, block + j - 1, 1) ELSE CloseRun(t)
           F(m, g) == [j \in 0 .. m |-> IF j = 0 THEN s ELSE St(g[j - 1], j)]
           B == {m \in Nat : ~ \E g : g = F(m, g)}
<1> SUFFICES ASSUME B # {} PROVE FALSE
  BY Zenon DEF IsBitScan
<1> HIDE DEF St
<1>1. PICK m \in B : \A i \in B : m <= i
  BY MinNat, Zenon
<1>2. CASE m = 0
  <2> DEFINE g == [j \in 0 .. 0 |-> s]
  <2>1. g = F(0, g)
    OBVIOUS
  <2> QED BY <1>1, <1>2, <2>1, Zenon
<1>3. CASE m # 0
  <2>1. m - 1 \in Nat /\ ~ (m <= m - 1)
    BY <1>1, <1>3
  <2>2. PICK g : g = F(m - 1, g)
    BY <1>1, <2>1, Zenon
  <2> DEFINE f == [j \in 0 .. m |-> IF j = m THEN St(g[m - 1], m) ELSE g[j]]
  <2>3. ASSUME NEW j \in 0 .. m PROVE f[j] = IF j = 0 THEN s ELSE St(f[j - 1], j)
    <3>1. CASE j = m
      <4>1. m - 1 \in 0 .. m /\ m - 1 # m
        BY <2>1
      <4> QED BY <1>3, <3>1, <4>1, Zenon
    <3>2. CASE j # m
      <4>1. j \in 0 .. m - 1
        BY <1>1, <3>2
      <4>2. g[j] = IF j = 0 THEN s ELSE St(g[j - 1], j)
        BY <2>2, <4>1, Zenon
      <4>3. j # 0 => j - 1 \in 0 .. m /\ j - 1 # m
        BY <1>1, <4>1
      <4> QED BY <3>2, <4>2, <4>3, Zenon
    <3> QED BY <3>1, <3>2, Zenon
  <2>4. f = F(m, f)
    BY <2>3, Zenon
  <2> QED BY <1>1, <2>4, Zenon
<1> QED BY <1>2, <1>3, Zenon

(* One byte of the bitmap, in each of the three ways it is read.           *)
LEMMA ByteCovers ==
    ASSUME NEW k \in SpaceKeys, NEW byte \in 0 .. SpaceLen - 1, NEW S, S \subseteq Blocks,
           loadSpaceValue(k) = BitsOf(k, S), NEW block \in Nat,
           block = k * BlocksPerSpace + byte * ByteBits, NEW s,
           Covers(s, S, IF block > TotalBlocks THEN TotalBlocks ELSE block)
    PROVE  Covers(ScanByte(s, k, byte), S,
                  IF block + ByteBits > TotalBlocks THEN TotalBlocks ELSE block + ByteBits)
<1> DEFINE value == {j \in 0 .. ByteBits - 1 : Bit(byte, j) \in loadSpaceValue(k)}
           valid == IF block + ByteBits > TotalBlocks THEN TotalBlocks - block ELSE ByteBits
           St(t, j) == IF j - 1 \in value THEN GrowRun(t, block + j - 1, 1) ELSE CloseRun(t)
           F(n, g) == [j \in 0 .. n |-> IF j = 0 THEN s ELSE St(g[j - 1], j)]
           scan == CHOOSE g : g = F(valid, g)
<1>0. /\ ByteBits \in Nat \ {0} /\ SpaceLen \in Nat \ {0} /\ TotalBlocks \in Nat \ {0} /\ k \in Nat
      /\ BlocksPerSpace \in Nat \ {0} /\ BlocksPerSpace = SpaceLen * ByteBits
  BY Sizes, KeyCount, Zenon
<1>1. \A j : j \in value <=> j \in 0 .. ByteBits - 1 /\ block + j \in S
  <2>1. ASSUME NEW j \in 0 .. ByteBits - 1
        PROVE  Bit(byte, j) \in BitsOf(k, S) <=> block + j \in S
    <3>1. byte * ByteBits \in Nat /\ k * BlocksPerSpace \in Nat
      BY <1>0
    <3>2. byte * ByteBits + ByteBits <= SpaceLen * ByteBits
      <4>1. (byte + 1) * ByteBits <= SpaceLen * ByteBits
        BY <1>0, MulMono
      <4> QED BY <1>0, <4>1
    <3>3. byte * ByteBits + j \in AllBits
      BY <1>0, <3>1, <3>2 DEF AllBits
    <3>4. k * BlocksPerSpace + (byte * ByteBits + j) = block + j
      BY <1>0, <3>1
    <3> QED BY <3>3, <3>4, Zenon DEF BitsOf, Bit
  <2> QED BY <2>1, Zenon
<1> HIDE DEF value
<1>2. ScanByte(s, k, byte)
        = CASE block >= TotalBlocks -> s
            [] block < TotalBlocks /\ value = {} -> CloseRun(s)
            [] block < TotalBlocks /\ value = 0 .. ByteBits - 1 /\ valid = ByteBits ->
                  GrowRun(s, block, ByteBits)
            [] OTHER -> scan[valid]
  BY Zenon DEF ScanByte, value
<1> HIDE DEF scan
<1>3. CASE block >= TotalBlocks
  <2>1. ScanByte(s, k, byte) = s
    BY <1>0, <1>2, <1>3, SMTT(30)
  <2>2. /\ (IF block > TotalBlocks THEN TotalBlocks ELSE block) = TotalBlocks
        /\ (IF block + ByteBits > TotalBlocks THEN TotalBlocks ELSE block + ByteBits) = TotalBlocks
    BY <1>0, <1>3
  <2> QED BY <2>1, <2>2, Zenon
<1>4. CASE block < TotalBlocks
  <2>0. /\ valid \in Nat /\ valid <= ByteBits /\ valid > 0 /\ Covers(s, S, block)
        /\ (IF block + ByteBits > TotalBlocks THEN TotalBlocks ELSE block + ByteBits)
             = block + valid
    BY <1>0, <1>4
  <2>1. \A j \in 0 .. valid - 1 : j \in 0 .. ByteBits - 1 /\ (j \in value <=> block + j \in S)
    BY <1>0, <1>1, <2>0
  <2>2. SUFFICES Covers(ScanByte(s, k, byte), S, block + valid)
    BY <2>0, Zenon
  <2>3. CASE value = {}
    <3>0. 0 \in 0 .. ByteBits - 1 /\ ~ (block >= TotalBlocks)
      BY <1>0, <1>4
    <3>1. ScanByte(s, k, byte) = CloseRun(s)
      BY <1>2, <1>4, <2>3, <3>0
    <3>2. ASSUME NEW b \in block .. (block + valid) - 1 PROVE b \notin S
      <4>1. b - block \in 0 .. valid - 1 /\ block + (b - block) = b
        BY <2>0
      <4> QED BY <2>1, <2>3, <4>1, Zenon
    <3>3. block + valid \in Nat /\ block <= block + valid
      BY <2>0
    <3>4. Covers(CloseRun(s), S, block) /\ CloseRun(s).start = -1
      BY <2>0, CloseCovers, Zenon
    <3> HIDE DEF valid
    <3>5. Covers(CloseRun(s), S, block + valid)
      BY <3>2, <3>3, <3>4, SkipCovers, Zenon
    <3> QED BY <3>1, <3>5, Zenon
  <2>4. CASE value # {} /\ value = 0 .. ByteBits - 1 /\ valid = ByteBits
    <3>1. ScanByte(s, k, byte) = GrowRun(s, block, ByteBits)
      BY <1>0, <1>2, <1>4, <2>4
    <3>2. ASSUME NEW b \in block .. block + ByteBits - 1 PROVE b \in S
      <4>1. b - block \in 0 .. ByteBits - 1 /\ block + (b - block) = b
        BY <1>0
      <4> QED BY <1>1, <2>4, <4>1, Zenon
    <3>3. Covers(GrowRun(s, block, ByteBits), S, block + ByteBits)
      BY <1>0, <2>0, <3>2, GrowCovers
    <3> QED BY <2>4, <3>1, <3>3, Zenon
  <2>5. CASE value # {} /\ ~ (value = 0 .. ByteBits - 1 /\ valid = ByteBits)
    <3> HIDE DEF valid
    <3>0. ~ (block >= TotalBlocks)
      BY <1>0, <1>4
    <3>1. ScanByte(s, k, byte) = scan[valid]
      BY <1>2, <1>4, <2>5, <3>0, Zenon
    <3>2. scan = F(valid, scan)
      <4>1. \E g : g = F(valid, g)
        <5>1. PICK g : IsBitScan(g, s, value, block, valid)
          BY <2>0, BitScanExists, Zenon
        <5> QED BY <5>1, Zenon DEF IsBitScan
      <4> QED BY <4>1, Zenon DEF scan
    <3>3. ASSUME NEW j \in 0 .. valid PROVE Covers(scan[j], S, block + j)
      <4> DEFINE B == {i \in 0 .. valid : ~ Covers(scan[i], S, block + i)}
      <4>1. SUFFICES ASSUME B # {} PROVE FALSE
        BY Zenon
      <4>2. B \subseteq Nat
        BY <2>0
      <4>3. PICK i \in B : \A m \in B : i <= m
        BY <4>1, <4>2, MinNat, Zenon
      <4>4. i \in 0 .. valid /\ ~ Covers(scan[i], S, block + i)
        BY Zenon
      <4>5. scan[i] = IF i = 0 THEN s ELSE St(scan[i - 1], i)
        BY <3>2, <4>4, Zenon
      <4>6. CASE i = 0
        BY <2>0, <4>4, <4>5, <4>6
      <4>7. CASE i # 0
        <5>1. i - 1 \in 0 .. valid /\ ~ (i <= i - 1) /\ i - 1 \in 0 .. valid - 1
          BY <2>0, <4>4, <4>7
        <5>2. Covers(scan[i - 1], S, block + (i - 1))
          BY <4>3, <5>1, Zenon
        <5> DEFINE n == block + (i - 1)
                   t == scan[i - 1]
        <5>3. n \in Nat /\ block + i = n + 1 /\ block + i - 1 = n /\ n .. n + 1 - 1 = {n}
          BY <4>4, <5>1
        <5>4. i - 1 \in value <=> n \in S
          BY <2>1, <5>1, Zenon
        <5>5. Covers(t, S, n) /\ scan[i] = St(t, i)
          BY <4>5, <4>7, <5>2, Zenon
        <5> HIDE DEF n, t
        <5>6. CASE i - 1 \in value
          <6>1. scan[i] = GrowRun(t, n, 1)
            BY <5>3, <5>5, <5>6, Zenon
          <6>2. Covers(GrowRun(t, n, 1), S, n + 1)
            BY <5>3, <5>4, <5>5, <5>6, GrowCovers
          <6> QED BY <4>4, <5>3, <6>1, <6>2, Zenon
        <5>7. CASE i - 1 \notin value
          <6>1. scan[i] = CloseRun(t)
            BY <5>5, <5>7, Zenon
          <6>2. Covers(CloseRun(t), S, n) /\ CloseRun(t).start = -1
            BY <5>3, <5>5, CloseCovers, Zenon
          <6>3. n + 1 \in Nat /\ n <= n + 1
            BY <5>3
          <6>4. \A b \in n .. (n + 1) - 1 : b \notin S
            BY <5>3, <5>4, <5>7
          <6>5. Covers(CloseRun(t), S, n + 1)
            BY <5>3, <6>2, <6>3, <6>4, SkipCovers, Zenon
          <6> QED BY <4>4, <5>3, <6>1, <6>5, Zenon
        <5> QED BY <5>6, <5>7, Zenon
      <4> QED BY <4>6, <4>7, Zenon
    <3>4. valid \in 0 .. valid
      BY <2>0
    <3> QED BY <3>1, <3>3, <3>4, Zenon
  <2> QED BY <2>3, <2>4, <2>5, Zenon
<1> QED BY <1>0, <1>3, <1>4

\* g is the scan of the first n bytes of all keys.
IsScan(g, n) ==
    g = [j \in 0 .. n |->
           IF j = 0 THEN Scan0
           ELSE ScanByte(g[j - 1], (j - 1) \div SpaceLen, (j - 1) % SpaceLen)]

(* The loop over the bytes is well defined.                                *)
LEMMA ScanExists ==
    ASSUME NEW n \in Nat
    PROVE  \E g : IsScan(g, n)
<1> DEFINE St(t, j) == ScanByte(t, (j - 1) \div SpaceLen, (j - 1) % SpaceLen)
           F(m, g) == [j \in 0 .. m |-> IF j = 0 THEN Scan0 ELSE St(g[j - 1], j)]
           B == {m \in Nat : ~ \E g : g = F(m, g)}
<1> SUFFICES ASSUME B # {} PROVE FALSE
  BY Zenon DEF IsScan
<1> HIDE DEF St
<1>1. PICK m \in B : \A i \in B : m <= i
  BY MinNat, Zenon
<1>2. CASE m = 0
  <2> DEFINE g == [j \in 0 .. 0 |-> Scan0]
  <2>1. g = F(0, g)
    OBVIOUS
  <2> QED BY <1>1, <1>2, <2>1, Zenon
<1>3. CASE m # 0
  <2>1. m - 1 \in Nat /\ ~ (m <= m - 1)
    BY <1>1, <1>3
  <2>2. PICK g : g = F(m - 1, g)
    BY <1>1, <2>1, Zenon
  <2> DEFINE f == [j \in 0 .. m |-> IF j = m THEN St(g[m - 1], m) ELSE g[j]]
  <2>3. ASSUME NEW j \in 0 .. m PROVE f[j] = IF j = 0 THEN Scan0 ELSE St(f[j - 1], j)
    <3>1. CASE j = m
      <4>1. m - 1 \in 0 .. m /\ m - 1 # m
        BY <2>1
      <4> QED BY <1>3, <3>1, <4>1, Zenon
    <3>2. CASE j # m
      <4>1. j \in 0 .. m - 1
        BY <1>1, <3>2
      <4>2. g[j] = IF j = 0 THEN Scan0 ELSE St(g[j - 1], j)
        BY <2>2, <4>1, Zenon
      <4>3. j # 0 => j - 1 \in 0 .. m /\ j - 1 # m
        BY <1>1, <4>1
      <4> QED BY <3>2, <4>2, <4>3, Zenon
    <3> QED BY <3>1, <3>2, Zenon
  <2>4. f = F(m, f)
    BY <2>3, Zenon
  <2> QED BY <1>1, <2>4, Zenon
<1> QED BY <1>2, <1>3, Zenon

(* loadAllocator finds exactly the blocks whose bits are set, in runs that *)
(* InitAllocated accepts.                                                  *)
LEMMA LoadFinds ==
    ASSUME NEW S, S \subseteq Blocks, \A k \in SpaceKeys : loadSpaceValue(k) = BitsOf(k, S)
    PROVE  RunsAccepted(LoadRuns) /\ RunsCover(LoadRuns) = S
<1> DEFINE N == spaceKeyCount * SpaceLen
           scan == CHOOSE g : IsScan(g, N)
           Cap(b) == IF b > TotalBlocks THEN TotalBlocks ELSE b
<1>0. /\ ByteBits \in Nat \ {0} /\ SpaceLen \in Nat \ {0} /\ TotalBlocks \in Nat \ {0}
      /\ BlocksPerSpace \in Nat \ {0} /\ BlocksPerSpace = SpaceLen * ByteBits
      /\ spaceKeyCount \in Nat \ {0} /\ TotalBlocks <= spaceKeyCount * BlocksPerSpace
  BY Sizes, KeyCount, Zenon
<1>1. N \in Nat
  BY <1>0
<1>2. LoadRuns = CloseRun(scan[N]).runs
  BY Zenon DEF LoadRuns, Scanned, IsScan
<1>3. IsScan(scan, N)
  BY <1>1, ScanExists, Zenon
<1> HIDE DEF scan
<1>4. \A j \in 0 .. N :
        scan[j] = IF j = 0 THEN Scan0
                  ELSE ScanByte(scan[j - 1], (j - 1) \div SpaceLen, (j - 1) % SpaceLen)
  BY <1>3, Zenon DEF IsScan
<1>5. ASSUME NEW j \in 0 .. N PROVE Covers(scan[j], S, Cap(j * ByteBits))
  <2> DEFINE B == {i \in 0 .. N : ~ Covers(scan[i], S, Cap(i * ByteBits))}
  <2>1. SUFFICES ASSUME B # {} PROVE FALSE
    BY Zenon
  <2>2. B \subseteq Nat
    BY <1>1
  <2>3. PICK i \in B : \A m \in B : i <= m
    BY <2>1, <2>2, MinNat, Zenon
  <2>4. i \in 0 .. N /\ ~ Covers(scan[i], S, Cap(i * ByteBits))
    BY Zenon
  <2>5. CASE i = 0
    <3>1. scan[i] = Scan0
      BY <1>4, <2>4, <2>5, Zenon
    <3>2. Cap(i * ByteBits) = 0 /\ 0 .. 0 - 1 = {}
      BY <1>0, <2>5, SMTT(30)
    <3>3. Scan0 \in Scans /\ Scan0.start = -1 /\ Scan0.len = 0 /\ Scan0.runs = <<>>
      BY DEF Scan0, Scans
    <3>4. RunsCover(<<>>) = {}
      BY DEF RunsCover
    <3>5. Covers(Scan0, S, 0)
      BY <3>2, <3>3, <3>4 DEF Covers
    <3> QED BY <2>4, <3>1, <3>2, <3>5, Zenon
  <2>6. CASE i # 0
    <3> DEFINE k == (i - 1) \div SpaceLen
               byte == (i - 1) % SpaceLen
               block == (i - 1) * ByteBits
    <3>1. i - 1 \in Nat /\ i - 1 \in 0 .. N /\ i - 1 < N /\ ~ (i <= i - 1)
      BY <1>1, <2>4, <2>6
    <3>2. k \in Nat /\ byte \in 0 .. SpaceLen - 1 /\ i - 1 = k * SpaceLen + byte
      BY <1>0, <3>1, DivBounds, Zenon
    <3>3. scan[i] = ScanByte(scan[i - 1], k, byte)
      BY <1>4, <2>4, <2>6, Zenon
    <3>4. Covers(scan[i - 1], S, Cap((i - 1) * ByteBits))
      BY <2>3, <3>1, Zenon
    <3> HIDE DEF k, byte
    <3>5. k \in SpaceKeys
      <4>1. k * SpaceLen \in Nat /\ k * SpaceLen < spaceKeyCount * SpaceLen
        BY <1>0, <3>1, <3>2
      <4>2. k < spaceKeyCount
        BY <1>0, <3>2, <4>1, MulMono
      <4> QED BY <1>0, <3>2, <4>2, SMTT(30) DEF SpaceKeys
    <3>6. block \in Nat /\ block = k * BlocksPerSpace + byte * ByteBits
      <4>1. (k * SpaceLen + byte) * ByteBits = (k * SpaceLen) * ByteBits + byte * ByteBits
        BY <1>0, <3>2, MulAlgebra
      <4>2. (k * SpaceLen) * ByteBits = k * (SpaceLen * ByteBits)
        BY <1>0, <3>2, MulAlgebra
      <4>3. block \in Nat
        BY <1>0, <3>1
      <4> QED BY <1>0, <3>2, <4>1, <4>2, <4>3, Zenon
    <3>7. i * ByteBits = block + ByteBits
      BY <1>0, <2>4
    <3>8. Covers(scan[i - 1], S, Cap(block)) /\ loadSpaceValue(k) = BitsOf(k, S)
      BY <3>4, <3>5, Zenon
    <3> HIDE DEF block
    <3>9. Covers(ScanByte(scan[i - 1], k, byte), S, Cap(block + ByteBits))
      BY <3>2, <3>5, <3>6, <3>8, ByteCovers, SMTT(30)
    <3> QED BY <2>4, <3>3, <3>7, <3>9, Zenon
  <2> QED BY <2>5, <2>6, Zenon
<1>6. Cap(N * ByteBits) = TotalBlocks
  <2>1. N * ByteBits = spaceKeyCount * BlocksPerSpace
    BY <1>0, MulAlgebra
  <2>2. spaceKeyCount * BlocksPerSpace \in Nat
    BY <1>0
  <2> HIDE DEF N
  <2> QED BY <1>0, <2>1, <2>2
<1>7. Covers(scan[N], S, TotalBlocks)
  <2>1. N \in 0 .. N
    BY <1>1
  <2> QED BY <1>5, <1>6, <2>1, Zenon
<1> DEFINE c == CloseRun(scan[N])
<1>8. Covers(c, S, TotalBlocks) /\ c.start = -1
  BY <1>0, <1>7, CloseCovers, Zenon
<1> HIDE DEF c
<1>9. RunsCover(c.runs) = S
  <2>1. ~ (c.start >= 0)
    BY <1>8
  <2>2. RunsCover(c.runs) = S \cap (0 .. TotalBlocks - 1)
    BY <1>8, <2>1, Zenon DEF Covers
  <2> QED BY <2>2, Zenon DEF Blocks
<1>10. RunsAccepted(c.runs)
  BY <1>9, Zenon DEF RunsAccepted, RunsCover
<1> QED BY <1>2, <1>9, <1>10, Zenon DEF c

----------------------------------------------------------------------------
(* Bitmaps of the device                                                   *)

\* Under every key are records that stand for the bits of these blocks.
Agrees(st, S) ==
    /\ st \in [SpaceKeys -> Seq(SpaceValues)] /\ S \in SUBSET Blocks
    /\ \A k \in SpaceKeys : Holds(st[k], BitsOf(k, S))

\* A set of blocks is the one it should be, but for the ones that are wrong.
Right(S, should, wrong) == \A b \in Blocks \ wrong : b \in S <=> b \in should

(* The bits of a key are bits.                                             *)
LEMMA BitsOfType ==
    ASSUME NEW k, NEW S
    PROVE  BitsOf(k, S) \in SUBSET AllBits
BY Zenon DEF BitsOf

(* A key reads as the bits of its blocks.                                  *)
LEMMA Loaded ==
    ASSUME NEW S, Agrees(store, S)
    PROVE  /\ \A k \in SpaceKeys : loadSpaceValue(k) = BitsOf(k, S)
           /\ get(0) = NoValue <=> store[0] = <<>>
<1>1. ASSUME NEW k \in SpaceKeys
      PROVE  loadSpaceValue(k) = BitsOf(k, S) /\ (get(k) = NoValue <=> store[k] = <<>>)
  <2> DEFINE log == store[k]
             bits == BitsOf(k, S)
  <2>1. log \in Seq(SpaceValues) /\ Holds(log, bits) /\ bits \in SUBSET AllBits
    BY BitsOfType, Zenon DEF Agrees
  <2> HIDE DEF log, bits
  <2>2. /\ log = <<>> => MergedGet("space", log) = NoValue /\ bits = {}
        /\ log # <<>> => MergedGet("space", log) # NoValue /\ MergedGet("space", log).lo = bits
    BY <2>1, ReadBits, Zenon
  <2> QED BY <2>2, Zenon DEF log, bits, loadSpaceValue, get
<1> QED BY <1>1, KeyCount, Zenon

(* A device that was never written has no blocks.                          *)
LEMMA EmptyAgrees ==
    ASSUME NEW st, st = [k \in SpaceKeys |-> <<>>]
    PROVE  Agrees(st, {})
<1>1. \A k \in SpaceKeys : st[k] = <<>> /\ BitsOf(k, {}) = {}
  BY Zenon DEF BitsOf
<1>2. st \in [SpaceKeys -> Seq(SpaceValues)]
  BY EmptyHolds, Zenon
<1>3. {} \in SUBSET Blocks
  BY Zenon
<1> QED BY <1>1, <1>2, <1>3, EmptyHolds, Zenon DEF Agrees

(* persistSpaceMerges sets the bits of an allocation, set before or not.   *)
LEMMA AllocAgrees ==
    ASSUME NEW st, NEW S, Agrees(st, S), NEW e \in Extents, BlocksOf(e) \subseteq Blocks
    PROVE  /\ Agrees(persistSpaceMerges(st, e, TRUE), S \cup BlocksOf(e))
           /\ st[0] # <<>> => persistSpaceMerges(st, e, TRUE)[0] # <<>>
<1> DEFINE new == persistSpaceMerges(st, e, TRUE)
           values == spaceUpdateValues(e.Offset, e.Size, TRUE)
           at(k) == k - (e.Offset \div SpaceSize) + 1
<1>1. ASSUME NEW k \in SpaceKeys
      PROVE  /\ new[k] \in Seq(SpaceValues) /\ Holds(new[k], BitsOf(k, S \cup BlocksOf(e)))
             /\ st[k] # <<>> => new[k] # <<>>
  <2> DEFINE i == at(k)
             M == BitsOf(k, BlocksOf(e))
             X == BitsOf(k, S)
             log == st[k]
  <2>1. new[k] = IF i \in DOMAIN values THEN Append(log, values[i]) ELSE log
    BY Zenon DEF persistSpaceMerges
  <2>2. log \in Seq(SpaceValues) /\ Holds(log, X) /\ M \in SUBSET AllBits
    BY BitsOfType, Zenon DEF Agrees
  <2>3. /\ i \in DOMAIN values => values[i] = Delta(M, AllBits)
        /\ i \notin DOMAIN values => M = {}
    <3>1. k \in Nat
      BY KeyCount, Zenon
    <3> QED BY <3>1, UpdateValues, Zenon
  <2>4. BitsOf(k, S \cup BlocksOf(e)) = X \cup M
    BY Zenon DEF BitsOf
  <2> HIDE DEF new, values, i, M, X, log
  <2>5. /\ Append(log, Delta(M, AllBits)) \in Seq(SpaceValues)
        /\ Holds(Append(log, Delta(M, AllBits)), X \cup M) /\ Append(log, Delta(M, AllBits)) # <<>>
    BY <2>2, AppendHolds, Zenon
  <2>6. CASE i \in DOMAIN values
    BY <2>1, <2>3, <2>4, <2>5, <2>6, Zenon
  <2>7. CASE i \notin DOMAIN values
    <3>1. X \cup M = X
      BY <2>3, <2>7, Zenon
    <3>2. new[k] = log
      BY <2>1, <2>7, Zenon
    <3> QED BY <2>2, <2>4, <3>1, <3>2, Zenon DEF log
  <2> QED BY <2>6, <2>7, Zenon
<1>2. new = [k \in SpaceKeys |-> new[k]]
  BY Zenon DEF persistSpaceMerges
<1>3. S \cup BlocksOf(e) \in SUBSET Blocks
  BY Zenon DEF Agrees
<1> HIDE DEF new
<1>4. new \in [SpaceKeys -> Seq(SpaceValues)]
  BY <1>1, <1>2, Zenon
<1>5. Agrees(new, S \cup BlocksOf(e)) /\ (st[0] # <<>> => new[0] # <<>>)
  BY <1>1, <1>3, <1>4, KeyCount, Zenon DEF Agrees
<1> QED BY <1>5, Zenon DEF new

(* The bits of a key are those of the blocks that have this key.           *)
LEMMA KeyOfBit ==
    ASSUME NEW k \in SpaceKeys, NEW x \in AllBits
    PROVE  (k * BlocksPerSpace + x) \div BlocksPerSpace = k
<1> DEFINE n == BlocksPerSpace
           b == k * n + x
<1>1. n \in Nat \ {0} /\ k \in Nat /\ x \in 0 .. n - 1
  BY Sizes, KeyCount DEF AllBits
<1> HIDE DEF n
<1>2. k * n \in Nat /\ b \in Nat
  BY <1>1
<1>3. (b \div n) \in Nat /\ b % n \in 0 .. n - 1 /\ b = (b \div n) * n + (b % n)
  BY <1>1, <1>2, DivBounds, Zenon
<1> DEFINE q == b \div n
           r == b % n
<1>4. q \in Nat /\ r \in 0 .. n - 1 /\ k * n + x = q * n + r
  BY <1>3, Zenon
<1> HIDE DEF q, r, b
<1>5. q = k
  <2>1. /\ k * n \in Int /\ q * n \in Int /\ (k + 1) * n = k * n + n /\ (q + 1) * n = q * n + n
    BY <1>1, <1>4
  <2>2. k * n < (q + 1) * n /\ q * n < (k + 1) * n
    BY <1>1, <1>4, <2>1
  <2>3. k + 1 \in Nat /\ q + 1 \in Nat
    BY <1>1, <1>4
  <2>4. k < q + 1 /\ q < k + 1
    BY <1>1, <1>4, <2>2, <2>3, MulMono
  <2> QED BY <1>1, <1>4, <2>4
<1> QED BY <1>5, Zenon DEF q, b, n

(* persistSpaceBits: the keys that blocks are released of have what the    *)
(* database had, without these blocks; the others have what the batch had. *)
LEMMA ReleaseAgrees ==
    ASSUME NEW S, NEW T, Agrees(store, S), Agrees(staged, T), NEW results,
           BlocksOfAll(results) \subseteq Blocks
    PROVE  LET B   == BlocksOfAll(results)
               new == persistSpaceBits(results, FALSE)
           IN /\ Agrees(new, (T \ InKeysOf(B)) \cup ((S \ B) \cap InKeysOf(B)))
              /\ staged[0] # <<>> => new[0] # <<>>
<1> DEFINE B == BlocksOfAll(results)
           new == persistSpaceBits(results, FALSE)
           U == (T \ InKeysOf(B)) \cup ((S \ B) \cap InKeysOf(B))
<1>0. S \in SUBSET Blocks /\ T \in SUBSET Blocks /\ B \in SUBSET Blocks
  BY Zenon DEF Agrees
<1> HIDE DEF B
<1>1. ASSUME NEW k \in SpaceKeys
      PROVE  /\ new[k] \in Seq(SpaceValues) /\ Holds(new[k], BitsOf(k, U))
             /\ staged[k] # <<>> => new[k] # <<>>
  <2> DEFINE bits == BitsIn(k, B)
  <2>1. new[k] = IF bits = {} THEN staged[k] ELSE <<Space(loadSpaceValue(k) \ bits)>>
    BY Zenon DEF persistSpaceBits, B
  <2>2. bits = BitsOf(k, B)
    <3>1. k * BlocksPerSpace \in Int
      BY Sizes, KeyCount
    <3>2. B \subseteq Int
      BY <1>0 DEF Blocks
    <3>3. \A b \in B, x \in AllBits : x = b - k * BlocksPerSpace <=> k * BlocksPerSpace + x = b
      BY <3>1, <3>2 DEF AllBits
    <3> QED BY <3>3, Zenon DEF BitsOf, BitsIn
  <2> HIDE DEF bits, new
  <2>3. \A x \in AllBits : (k * BlocksPerSpace + x) \div BlocksPerSpace = k
    BY KeyOfBit, Zenon
  <2>4. loadSpaceValue(k) = BitsOf(k, S)
    BY Loaded, Zenon
  <2>5. CASE bits = {}
    <3>1. ASSUME NEW c \in B PROVE c \div BlocksPerSpace # k
      <4>1. SUFFICES ASSUME c \div BlocksPerSpace = k PROVE FALSE
        BY Zenon
      <4>2. c \in Nat /\ BlocksPerSpace \in Nat \ {0}
        BY <1>0, Sizes DEF Blocks
      <4>3. c % BlocksPerSpace \in 0 .. BlocksPerSpace - 1
            /\ c = k * BlocksPerSpace + (c % BlocksPerSpace)
        BY <4>1, <4>2, DivBounds, Zenon
      <4>4. c % BlocksPerSpace \in BitsOf(k, B)
        BY <4>3, Zenon DEF BitsOf, AllBits
      <4> QED BY <2>2, <2>5, <4>4, Zenon
    <3>2. \A x \in AllBits : k * BlocksPerSpace + x \notin InKeysOf(B)
      BY <2>3, <3>1, Zenon DEF InKeysOf
    <3>3. BitsOf(k, U) = BitsOf(k, T)
      BY <3>2, Zenon DEF BitsOf
    <3>4. staged[k] \in Seq(SpaceValues) /\ Holds(staged[k], BitsOf(k, T))
      BY Zenon DEF Agrees
    <3>5. new[k] = staged[k]
      BY <2>1, <2>5, Zenon
    <3> QED BY <3>3, <3>4, <3>5, Zenon
  <2>6. CASE bits # {}
    <3>1. PICK y \in AllBits : k * BlocksPerSpace + y \in B
      BY <2>2, <2>6, Zenon DEF BitsOf
    <3>2. \A x \in AllBits : k * BlocksPerSpace + x \in Blocks => k * BlocksPerSpace + x \in InKeysOf(B)
      BY <2>3, <3>1, Zenon DEF InKeysOf
    <3>3. ASSUME NEW x \in AllBits
          PROVE  k * BlocksPerSpace + x \in U
                    <=> (k * BlocksPerSpace + x \in S /\ k * BlocksPerSpace + x \notin B)
      <4> DEFINE b == k * BlocksPerSpace + x
      <4>1. b \in Blocks => b \in InKeysOf(B)
        BY <3>2, Zenon
      <4> HIDE DEF b
      <4>2. b \in U <=> (b \in S /\ b \notin B)
        BY <1>0, <4>1, Zenon
      <4> QED BY <4>2, Zenon DEF b
    <3>4. BitsOf(k, U) = BitsOf(k, S) \ bits
      BY <2>2, <3>3, Zenon DEF BitsOf
    <3>5. new[k] = <<Space(BitsOf(k, U))>>
      BY <2>1, <2>4, <2>6, <3>4, Zenon
    <3>6. BitsOf(k, U) \in SUBSET AllBits
      BY BitsOfType, Zenon
    <3> HIDE DEF U
    <3> QED BY <3>5, <3>6, SetHolds, Zenon
  <2> QED BY <2>5, <2>6, Zenon
<1>2. new = [k \in SpaceKeys |-> new[k]]
  BY Zenon DEF persistSpaceBits
<1>3. U \in SUBSET Blocks
  BY <1>0, Zenon
<1> HIDE DEF new, U
<1>4. new \in [SpaceKeys -> Seq(SpaceValues)]
  BY <1>1, <1>2, Zenon
<1>5. Agrees(new, U) /\ (staged[0] # <<>> => new[0] # <<>>)
  BY <1>1, <1>3, <1>4, KeyCount, Zenon DEF Agrees
<1> QED BY <1>5, Zenon DEF new, U, B

(* A compaction of one key changes no bit.                                 *)
LEMMA CompactAgrees ==
    ASSUME NEW st, NEW S, Agrees(st, S), NEW k \in SpaceKeys, NEW i \in 1 .. Len(st[k]) - 1
    PROVE  LET new == [st EXCEPT ![k] = Compacted("space", @, i)]
           IN Agrees(new, S) /\ (new[0] = <<>> => st[0] = <<>>)
<1> DEFINE log == st[k]
           X == BitsOf(k, S)
           c == Compacted("space", log, i)
           new == [st EXCEPT ![k] = c]
<1>1. /\ st \in [SpaceKeys -> Seq(SpaceValues)] /\ S \in SUBSET Blocks
      /\ \A j \in SpaceKeys : Holds(st[j], BitsOf(j, S))
  BY Zenon DEF Agrees
<1>2. c \in Seq(SpaceValues) /\ Holds(c, X) /\ c # <<>>
  <2>1. log \in Seq(SpaceValues) /\ Holds(log, X) /\ i \in 1 .. Len(log) - 1
    BY <1>1, Zenon
  <2> HIDE DEF log, X
  <2> QED BY <2>1, CompactHolds, Zenon
<1>3. new = [st EXCEPT ![k] = Compacted("space", @, i)]
  BY Zenon
<1> HIDE DEF c
<1>4. \A j \in SpaceKeys : new[j] = IF j = k THEN c ELSE st[j]
  BY <1>1, Zenon
<1>5. new \in [SpaceKeys -> Seq(SpaceValues)]
  BY <1>1, <1>2, Zenon
<1> HIDE DEF new
<1>6. Agrees(new, S)
  BY <1>1, <1>2, <1>4, <1>5, Zenon DEF Agrees
<1>7. new[0] = <<>> => st[0] = <<>>
  BY <1>2, <1>4, KeyCount, Zenon
<1> QED BY <1>3, <1>6, <1>7, Zenon

----------------------------------------------------------------------------
(* The invariant                                                           *)

TypesInv ==
    /\ phase \in {"closed", "init", "load", "open"} /\ initFrom \in 0 .. spaceKeyCount
    /\ owned \in SUBSET Blocks /\ taken \in SUBSET Blocks

\* The records stand for the blocks owned, but for those that were lost.
StoreInv == \E S : Agrees(store, S) /\ Right(S, owned, lost)

\* So they do once the batch is committed, with what is owned and lost then.
StagedInv ==
    \E T : /\ Agrees(staged, T)
           /\ Right(T, (owned \cup taken) \ freed, (lost \ (taken \cup freed)) \cup overwritten)

\* What is taken and owned by someone else already has gone astray before.
MemoryInv ==
    phase = "open" => /\ Right(memory, (owned \cup taken) \ freed, astray)
                      /\ taken \cap owned \subseteq astray

BatchInv ==
    phase # "open" => staged = store /\ taken = {} /\ freed = {} /\ overwritten = {}

\* A device whose first key has no record has not been written yet: this is
\* what lets tryInitBlockSpace look at that key only.
FirstKeyInv ==
    /\ phase \in {"load", "open"} => store[0] # <<>> /\ staged[0] # <<>>
    /\ store[0] = <<>> => owned = {} /\ lost = {}
    /\ phase = "init" => /\ owned = {} /\ lost = {} /\ initFrom < spaceKeyCount
                         /\ initFrom > 0 => store[0] # <<>>

SpaceInv == TypesInv /\ StoreInv /\ StagedInv /\ MemoryInv /\ BatchInv /\ FirstKeyInv

(* Initially                                                               *)
LEMMA SpaceInitInv == Init => SpaceInv
<1> SUFFICES ASSUME Init PROVE SpaceInv
  OBVIOUS
<1>1. /\ Agrees(store, {}) /\ staged = store /\ phase = "closed" /\ initFrom = 0
      /\ owned = {} /\ lost = {} /\ taken = {} /\ freed = {} /\ overwritten = {}
  BY EmptyAgrees, Zenon DEF Init
<1>2. Right({}, {}, {}) /\ Right({}, ({} \cup {}) \ {}, ({} \ ({} \cup {})) \cup {})
  BY Zenon DEF Right
<1>3. StoreInv /\ StagedInv
  BY <1>1, <1>2, Zenon DEF StoreInv, StagedInv
<1>4. initFrom \in 0 .. spaceKeyCount
  BY <1>1, KeyCount
<1>5. "closed" # "open" /\ "closed" # "init" /\ "closed" # "load"
  OBVIOUS
<1>6. TypesInv /\ MemoryInv /\ BatchInv /\ FirstKeyInv
  BY <1>1, <1>4, <1>5, Zenon DEF TypesInv, MemoryInv, BatchInv, FirstKeyInv
<1> QED BY <1>3, <1>6, Zenon DEF SpaceInv

(* Opening a device: without a record under the first key nothing was      *)
(* committed yet.                                                          *)
LEMMA OpenStep == ASSUME SpaceInv, Open PROVE SpaceInv'
<1>1. PICK S : Agrees(store, S)
  BY Zenon DEF SpaceInv, StoreInv
<1>2. /\ phase = "closed" /\ phase' = IF store[0] # <<>> THEN "load" ELSE "init"
      /\ store' = store /\ staged' = staged /\ taken' = taken /\ freed' = freed
      /\ overwritten' = overwritten /\ owned' = owned /\ lost' = lost /\ initFrom' = 0
  BY <1>1, Loaded, Zenon DEF Open, batchVars
<1>3. 0 \in 0 .. spaceKeyCount /\ 0 < spaceKeyCount /\ ~ (0 > 0)
  BY KeyCount
<1>4. /\ "closed" # "open" /\ "load" # "open" /\ "init" # "open" /\ "init" # "load"
  OBVIOUS
<1>5. StoreInv' /\ StagedInv'
  BY <1>2, Zenon DEF SpaceInv, StoreInv, StagedInv
<1>6. staged = store /\ taken = {} /\ freed = {} /\ overwritten = {}
  BY <1>2, <1>4, Zenon DEF SpaceInv, BatchInv
<1>7. TypesInv' /\ MemoryInv' /\ BatchInv'
  BY <1>2, <1>3, <1>4, <1>6, Zenon DEF SpaceInv, TypesInv, MemoryInv, BatchInv
<1>8. FirstKeyInv'
  BY <1>2, <1>3, <1>4, <1>6, Zenon DEF SpaceInv, FirstKeyInv
<1> QED BY <1>5, <1>7, <1>8, Zenon DEF SpaceInv

(* A batch of tryInitBlockSpace: it zeroes keys of a device that owns      *)
(* nothing, the first one first.                                           *)
LEMMA InitBatchStep == ASSUME SpaceInv, InitBatch PROVE SpaceInv'
<1> DEFINE to == IF initFrom + InitKeys > spaceKeyCount THEN spaceKeyCount ELSE initFrom + InitKeys
<1>1. /\ store' = [k \in SpaceKeys |-> IF k \in initFrom .. to - 1 THEN <<Space({})>> ELSE store[k]]
      /\ initFrom' = to /\ phase' = (IF to = spaceKeyCount THEN "load" ELSE "init")
      /\ phase = "init" /\ staged' = store' /\ owned' = owned /\ lost' = lost
      /\ taken' = taken /\ freed' = freed /\ overwritten' = overwritten
  BY Zenon DEF InitBatch
<1>2. /\ owned = {} /\ lost = {} /\ taken = {} /\ freed = {} /\ overwritten = {}
      /\ initFrom \in 0 .. spaceKeyCount /\ initFrom < spaceKeyCount
      /\ initFrom > 0 => store[0] # <<>>
  <2>1. "init" # "open"
    OBVIOUS
  <2>2. taken = {} /\ freed = {} /\ overwritten = {}
    BY <1>1, <2>1, Zenon DEF SpaceInv, BatchInv
  <2>3. /\ owned = {} /\ lost = {} /\ initFrom < spaceKeyCount /\ (initFrom > 0 => store[0] # <<>>)
    BY <1>1, Zenon DEF SpaceInv, FirstKeyInv
  <2> QED BY <2>2, <2>3, Zenon DEF SpaceInv, TypesInv
<1>3. to \in 0 .. spaceKeyCount /\ to > initFrom /\ to > 0 /\ (to # spaceKeyCount => to < spaceKeyCount)
  <2>1. spaceKeyCount \in Nat \ {0} /\ InitKeys \in Nat \ {0}
    BY KeyCount, Sizes, Zenon
  <2> QED BY <1>2, <2>1
<1> HIDE DEF to
<1>4. Agrees(store, {})
  <2>1. PICK S : Agrees(store, S) /\ Right(S, owned, lost)
    BY Zenon DEF SpaceInv, StoreInv
  <2>2. S = {}
    BY <1>2, <2>1, Zenon DEF Agrees, Right
  <2> QED BY <2>1, <2>2, Zenon
<1>5. \A k : BitsOf(k, {}) = {}
  BY Zenon DEF BitsOf
<1>6. /\ <<Space({})>> \in Seq(SpaceValues) /\ Holds(<<Space({})>>, {}) /\ <<Space({})>> # <<>>
  <2>1. {} \in SUBSET AllBits
    BY Zenon
  <2> QED BY <2>1, SetHolds, Zenon
<1>7. ASSUME NEW k \in SpaceKeys
      PROVE  store'[k] \in Seq(SpaceValues) /\ Holds(store'[k], BitsOf(k, {}))
  <2>1. store'[k] = IF k \in initFrom .. to - 1 THEN <<Space({})>> ELSE store[k]
    BY <1>1, Zenon
  <2>2. store[k] \in Seq(SpaceValues) /\ Holds(store[k], BitsOf(k, {}))
    BY <1>4, Zenon DEF Agrees
  <2> QED BY <1>5, <1>6, <2>1, <2>2, Zenon
<1>8. Agrees(store', {})
  <2>1. store' = [k \in SpaceKeys |-> store'[k]]
    BY <1>1, Zenon
  <2>2. store' \in [SpaceKeys -> Seq(SpaceValues)]
    BY <1>7, <2>1, Zenon
  <2> QED BY <1>7, <2>2, Zenon DEF Agrees
<1>9. store'[0] # <<>>
  <2>1. store'[0] = IF 0 \in initFrom .. to - 1 THEN <<Space({})>> ELSE store[0]
    BY <1>1, KeyCount, Zenon
  <2>2. initFrom > 0 \/ 0 \in initFrom .. to - 1
    BY <1>2, <1>3, KeyCount
  <2> QED BY <1>2, <1>6, <2>1, <2>2, Zenon
<1>10. StoreInv' /\ StagedInv'
  <2>1. Right({}, {}, {}) /\ Right({}, ({} \cup {}) \ {}, ({} \ ({} \cup {})) \cup {})
    BY Zenon DEF Right
  <2> QED BY <1>1, <1>2, <1>8, <2>1, Zenon DEF StoreInv, StagedInv
<1>11. phase' \in {"load", "init"} /\ phase' # "open"
  BY <1>1
<1>12. TypesInv' /\ MemoryInv' /\ BatchInv'
  BY <1>1, <1>2, <1>3, <1>11, Zenon DEF TypesInv, MemoryInv, BatchInv
<1>13. FirstKeyInv'
  <2>1. "load" # "init"
    OBVIOUS
  <2>2. phase' = "init" => to < spaceKeyCount
    BY <1>1, <1>3, <2>1, Zenon
  <2> QED BY <1>1, <1>2, <1>9, <2>2, Zenon DEF FirstKeyInv
<1> QED BY <1>10, <1>12, <1>13, Zenon DEF SpaceInv

(* loadAllocator succeeds, with the blocks whose bits are set.             *)
LEMMA LoadStep == ASSUME SpaceInv, LoadAllocator PROVE SpaceInv'
<1>1. PICK S : Agrees(store, S) /\ Right(S, owned, lost)
  BY Zenon DEF SpaceInv, StoreInv
<1>2. RunsAccepted(LoadRuns) /\ RunsCover(LoadRuns) = S
  <2>1. S \subseteq Blocks /\ \A k \in SpaceKeys : loadSpaceValue(k) = BitsOf(k, S)
    BY <1>1, Loaded, Zenon DEF Agrees
  <2> QED BY <2>1, LoadFinds, Zenon
<1>3. /\ phase = "load" /\ phase' = "open" /\ memory' = S /\ astray' = lost
      /\ store' = store /\ staged' = staged /\ taken' = taken /\ freed' = freed
      /\ overwritten' = overwritten /\ owned' = owned /\ lost' = lost /\ initFrom' = initFrom
  BY <1>2, Zenon DEF LoadAllocator, RunsCover, batchVars
<1>4. "load" # "open" /\ "open" # "init"
  OBVIOUS
<1>5. taken = {} /\ freed = {}
  BY <1>3, <1>4, Zenon DEF SpaceInv, BatchInv
<1>6. MemoryInv'
  <2>1. (owned \cup taken) \ freed = owned /\ taken \cap owned = {}
    BY <1>5, Zenon
  <2> QED BY <1>1, <1>3, <2>1, Zenon DEF MemoryInv
<1>7. StoreInv' /\ StagedInv'
  BY <1>3, Zenon DEF SpaceInv, StoreInv, StagedInv
<1>8. TypesInv' /\ BatchInv'
  BY <1>3, Zenon DEF SpaceInv, TypesInv, BatchInv
<1>9. FirstKeyInv'
  BY <1>3, <1>4, Zenon DEF SpaceInv, FirstKeyInv
<1> QED BY <1>6, <1>7, <1>8, <1>9, Zenon DEF SpaceInv

(* An allocation is staged: what it takes is no longer lost once the batch *)
(* is committed, and what it takes of another owner was astray.            *)
LEMMA PersistAllocStep == ASSUME SpaceInv, NEW e \in Extents, PersistAlloc(e) PROVE SpaceInv'
<1> DEFINE B == BlocksOf(e)
           should == (owned \cup taken) \ freed
           wrong == (lost \ (taken \cup freed)) \cup overwritten
<1>1. /\ phase = "open" /\ phase' = "open" /\ B \subseteq Blocks \ (memory \cup freed)
      /\ memory' = memory \cup B /\ staged' = persistSpaceMerges(staged, e, TRUE)
      /\ taken' = taken \cup B /\ store' = store /\ initFrom' = initFrom /\ freed' = freed
      /\ overwritten' = overwritten /\ owned' = owned /\ lost' = lost /\ astray' = astray
  BY Zenon DEF PersistAlloc
<1>2. PICK T : Agrees(staged, T) /\ Right(T, should, wrong)
  BY Zenon DEF SpaceInv, StagedInv
<1>3. B \subseteq Blocks
  BY <1>1, Zenon
<1>4. Agrees(staged', T \cup B) /\ (staged[0] # <<>> => staged'[0] # <<>>)
  BY <1>1, <1>2, <1>3, AllocAgrees, Zenon
<1>5. Right(T \cup B, (owned \cup (taken \cup B)) \ freed, (lost \ ((taken \cup B) \cup freed)) \cup overwritten)
  BY <1>1, <1>2, ZenonT(60) DEF Right
<1>6. StagedInv'
  BY <1>1, <1>4, <1>5, Zenon DEF StagedInv
<1>7. StoreInv'
  BY <1>1, Zenon DEF SpaceInv, StoreInv
<1>8. Right(memory, should, astray) /\ taken \cap owned \subseteq astray
  BY <1>1, Zenon DEF SpaceInv, MemoryInv
<1>9. Right(memory \cup B, (owned \cup (taken \cup B)) \ freed, astray)
  BY <1>1, <1>8, ZenonT(60) DEF Right
<1>10. (taken \cup B) \cap owned \subseteq astray
  BY <1>1, <1>8, ZenonT(60) DEF Right
<1>11. MemoryInv'
  BY <1>1, <1>9, <1>10, Zenon DEF MemoryInv
<1>12. TypesInv'
  BY <1>1, <1>3, Zenon DEF SpaceInv, TypesInv
<1>13. "open" # "init"
  OBVIOUS
<1>14. BatchInv' /\ FirstKeyInv'
  BY <1>1, <1>4, <1>13, Zenon DEF SpaceInv, BatchInv, FirstKeyInv
<1> QED BY <1>6, <1>7, <1>11, <1>12, <1>14, Zenon DEF SpaceInv

(* A release is staged: in the keys it reads, the updates that the batch   *)
(* had are overwritten.                                                    *)
LEMMA ReleaseStep == ASSUME SpaceInv, NEW results, Release(results) PROVE SpaceInv'
<1> DEFINE B == BlocksOfAll(results)
           K == InKeysOf(B)
           should == (owned \cup taken) \ freed
           wrong == (lost \ (taken \cup freed)) \cup overwritten
           should2 == (owned \cup taken) \ (freed \cup B)
           wrong2 == (lost \ (taken \cup (freed \cup B))) \cup (overwritten \cup ((taken \cup freed) \cap K))
<1>1. /\ phase = "open" /\ phase' = "open" /\ B \subseteq owned \ (taken \cup freed)
      /\ staged' = persistSpaceBits(results, FALSE)
      /\ memory' = IF B \subseteq memory THEN memory \ B ELSE memory
      /\ astray' = IF B \subseteq memory THEN astray ELSE astray \cup B
      /\ freed' = freed \cup B /\ overwritten' = overwritten \cup ((taken \cup freed) \cap K)
      /\ store' = store /\ initFrom' = initFrom /\ taken' = taken /\ owned' = owned /\ lost' = lost
  BY Zenon DEF Release
<1>2. PICK S : Agrees(store, S) /\ Right(S, owned, lost)
  BY Zenon DEF SpaceInv, StoreInv
<1>3. PICK T : Agrees(staged, T) /\ Right(T, should, wrong)
  BY Zenon DEF SpaceInv, StagedInv
<1>4. B \subseteq Blocks
  BY <1>1, Zenon DEF SpaceInv, TypesInv
<1> DEFINE U == (T \ K) \cup ((S \ B) \cap K)
<1>5. Agrees(staged', U) /\ (staged[0] # <<>> => staged'[0] # <<>>)
  BY <1>1, <1>2, <1>3, <1>4, ReleaseAgrees, Zenon
<1>6. B \subseteq K
  BY <1>4, Zenon DEF InKeysOf
<1> HIDE DEF B, K
<1>7. Right(U, should2, wrong2)
  <2> SUFFICES ASSUME NEW b \in Blocks, b \notin wrong2
               PROVE  b \in U <=> b \in should2
    BY Zenon DEF Right
  <2>1. CASE b \in B
    BY <1>6, <2>1, Zenon
  <2>2. CASE b \notin B /\ b \in K
    <3>1. b \notin taken /\ b \notin freed /\ b \notin lost
      BY <2>2, Zenon
    <3>2. b \in S <=> b \in owned
      BY <1>2, <3>1, Zenon DEF Right
    <3> QED BY <2>2, <3>1, <3>2, Zenon
  <2>3. CASE b \notin K
    <3>1. b \notin B
      BY <1>6, <2>3, Zenon
    <3>2. b \notin wrong
      BY <2>3, <3>1, Zenon
    <3>3. b \in T <=> b \in should
      BY <1>3, <3>2, Zenon DEF Right
    <3> QED BY <2>3, <3>1, <3>3, Zenon
  <2> QED BY <2>1, <2>2, <2>3, Zenon
<1>8. StagedInv'
  BY <1>1, <1>5, <1>7, Zenon DEF StagedInv
<1>9. StoreInv'
  BY <1>1, Zenon DEF SpaceInv, StoreInv
<1>10. Right(memory, should, astray) /\ taken \cap owned \subseteq astray
  BY <1>1, Zenon DEF SpaceInv, MemoryInv
<1>11. MemoryInv'
  <2>1. CASE B \subseteq memory
    <3>1. Right(memory \ B, should2, astray)
      BY <1>10, Zenon DEF Right
    <3> QED BY <1>1, <1>10, <2>1, <3>1, Zenon DEF MemoryInv
  <2>2. CASE ~ (B \subseteq memory)
    <3>1. Right(memory, should2, astray \cup B)
      BY <1>10, Zenon DEF Right
    <3>2. taken \cap owned \subseteq astray \cup B
      BY <1>10, Zenon
    <3> QED BY <1>1, <2>2, <3>1, <3>2, Zenon DEF MemoryInv
  <2> QED BY <2>1, <2>2, Zenon
<1>12. TypesInv'
  BY <1>1, Zenon DEF SpaceInv, TypesInv
<1>13. "open" # "init"
  OBVIOUS
<1>14. BatchInv' /\ FirstKeyInv'
  BY <1>1, <1>5, <1>13, Zenon DEF SpaceInv, BatchInv, FirstKeyInv
<1> QED BY <1>8, <1>9, <1>11, <1>12, <1>14, Zenon DEF SpaceInv

(* A batch that is not over is one of an open device.                      *)
LEMMA EndBatchOpen == ASSUME SpaceInv, EndBatch PROVE phase = "open"
BY Zenon DEF SpaceInv, BatchInv, EndBatch

(* The batch is committed.                                                 *)
LEMMA CommitStep == ASSUME SpaceInv, Commit PROVE SpaceInv'
<1> DEFINE should == (owned \cup taken) \ freed
           wrong == (lost \ (taken \cup freed)) \cup overwritten
<1>1. /\ phase' = phase /\ taken' = {} /\ freed' = {} /\ overwritten' = {} /\ store' = staged
      /\ owned' = should /\ lost' = wrong /\ initFrom' = initFrom /\ memory' = memory
      /\ staged' = staged /\ astray' = astray
  BY Zenon DEF Commit, EndBatch
<1>2. phase = "open" /\ "open" # "init"
  BY EndBatchOpen, Zenon DEF Commit
<1>3. PICK T : Agrees(staged, T) /\ Right(T, should, wrong)
  BY Zenon DEF SpaceInv, StagedInv
<1>4. should \in SUBSET Blocks
  BY Zenon DEF SpaceInv, TypesInv
<1>5. Right(memory, should, astray)
  BY <1>2, Zenon DEF SpaceInv, MemoryInv
<1>6. store'[0] # <<>> /\ staged'[0] # <<>>
  BY <1>1, <1>2, Zenon DEF SpaceInv, FirstKeyInv
<1> HIDE DEF should, wrong
<1>7. StoreInv'
  BY <1>1, <1>3, Zenon DEF StoreInv
<1>8. (should \cup {}) \ {} = should /\ (wrong \ ({} \cup {})) \cup {} = wrong
  BY Zenon
<1>9. StagedInv'
  BY <1>1, <1>3, <1>8, Zenon DEF StagedInv
<1>10. MemoryInv'
  BY <1>1, <1>5, <1>8, Zenon DEF MemoryInv
<1>11. TypesInv'
  BY <1>1, <1>4, Zenon DEF SpaceInv, TypesInv
<1>12. BatchInv' /\ FirstKeyInv'
  BY <1>1, <1>2, <1>6, Zenon DEF BatchInv, FirstKeyInv
<1> QED BY <1>7, <1>9, <1>10, <1>11, <1>12, Zenon DEF SpaceInv

(* The batch is dropped: what it took is given back, and what it freed in  *)
(* memory is astray.                                                       *)
LEMMA FailStep == ASSUME SpaceInv, Fail PROVE SpaceInv'
<1>1. /\ phase' = phase /\ taken' = {} /\ freed' = {} /\ overwritten' = {} /\ staged' = store
      /\ memory' = memory \ taken /\ astray' = astray \cup freed
      /\ store' = store /\ owned' = owned /\ lost' = lost /\ initFrom' = initFrom
  BY Zenon DEF Fail, EndBatch
<1>2. phase = "open" /\ "open" # "init"
  BY EndBatchOpen, Zenon DEF Fail
<1>3. PICK S : Agrees(store, S) /\ Right(S, owned, lost)
  BY Zenon DEF SpaceInv, StoreInv
<1>4. (owned \cup {}) \ {} = owned /\ (lost \ ({} \cup {})) \cup {} = lost
  BY Zenon
<1>5. StoreInv' /\ StagedInv'
  BY <1>1, <1>3, <1>4, Zenon DEF StoreInv, StagedInv
<1>6. Right(memory, (owned \cup taken) \ freed, astray) /\ taken \cap owned \subseteq astray
  BY <1>2, Zenon DEF SpaceInv, MemoryInv
<1>7. Right(memory \ taken, owned, astray \cup freed)
  BY <1>6, Zenon DEF Right
<1>8. MemoryInv'
  BY <1>1, <1>4, <1>7, Zenon DEF MemoryInv
<1>9. TypesInv'
  BY <1>1, Zenon DEF SpaceInv, TypesInv
<1>10. BatchInv' /\ FirstKeyInv'
  BY <1>1, <1>2, Zenon DEF SpaceInv, BatchInv, FirstKeyInv
<1> QED BY <1>5, <1>8, <1>9, <1>10, Zenon DEF SpaceInv

(* A compaction changes no bit, in the database or in the batch.           *)
LEMMA CompactStep == ASSUME SpaceInv, Compact PROVE SpaceInv'
<1> DEFINE new(st, k, i) == [st EXCEPT ![k] = Compacted("space", @, i)]
           Ext(k) == Len(store[k]) <= Len(staged[k]) /\ SubSeq(staged[k], 1, Len(store[k])) = store[k]
<1>1. PICK k \in SpaceKeys : \E i \in 1 .. Len(store[k]) - 1 :
        /\ store' = new(store, k, i)
        /\ staged' = [staged EXCEPT ![k] = IF Ext(k) THEN Compacted("space", @, i) ELSE @]
  BY Zenon DEF Compact
<1>2. PICK i \in 1 .. Len(store[k]) - 1 :
        /\ store' = new(store, k, i)
        /\ staged' = [staged EXCEPT ![k] = IF Ext(k) THEN Compacted("space", @, i) ELSE @]
  BY <1>1, Zenon
<1>3. /\ phase' = phase /\ initFrom' = initFrom /\ memory' = memory /\ taken' = taken
      /\ freed' = freed /\ overwritten' = overwritten /\ owned' = owned /\ lost' = lost
      /\ astray' = astray
  BY Zenon DEF Compact
<1>4. PICK S : Agrees(store, S) /\ Right(S, owned, lost)
  BY Zenon DEF SpaceInv, StoreInv
<1>5. PICK T : /\ Agrees(staged, T)
               /\ Right(T, (owned \cup taken) \ freed, (lost \ (taken \cup freed)) \cup overwritten)
  BY Zenon DEF SpaceInv, StagedInv
<1>6. Agrees(store', S) /\ (store'[0] = <<>> => store[0] = <<>>)
  BY <1>2, <1>4, CompactAgrees, Zenon
<1>7. store[k] \in Seq(SpaceValues) /\ staged[k] \in Seq(SpaceValues)
      /\ staged \in [SpaceKeys -> Seq(SpaceValues)]
  BY <1>4, <1>5, Zenon DEF Agrees
<1>8. CASE Ext(k)
  <2>1. staged' = new(staged, k, i)
    BY <1>2, <1>8, Zenon
  <2>2. i \in 1 .. Len(staged[k]) - 1
    <3> DEFINE n == Len(store[k])
               m == Len(staged[k])
    <3>1. n \in Nat /\ m \in Nat /\ n <= m /\ i \in 1 .. n - 1
      BY <1>7, <1>8
    <3> HIDE DEF n, m
    <3>2. i \in 1 .. m - 1
      BY <3>1
    <3> QED BY <3>2, Zenon DEF m
  <2>3. Agrees(staged', T) /\ (staged'[0] = <<>> => staged[0] = <<>>)
    BY <1>5, <2>1, <2>2, CompactAgrees, Zenon
  <2>4. staged = store => staged' = store'
    BY <1>2, <2>1, Zenon
  <2>5. StoreInv' /\ StagedInv'
    BY <1>3, <1>4, <1>5, <1>6, <2>3, Zenon DEF StoreInv, StagedInv
  <2>6. TypesInv' /\ MemoryInv'
    BY <1>3, Zenon DEF SpaceInv, TypesInv, MemoryInv
  <2>7. BatchInv'
    BY <1>3, <2>4, Zenon DEF SpaceInv, BatchInv
  <2>8. FirstKeyInv'
    BY <1>3, <1>6, <2>3, Zenon DEF SpaceInv, FirstKeyInv
  <2> QED BY <2>5, <2>6, <2>7, <2>8, Zenon DEF SpaceInv
<1>9. CASE ~ Ext(k)
  <2>1. staged' = staged
    BY <1>2, <1>7, <1>9, Zenon
  <2>2. staged # store
    <3>1. Len(store[k]) <= Len(store[k]) /\ SubSeq(store[k], 1, Len(store[k])) = store[k]
      BY <1>7
    <3> QED BY <1>9, <3>1, Zenon
  <2>5. StoreInv' /\ StagedInv'
    BY <1>3, <1>4, <1>5, <1>6, <2>1, Zenon DEF StoreInv, StagedInv
  <2>6. TypesInv' /\ MemoryInv'
    BY <1>3, Zenon DEF SpaceInv, TypesInv, MemoryInv
  <2>7. BatchInv'
    BY <1>3, <2>1, <2>2, Zenon DEF SpaceInv, BatchInv
  <2>8. FirstKeyInv'
    BY <1>3, <1>6, <2>1, Zenon DEF SpaceInv, FirstKeyInv
  <2> QED BY <2>5, <2>6, <2>7, <2>8, Zenon DEF SpaceInv
<1> QED BY <1>8, <1>9, Zenon

(* A crash loses memory and the batch only.                                *)
LEMMA CrashStep == ASSUME SpaceInv, Crash PROVE SpaceInv'
<1>1. /\ phase' = "closed" /\ staged' = store /\ taken' = {} /\ freed' = {} /\ overwritten' = {}
      /\ store' = store /\ initFrom' = initFrom /\ owned' = owned /\ lost' = lost
  BY Zenon DEF Crash
<1>2. PICK S : Agrees(store, S) /\ Right(S, owned, lost)
  BY Zenon DEF SpaceInv, StoreInv
<1>3. (owned \cup {}) \ {} = owned /\ (lost \ ({} \cup {})) \cup {} = lost
  BY Zenon
<1>4. StoreInv' /\ StagedInv'
  BY <1>1, <1>2, <1>3, Zenon DEF StoreInv, StagedInv
<1>5. "closed" # "open" /\ "closed" # "init" /\ "closed" # "load"
  OBVIOUS
<1>6. TypesInv' /\ MemoryInv' /\ BatchInv'
  BY <1>1, <1>5, Zenon DEF SpaceInv, TypesInv, MemoryInv, BatchInv
<1>7. FirstKeyInv'
  BY <1>1, <1>5, Zenon DEF SpaceInv, FirstKeyInv
<1> QED BY <1>4, <1>6, <1>7, Zenon DEF SpaceInv

(* A step that leaves the device alone.                                    *)
LEMMA StutterStep == ASSUME SpaceInv, UNCHANGED vars PROVE SpaceInv'
<1>1. /\ phase' = phase /\ initFrom' = initFrom /\ memory' = memory /\ taken' = taken
      /\ freed' = freed /\ overwritten' = overwritten /\ owned' = owned /\ lost' = lost
      /\ astray' = astray /\ store' = store /\ staged' = staged
  BY Zenon DEF vars, batchVars
<1>2. TypesInv' /\ StoreInv' /\ StagedInv'
  BY <1>1, Zenon DEF SpaceInv, TypesInv, StoreInv, StagedInv
<1>3. MemoryInv' /\ BatchInv' /\ FirstKeyInv'
  BY <1>1, Zenon DEF SpaceInv, MemoryInv, BatchInv, FirstKeyInv
<1> QED BY <1>2, <1>3, Zenon DEF SpaceInv

(* The invariant holds in every reachable state: the records under every   *)
(* space key stand for the blocks that are owned but for those a Release   *)
(* overwrote in its batch, and so do the batch and memory, through         *)
(* initialisation in batches, merges, read-modify-writes, commits and      *)
(* failures of them, compactions and crashes.                              *)
THEOREM SpaceInvariant == Spec => []SpaceInv
<1>1. SpaceInv /\ [Next]_vars => SpaceInv'
  BY OpenStep, InitBatchStep, LoadStep, PersistAllocStep, ReleaseStep, CommitStep, FailStep,
     CompactStep, CrashStep, StutterStep, Zenon DEF Next
<1> QED BY <1>1, SpaceInitInv, PTL DEF Spec

(* For every geometry of device and every set of extents, the bitmap       *)
(* loadSpaceValue reads back is the set of the blocks allocated and not    *)
(* released, but for those whose last update a later Release of the same   *)
(* batch overwrote.                                                        *)
THEOREM BitmapStaysExact == Spec => []BitmapExact
<1>1. SpaceInv => BitmapExact
  <2> SUFFICES ASSUME SpaceInv, NEW k \in SpaceKeys, NEW x \in AllBits,
                      k * BlocksPerSpace + x \notin lost
               PROVE  x \in loadSpaceValue(k) <=> k * BlocksPerSpace + x \in owned
    BY Zenon DEF BitmapExact
  <2>1. PICK S : Agrees(store, S) /\ Right(S, owned, lost)
    BY Zenon DEF SpaceInv, StoreInv
  <2>2. loadSpaceValue(k) = BitsOf(k, S) /\ S \subseteq Blocks /\ owned \subseteq Blocks
    BY <2>1, Loaded, Zenon DEF Agrees, SpaceInv, TypesInv
  <2>3. x \in loadSpaceValue(k) <=> k * BlocksPerSpace + x \in S
    BY <2>2, Zenon DEF BitsOf
  <2>4. k * BlocksPerSpace + x \in S <=> k * BlocksPerSpace + x \in owned
    BY <2>1, <2>2, Zenon DEF Right
  <2> QED BY <2>3, <2>4, Zenon
<1> QED BY <1>1, SpaceInvariant, PTL

(* Opening a device never fails, and an open device has in memory exactly  *)
(* the blocks that are committed or staged, but for those lost before and  *)
(* those of a Release whose batch failed or that the allocator refused.    *)
THEOREM LoadStaysExact == Spec => []LoadExact
<1>1. SpaceInv => LoadExact
  <2> SUFFICES ASSUME SpaceInv PROVE LoadExact
    OBVIOUS
  <2>1. phase # "failed"
    BY DEF SpaceInv, TypesInv
  <2> QED BY <2>1, Zenon DEF SpaceInv, MemoryInv, Right, LoadExact
<1> QED BY <1>1, SpaceInvariant, PTL

===============================================================================
