--------------------------- MODULE LedgerTheorems ---------------------------
(***************************************************************************)
(* What appending a row does to the readers of a ledger.                   *)
(***************************************************************************)
EXTENDS JsonlLedger, SequenceTheorems, WellFoundedInduction, TLAPS

(***************************************************************************)
(* LatestIndex is what its name says: zero when the key has no row, and    *)
(* otherwise the greatest position of a row of the key.                    *)
(***************************************************************************)
LEMMA LatestIndexIs ==
  ASSUME NEW R, NEW ledger \in Seq(R), NEW k, NEW i \in 1 .. Len(ledger),
         ledger[i].key = k, \A j \in 1 .. Len(ledger) : ledger[j].key = k => j <= i
  PROVE  LatestIndex(ledger, k) = i
<1> DEFINE I == {j \in 1 .. Len(ledger) : ledger[j].key = k}
<1>1. i \in I /\ \A j \in I : i >= j
  OBVIOUS
<1>2. Max(I) = i
  BY <1>1 DEF Max
<1>. QED
  BY <1>1, <1>2 DEF LatestIndex, SelectLastInSeq

LEMMA LatestIndexNone ==
  ASSUME NEW R, NEW ledger \in Seq(R), NEW k,
         \A j \in 1 .. Len(ledger) : ledger[j].key # k
  PROVE  LatestIndex(ledger, k) = 0
<1>1. {j \in 1 .. Len(ledger) : ledger[j].key = k} = {}
  OBVIOUS
<1>. QED
  BY <1>1 DEF LatestIndex, SelectLastInSeq

(***************************************************************************)
(* A nonempty set of positions has a greatest one, so LatestIndex is a     *)
(* position of the ledger whenever the key has a row.                      *)
(***************************************************************************)
LEMMA GreatestPosition ==
  ASSUME NEW n \in Nat, NEW I \in SUBSET (1 .. n), I # {}
  PROVE  \E i \in I : \A j \in I : j <= i
<1> DEFINE T == {n - i : i \in I}
<1>1. T \subseteq Nat /\ T # {}
  <2>1. \A i \in I : n - i \in Nat
    OBVIOUS
  <2>. QED
    BY <2>1
<1>2. PICK x \in T : \A y \in T : ~(<<y, x>> \in OpToRel(<, Nat))
  BY <1>1, NatLessThanWellFounded, WFMin, Zenon
<1>3. PICK i \in I : x = n - i
  OBVIOUS
<1>4. ASSUME NEW j \in I PROVE j <= i
  <2>1. n - j \in T /\ n - j \in Nat /\ x \in Nat
    OBVIOUS
  <2>2. ~(n - j < x)
    BY <1>2, <2>1 DEF OpToRel
  <2>. QED
    BY <2>2, <1>3
<1>. QED
  BY <1>4

\* ... and a least one.
LEMMA LeastPosition ==
  ASSUME NEW n \in Nat, NEW I \in SUBSET (1 .. n), I # {}
  PROVE  \E i \in I : \A j \in I : i <= j
<1>1. I \subseteq Nat
  OBVIOUS
<1>2. PICK i \in I : \A j \in I : ~(<<j, i>> \in OpToRel(<, Nat))
  BY <1>1, NatLessThanWellFounded, WFMin, Zenon
<1>3. ASSUME NEW j \in I PROVE i <= j
  <2>1. i \in Nat /\ j \in Nat /\ ~(j < i)
    BY <1>1, <1>2 DEF OpToRel
  <2>. QED
    BY <2>1
<1>. QED
  BY <1>3

LEMMA LatestIndexProperties ==
  ASSUME NEW R, NEW ledger \in Seq(R), NEW k
  PROVE  /\ LatestIndex(ledger, k) \in 0 .. Len(ledger)
         /\ LatestIndex(ledger, k) = 0 <=> \A j \in 1 .. Len(ledger) : ledger[j].key # k
         /\ LatestIndex(ledger, k) # 0 => ledger[LatestIndex(ledger, k)].key = k
         /\ \A j \in 1 .. Len(ledger) : ledger[j].key = k => j <= LatestIndex(ledger, k)
<1> DEFINE I == {j \in 1 .. Len(ledger) : ledger[j].key = k}
<1>1. CASE I = {}
  <2>1. \A j \in 1 .. Len(ledger) : ledger[j].key # k
    BY <1>1
  <2>. QED
    BY <2>1, LatestIndexNone
<1>2. CASE I # {}
  <2>1. Len(ledger) \in Nat
    BY LenProperties
  <2>2. PICK i \in I : \A j \in I : j <= i
    BY <1>2, <2>1, GreatestPosition
  <2>3. LatestIndex(ledger, k) = i
    BY <2>2, LatestIndexIs
  <2>. QED
    BY <2>2, <2>3
<1>. QED
  BY <1>1, <1>2

(***************************************************************************)
(* Appending a row makes it the latest of its key and leaves what readers  *)
(* see of every other key alone.                                           *)
(***************************************************************************)
LEMMA LatestIndexAppend ==
  ASSUME NEW R, NEW ledger \in Seq(R), NEW row \in R, NEW k
  PROVE  LatestIndex(Append(ledger, row), k) =
           IF row.key = k THEN Len(ledger) + 1 ELSE LatestIndex(ledger, k)
<1> DEFINE new == Append(ledger, row)
<1>1. /\ new \in Seq(R)
      /\ Len(new) = Len(ledger) + 1
      /\ Len(ledger) \in Nat
      /\ new[Len(ledger) + 1] = row
      /\ \A j \in 1 .. Len(ledger) : new[j] = ledger[j]
  BY AppendProperties, LenProperties
<1>2. CASE row.key = k
  <2>1. /\ Len(ledger) + 1 \in 1 .. Len(new)
        /\ new[Len(ledger) + 1].key = k
        /\ \A j \in 1 .. Len(new) : new[j].key = k => j <= Len(ledger) + 1
    BY <1>1, <1>2
  <2> HIDE DEF new
  <2>2. LatestIndex(new, k) = Len(ledger) + 1
    BY <1>1, <2>1, LatestIndexIs
  <2>. QED
    BY <1>2, <2>2 DEF new
<1>3. CASE row.key # k
  <2>1. {j \in 1 .. Len(new) : new[j].key = k} = {j \in 1 .. Len(ledger) : ledger[j].key = k}
    BY <1>1, <1>3
  <2>. QED
    BY <1>3, <2>1 DEF LatestIndex, SelectLastInSeq
<1>. QED
  BY <1>2, <1>3

LEMMA LatestAppend ==
  ASSUME NEW R, NEW ledger \in Seq(R), NEW row \in R, NEW k
  PROVE  /\ Has(Append(ledger, row), k) <=> row.key = k \/ Has(ledger, k)
         /\ row.key = k => Latest(Append(ledger, row), k) = row
         /\ row.key # k /\ Has(ledger, k) => Latest(Append(ledger, row), k) = Latest(ledger, k)
<1>1. /\ Len(ledger) \in Nat
      /\ Append(ledger, row)[Len(ledger) + 1] = row
      /\ \A j \in 1 .. Len(ledger) : Append(ledger, row)[j] = ledger[j]
  BY AppendProperties, LenProperties
<1>2. LatestIndex(ledger, k) \in 0 .. Len(ledger)
  BY LatestIndexProperties
<1>. QED
  BY <1>1, <1>2, LatestIndexAppend DEF Has, Latest

LEMMA LatestInRows ==
  ASSUME NEW R, NEW ledger \in Seq(R), NEW k, Has(ledger, k)
  PROVE  Latest(ledger, k) \in R /\ Latest(ledger, k).key = k
<1>1. LatestIndex(ledger, k) \in 1 .. Len(ledger)
  BY LatestIndexProperties, LenProperties DEF Has
<1>. QED
  BY <1>1, LatestIndexProperties, ElementOfSeq DEF Latest, Has

(***************************************************************************)
(* What stood before a row is not disturbed by later ones, and what stands *)
(* before the appended row is the whole ledger as it was.                  *)
(***************************************************************************)
LEMMA PrefixAppend ==
  ASSUME NEW R, NEW ledger \in Seq(R), NEW row \in R
  PROVE  /\ \A i \in 1 .. Len(ledger) :
              SubSeq(Append(ledger, row), 1, i - 1) = SubSeq(ledger, 1, i - 1)
         /\ SubSeq(Append(ledger, row), 1, Len(ledger)) = ledger
<1> DEFINE new == Append(ledger, row)
<1>1. /\ new \in Seq(R)
      /\ Len(new) = Len(ledger) + 1
      /\ Len(ledger) \in Nat
      /\ \A j \in 1 .. Len(ledger) : new[j] = ledger[j]
  BY AppendProperties, LenProperties
<1> HIDE DEF new
<1>2. ASSUME NEW m \in 0 .. Len(ledger) PROVE SubSeq(new, 1, m) = SubSeq(ledger, 1, m)
  BY <1>1
<1>3. SubSeq(ledger, 1, Len(ledger)) = ledger
  BY SubSeqFull
<1>4. \A i \in 1 .. Len(ledger) : i - 1 \in 0 .. Len(ledger)
  BY <1>1
<1>. QED
  BY <1>1, <1>2, <1>3, <1>4 DEF new
=============================================================================
