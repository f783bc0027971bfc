--------------------------- MODULE SEDiff_proofs ---------------------------
(***************************************************************************)
(* Proofs about SEDiff, for any set of hashes, any number of paths and any *)
(* number of other runs of KLEE.                                           *)
(*                                                                         *)
(* The merge of compare is treated as an algorithm on two ascending        *)
(* sequences: Merged is its loop invariant, with one lemma for each way a  *)
(* round may go and one for the remainders.  The rest of the invariant     *)
(* says which output directory belongs to which program.                   *)
(***************************************************************************)
EXTENDS SEDiff, SequenceTheorems, FiniteSetTheorems, NaturalsInduction,
        WellFoundedInduction, TLAPS

Ascending(q) == \A i, j \in DOMAIN q : i < j => q[i] < q[j]

-----------------------------------------------------------------------------
(* Sorting                                                                 *)

(* A nonempty set of numbers has a least one.                              *)
LEMMA LeastNumber ==
    ASSUME NEW T, T \subseteq Nat, T # {}
    PROVE  \E m \in T : \A k \in T : m <= k
<1>1. PICK m \in T : \A k \in T : ~(<<k, m>> \in OpToRel(<, Nat))
  BY WFMin, NatLessThanWellFounded, Zenon
<1>2. \A k \in T : ~(k < m)
  BY <1>1 DEF OpToRel
<1> QED
  BY <1>2

(* A finite set of numbers has an ascending enumeration: else there is a   *)
(* smallest set without one, and its least element goes in front of the    *)
(* enumeration of the others.                                              *)
LEMMA AscendingExists ==
    ASSUME NEW S, S \subseteq Nat, IsFiniteSet(S)
    PROVE  \E q \in [1..Cardinality(S) -> S] : Ascending(q)
<1> DEFINE Has(T, n) == \E q \in [1..n -> T] : Ascending(q)
           Bad == {n \in Nat : \E T \in SUBSET Nat :
                      IsFiniteSet(T) /\ Cardinality(T) = n /\ ~Has(T, n)}
<1>1. Bad = {}
  <2>1. SUFFICES ASSUME Bad # {} PROVE FALSE
    OBVIOUS
  <2>2. PICK n \in Bad : \A k \in Bad : n <= k
    <3>1. Bad \subseteq Nat
      OBVIOUS
    <3> HIDE DEF Bad
    <3> QED
      BY <2>1, <3>1, LeastNumber
  <2>3. n \in Nat
    BY <2>2
  <2>4. PICK T \in SUBSET Nat : IsFiniteSet(T) /\ Cardinality(T) = n /\ ~Has(T, n)
    BY <2>2
  <2>5. n # 0
    <3>1. SUFFICES ASSUME n = 0 PROVE Has(T, 0)
      BY <2>4
    <3>2. [i \in 1..0 |-> 0] \in [1..0 -> T] /\ Ascending([i \in 1..0 |-> 0])
      BY DEF Ascending
    <3> QED
      BY <3>2
  <2>6. T # {}
    BY <2>4, <2>5, FS_EmptySet
  <2>7. PICK m \in T : \A k \in T : m <= k
    BY <2>6, LeastNumber
  <2>8. IsFiniteSet(T \ {m}) /\ Cardinality(T \ {m}) = n - 1
    BY <2>4, <2>7, FS_RemoveElement
  <2>9. n - 1 \in Nat /\ n - 1 \notin Bad
    BY <2>2, <2>3, <2>5
  <2>10. Has(T \ {m}, n - 1)
    BY <2>8, <2>9
  <2>11. PICK r \in [1..(n - 1) -> T \ {m}] : Ascending(r)
    BY <2>10
  <2> DEFINE q == [i \in 1..n |-> IF i = 1 THEN m ELSE r[i - 1]]
  <2>12. q \in [1..n -> T]
    BY <2>3, <2>7, <2>11
  <2>13. ASSUME NEW i \in 1..n, NEW j \in 1..n, i < j PROVE q[i] < q[j]
    <3>1. q[j] = r[j - 1] /\ j - 1 \in 1..(n - 1) /\ r[j - 1] \in T \ {m}
      BY <2>3, <2>11, <2>13
    <3>2. CASE i = 1
      <4>1. q[i] = m /\ m \in Nat /\ q[j] \in Nat /\ q[j] # m /\ m <= q[j]
        BY <2>3, <2>4, <2>7, <3>1, <3>2
      <4> QED
        BY <4>1
    <3>3. CASE i # 1
      <4>1. q[i] = r[i - 1] /\ i - 1 \in 1..(n - 1) /\ i - 1 < j - 1
        BY <2>3, <2>13, <3>3
      <4> QED
        BY <2>11, <3>1, <4>1 DEF Ascending
    <3> QED
      BY <3>2, <3>3
  <2>14. Ascending(q)
    BY <2>13 DEF Ascending
  <2> QED
    BY <2>4, <2>12, <2>14
<1>2. Cardinality(S) \in Nat
  BY FS_CardinalityType
<1>3. Has(S, Cardinality(S))
  BY <1>1, <1>2
<1> QED
  BY <1>3

(* What compare works on: the keys, each once, in order.                   *)
LEMMA SortedKeysIs ==
    ASSUME NEW S, S \subseteq Nat, IsFiniteSet(S)
    PROVE  /\ SortedKeys(S) \in Seq(Nat)
           /\ Ascending(SortedKeys(S))
           /\ Range(SortedKeys(S)) = S
<1> DEFINE n == Cardinality(S)
<1>1. n \in Nat
  BY FS_CardinalityType
<1>2. PICK q \in [1..n -> S] : Ascending(q)
  BY AscendingExists
<1>3. \A i, j \in 1..n : i # j => q[i] # q[j]
  <2>1. ASSUME NEW i \in 1..n, NEW j \in 1..n, i # j PROVE q[i] # q[j]
    <3>1. i < j \/ j < i
      BY <1>1, <2>1
    <3>2. q[i] \in Nat /\ q[j] \in Nat
      BY <1>2
    <3> QED
      BY <1>2, <3>1, <3>2 DEF Ascending
  <2> QED
    BY <2>1
<1>4. q \in SetToSeqs(S)
  BY <1>2, <1>3 DEF SetToSeqs
<1> DEFINE p == SortedKeys(S)
<1>5. p \in SetToSeqs(S) /\ Ascending(p)
  BY <1>2, <1>4 DEF SortedKeys, Ascending
<1>6. p \in [1..n -> S] /\ \A i, j \in 1..n : i # j => p[i] # p[j]
  BY <1>5 DEF SetToSeqs
<1>7. p \in Injection(1..n, S)
  BY <1>6 DEF Injection, IsInjective
<1>8. Cardinality(1..n) = n /\ IsFiniteSet(1..n)
  BY <1>1, FS_Interval
<1>9. p \in Surjection(1..n, S)
  BY <1>7, <1>8, FS_Injection
<1>10. Range(p) = S
  BY <1>6, <1>9 DEF Surjection, Range
<1>11. p \in Seq(Nat)
  <2>1. p \in [1..n -> Nat]
    BY <1>6
  <2> HIDE DEF p, n
  <2> QED
    BY <1>1, <2>1
<1> QED
  BY <1>5, <1>10, <1>11

(* The hashes of a directory are finitely many.                            *)
LEMMA FilesFinite ==
    ASSUME NEW files \in Seq(Hashes)
    PROVE  Range(files) \subseteq Nat /\ IsFiniteSet(Range(files))
<1>1. files \in [1..Len(files) -> Hashes] /\ DOMAIN files = 1..Len(files) /\ Len(files) \in Nat
  BY LenProperties
<1>2. files \in Surjection(1..Len(files), Range(files))
  BY <1>1 DEF Surjection, Range
<1>3. IsFiniteSet(1..Len(files))
  BY <1>1, FS_Interval
<1>4. IsFiniteSet(Range(files))
  BY <1>2, <1>3, FS_Surjection
<1> QED
  BY <1>1, <1>4, SEDiffAssumption DEF Range

(* Of the files with a hash there is a last one.                           *)
LEMMA LastFile ==
    ASSUME NEW files \in Seq(Hashes), NEW h \in Range(files)
    PROVE  \E i \in DOMAIN files :
              files[i] = h /\ \A j \in DOMAIN files : files[j] = h => j <= i
<1>1. DOMAIN files = 1..Len(files) /\ Len(files) \in Nat
  BY LenProperties
<1> DEFINE T == {Len(files) - i : i \in {j \in 1..Len(files) : files[j] = h}}
<1>2. T # {} /\ T \subseteq Nat
  BY <1>1 DEF Range
<1>3. PICK m \in T : \A k \in T : m <= k
  <2> HIDE DEF T
  <2> QED
    BY <1>2, LeastNumber
<1>4. PICK i \in 1..Len(files) : files[i] = h /\ m = Len(files) - i
  BY <1>3
<1>5. ASSUME NEW j \in 1..Len(files), files[j] = h PROVE j <= i
  <2>1. Len(files) - j \in T
    BY <1>5
  <2>2. m <= Len(files) - j
    <3> HIDE DEF T
    <3> QED
      BY <1>3, <2>1
  <2> QED
    BY <1>1, <1>4, <2>2
<1> QED
  BY <1>1, <1>4, <1>5

-----------------------------------------------------------------------------
(* The merge                                                               *)

Keys(q) == q \in Seq(Nat) /\ Ascending(q)

(* The loop invariant of compare: what lies before the indices i and j is  *)
(* on the lists a (l0), b (l1) and c (l2), and below what lies behind the  *)
(* index of the other list.                                                *)
Merged(bf, af, i, j, a, b, c) ==
    /\ i \in 1..(Len(bf) + 1) /\ j \in 1..(Len(af) + 1)
    /\ Keys(a) /\ Keys(b) /\ Keys(c)
    /\ Range(a) \cup Range(b) = {bf[k] : k \in 1..(i - 1)}
    /\ Range(a) \cup Range(c) = {af[k] : k \in 1..(j - 1)}
    /\ Range(b) \cap Range(af) = {} /\ Range(c) \cap Range(bf) = {}
    /\ \A k \in 1..(i - 1), m \in j..Len(af) : bf[k] < af[m]
    /\ \A k \in i..Len(bf), m \in 1..(j - 1) : af[m] < bf[k]

(* What compare returns.                                                   *)
Result(bf, af, a, b, c) ==
    /\ Keys(a) /\ Keys(b) /\ Keys(c)
    /\ Range(a) \cup Range(b) = Range(bf)
    /\ Range(a) \cup Range(c) = Range(af)
    /\ Range(b) \cap Range(af) = {} /\ Range(c) \cap Range(bf) = {}

(* Appending a larger number keeps a list in order.                        *)
LEMMA AppendKeys ==
    ASSUME NEW q, Keys(q), NEW x \in Nat, \A y \in Range(q) : y < x
    PROVE  Keys(Append(q, x)) /\ Range(Append(q, x)) = Range(q) \cup {x}
<1> DEFINE p == Append(q, x)
<1>1. q \in Seq(Nat) /\ Len(q) \in Nat /\ DOMAIN q = 1..Len(q) /\ Ascending(q)
  BY LenProperties DEF Keys
<1>2. /\ p \in Seq(Nat) /\ Len(p) = Len(q) + 1 /\ DOMAIN p = 1..(Len(q) + 1)
      /\ \A i \in 1..Len(q) : p[i] = q[i]
      /\ p[Len(q) + 1] = x
  BY <1>1, AppendProperties, LenProperties
<1> HIDE DEF p
<1>3. Ascending(p)
  <2>1. ASSUME NEW i \in 1..(Len(q) + 1), NEW j \in 1..(Len(q) + 1), i < j
        PROVE  p[i] < p[j]
    <3>0. i \in 1..Len(q)
      BY <1>1, <2>1
    <3>1. i \in 1..Len(q) /\ p[i] = q[i] /\ q[i] \in Range(q)
      BY <1>1, <1>2, <3>0 DEF Range
    <3>2. CASE j = Len(q) + 1
      BY <1>2, <3>1, <3>2
    <3>3. CASE j # Len(q) + 1
      <4>1. j \in 1..Len(q) /\ p[j] = q[j]
        BY <1>1, <1>2, <3>3
      <4> QED
        BY <1>1, <2>1, <3>1, <4>1 DEF Ascending
    <3> QED
      BY <3>2, <3>3
  <2> QED
    BY <1>2, <2>1 DEF Ascending
<1>4. Range(p) = Range(q) \cup {x}
  <2>1. Range(q) \subseteq Range(p)
    BY <1>1, <1>2 DEF Range
  <2>2. x \in Range(p)
    BY <1>1, <1>2 DEF Range
  <2>3. ASSUME NEW y \in Range(p) PROVE y \in Range(q) \cup {x}
    <3>1. PICK i \in 1..(Len(q) + 1) : y = p[i]
      BY <1>2 DEF Range
    <3>2. i \in 1..Len(q) \/ i = Len(q) + 1
      BY <1>1
    <3> QED
      BY <1>1, <1>2, <3>1, <3>2 DEF Range
  <2> QED
    BY <2>1, <2>2, <2>3
<1> QED
  BY <1>2, <1>3, <1>4 DEF Keys, p

(* So does appending a list of larger numbers.                             *)
LEMMA ConcatKeys ==
    ASSUME NEW q, Keys(q), NEW r, Keys(r),
           \A x \in Range(q), y \in Range(r) : x < y
    PROVE  Keys(q \o r) /\ Range(q \o r) = Range(q) \cup Range(r)
<1> DEFINE p == q \o r
<1>1. /\ q \in Seq(Nat) /\ Len(q) \in Nat /\ DOMAIN q = 1..Len(q) /\ Ascending(q)
      /\ r \in Seq(Nat) /\ Len(r) \in Nat /\ DOMAIN r = 1..Len(r) /\ Ascending(r)
  BY LenProperties DEF Keys
<1>2. /\ p \in Seq(Nat) /\ Len(p) = Len(q) + Len(r) /\ DOMAIN p = 1..(Len(q) + Len(r))
      /\ \A i \in 1..(Len(q) + Len(r)) : p[i] = IF i <= Len(q) THEN q[i] ELSE r[i - Len(q)]
  BY <1>1, ConcatProperties, LenProperties
<1>3. Range(p) = Range(q) \cup Range(r)
  BY <1>1, RangeConcatenation
<1> HIDE DEF p
<1>4. ASSUME NEW i \in 1..(Len(q) + Len(r)), NEW j \in 1..(Len(q) + Len(r)), i < j
      PROVE  p[i] < p[j]
  <2>1. CASE j <= Len(q)
    <3>1. i \in 1..Len(q) /\ j \in 1..Len(q) /\ p[i] = q[i] /\ p[j] = q[j]
      BY <1>1, <1>2, <1>4, <2>1
    <3> QED
      BY <1>1, <1>4, <3>1 DEF Ascending
  <2>2. CASE i <= Len(q) /\ ~(j <= Len(q))
    <3>1. i \in 1..Len(q) /\ j - Len(q) \in 1..Len(r) /\ p[i] = q[i] /\ p[j] = r[j - Len(q)]
      BY <1>1, <1>2, <1>4, <2>2
    <3>2. q[i] \in Range(q) /\ r[j - Len(q)] \in Range(r)
      BY <1>1, <3>1 DEF Range
    <3> QED
      BY <3>1, <3>2
  <2>3. CASE ~(i <= Len(q))
    <3>1. /\ i - Len(q) \in 1..Len(r) /\ j - Len(q) \in 1..Len(r) /\ i - Len(q) < j - Len(q)
          /\ p[i] = r[i - Len(q)] /\ p[j] = r[j - Len(q)]
      BY <1>1, <1>2, <1>4, <2>3
    <3> QED
      BY <1>1, <3>1 DEF Ascending
  <2> QED
    BY <1>1, <1>4, <2>1, <2>2, <2>3
<1>5. Ascending(p)
  BY <1>2, <1>4 DEF Ascending
<1> QED
  BY <1>2, <1>3, <1>5 DEF Keys, p

(* What is left of a list is in order.                                     *)
LEMMA RemainderKeys ==
    ASSUME NEW q, Keys(q), NEW i \in 1..(Len(q) + 1)
    PROVE  Keys(Remainder(q, i)) /\ Range(Remainder(q, i)) = {q[k] : k \in i..Len(q)}
<1> DEFINE p == SubSeq(q, i, Len(q))
           n == Len(q) - i + 1
<1>1. q \in Seq(Nat) /\ Len(q) \in Nat /\ DOMAIN q = 1..Len(q) /\ Ascending(q)
  BY LenProperties DEF Keys
<1>2. n \in Nat /\ \A k \in i..Len(q) : k \in 1..Len(q) /\ q[k] \in Nat
  BY <1>1, ElementOfSeq
<1>3. /\ p \in Seq(Nat) /\ Len(p) = n
      /\ \A k \in 1..n : p[k] = q[i + k - 1]
  BY <1>1, <1>2, SubSeqProperties
<1>4. DOMAIN p = 1..n
  BY <1>3, LenProperties
<1> HIDE DEF p
<1>5. Ascending(p)
  <2>1. ASSUME NEW k \in 1..n, NEW m \in 1..n, k < m PROVE p[k] < p[m]
    <3>1. i + k - 1 \in 1..Len(q) /\ i + m - 1 \in 1..Len(q) /\ i + k - 1 < i + m - 1
      BY <1>1, <2>1
    <3> QED
      BY <1>1, <1>3, <3>1 DEF Ascending
  <2> QED
    BY <1>4, <2>1 DEF Ascending
<1>6. Range(p) = {q[k] : k \in i..Len(q)}
  <2>1. ASSUME NEW k \in 1..n PROVE p[k] \in {q[m] : m \in i..Len(q)}
    <3>1. i + k - 1 \in i..Len(q)
      BY <1>1
    <3> QED
      BY <1>3, <3>1
  <2>2. ASSUME NEW k \in i..Len(q) PROVE q[k] \in Range(p)
    <3>1. k - i + 1 \in 1..n /\ i + (k - i + 1) - 1 = k
      BY <1>1
    <3>2. p[k - i + 1] = q[k]
      BY <1>3, <3>1
    <3> QED
      BY <1>4, <3>1, <3>2 DEF Range
  <2> QED
    BY <1>4, <2>1, <2>2 DEF Range
<1> QED
  BY <1>3, <1>5, <1>6 DEF Keys, Remainder, p

(* One more key lies before the index, and it is the largest that does.    *)
LEMMA Grows ==
    ASSUME NEW q, Keys(q), NEW i \in 1..Len(q)
    PROVE  /\ q[i] \in Nat /\ q[i] \in Range(q)
           /\ {q[k] : k \in 1..(i + 1 - 1)} = {q[k] : k \in 1..(i - 1)} \cup {q[i]}
           /\ \A k \in 1..(i - 1) : k \in 1..Len(q) /\ q[k] \in Nat /\ q[k] < q[i]
           /\ \A k \in (i + 1)..Len(q) : k \in 1..Len(q) /\ q[k] \in Nat /\ q[i] < q[k]
           /\ \A k \in 1..Len(q) : q[k] \in Nat
<1>1. q \in Seq(Nat) /\ Len(q) \in Nat /\ DOMAIN q = 1..Len(q) /\ Ascending(q)
  BY LenProperties DEF Keys
<1>2. \A k \in 1..Len(q) : q[k] \in Nat
  BY <1>1, ElementOfSeq
<1>3. {q[k] : k \in 1..(i + 1 - 1)} = {q[k] : k \in 1..(i - 1)} \cup {q[i]}
  <2>1. \A k : k \in 1..(i + 1 - 1) <=> k \in 1..(i - 1) \/ k = i
    BY <1>1
  <2> QED
    BY <2>1
<1>4. ASSUME NEW k \in 1..(i - 1) PROVE k \in 1..Len(q) /\ q[k] < q[i]
  <2>1. k \in 1..Len(q) /\ k < i
    BY <1>1
  <2> QED
    BY <1>1, <2>1 DEF Ascending
<1>5. ASSUME NEW k \in (i + 1)..Len(q) PROVE k \in 1..Len(q) /\ q[i] < q[k]
  <2>1. k \in 1..Len(q) /\ i < k
    BY <1>1
  <2> QED
    BY <1>1, <2>1 DEF Ascending
<1> QED
  BY <1>1, <1>2, <1>3, <1>4, <1>5 DEF Range

(* The two keys are equal: both indices move and the key is in common.     *)
LEMMA TakeBoth ==
    ASSUME NEW bf, Keys(bf), NEW af, Keys(af), NEW i, NEW j, NEW a, NEW b, NEW c,
           Merged(bf, af, i, j, a, b, c), i <= Len(bf), j <= Len(af), bf[i] = af[j]
    PROVE  Merged(bf, af, i + 1, j + 1, Append(a, bf[i]), b, c)
<1>1. Len(bf) \in Nat /\ Len(af) \in Nat
  BY LenProperties DEF Keys
<1>2. i \in 1..Len(bf) /\ j \in 1..Len(af)
  BY <1>1 DEF Merged
<1> DEFINE x == bf[i]
<1>3. /\ x \in Nat /\ x \in Range(bf)
      /\ {bf[k] : k \in 1..(i + 1 - 1)} = {bf[k] : k \in 1..(i - 1)} \cup {x}
      /\ \A k \in 1..(i - 1) : k \in 1..Len(bf) /\ bf[k] \in Nat /\ bf[k] < x
      /\ \A k \in (i + 1)..Len(bf) : k \in 1..Len(bf) /\ bf[k] \in Nat /\ x < bf[k]
  BY <1>2, Grows
<1>4. /\ x \in Range(af)
      /\ {af[k] : k \in 1..(j + 1 - 1)} = {af[k] : k \in 1..(j - 1)} \cup {x}
      /\ \A k \in 1..(j - 1) : k \in 1..Len(af) /\ af[k] \in Nat /\ af[k] < x
      /\ \A k \in (j + 1)..Len(af) : k \in 1..Len(af) /\ af[k] \in Nat /\ x < af[k]
  BY <1>2, Grows
<1> HIDE DEF x
<1>5. \A y \in Range(a) : y < x
  <2>1. Range(a) \subseteq {bf[k] : k \in 1..(i - 1)}
    BY DEF Merged
  <2> QED
    BY <1>3, <2>1
<1>6. Keys(Append(a, x)) /\ Range(Append(a, x)) = Range(a) \cup {x}
  BY <1>3, <1>5, AppendKeys DEF Merged
<1>7. i + 1 \in 1..(Len(bf) + 1) /\ j + 1 \in 1..(Len(af) + 1)
  BY <1>1, <1>2
<1>8. Range(Append(a, x)) \cup Range(b) = {bf[k] : k \in 1..(i + 1 - 1)}
  BY <1>3, <1>6, Zenon DEF Merged
<1>9. Range(Append(a, x)) \cup Range(c) = {af[k] : k \in 1..(j + 1 - 1)}
  BY <1>4, <1>6, Zenon DEF Merged
<1>10. ASSUME NEW k \in 1..(i + 1 - 1), NEW m \in (j + 1)..Len(af) PROVE bf[k] < af[m]
  <2>1. k \in 1..(i - 1) \/ k = i
    BY <1>2
  <2> QED
    BY <1>3, <1>4, <2>1 DEF x
<1>11. ASSUME NEW k \in (i + 1)..Len(bf), NEW m \in 1..(j + 1 - 1) PROVE af[m] < bf[k]
  <2>1. m \in 1..(j - 1) \/ m = j
    BY <1>2
  <2> QED
    BY <1>3, <1>4, <2>1 DEF x
<1>12. Keys(b) /\ Keys(c) /\ Range(b) \cap Range(af) = {} /\ Range(c) \cap Range(bf) = {}
  BY DEF Merged
<1>13. Merged(bf, af, i + 1, j + 1, Append(a, x), b, c)
  BY <1>6, <1>7, <1>8, <1>9, <1>10, <1>11, <1>12 DEF Merged
<1> QED
  BY <1>13 DEF x

(* The key of before is smaller: it is no key of after, for those passed   *)
(* are smaller still.                                                      *)
LEMMA TakeBefore ==
    ASSUME NEW bf, Keys(bf), NEW af, Keys(af), NEW i, NEW j, NEW a, NEW b, NEW c,
           Merged(bf, af, i, j, a, b, c), i <= Len(bf), j <= Len(af), bf[i] < af[j]
    PROVE  Merged(bf, af, i + 1, j, a, Append(b, bf[i]), c)
<1>1. Len(bf) \in Nat /\ Len(af) \in Nat
  BY LenProperties DEF Keys
<1>2. i \in 1..Len(bf) /\ j \in 1..Len(af)
  BY <1>1 DEF Merged
<1> DEFINE x == bf[i]
<1>3. /\ x \in Nat /\ x \in Range(bf)
      /\ {bf[k] : k \in 1..(i + 1 - 1)} = {bf[k] : k \in 1..(i - 1)} \cup {x}
      /\ \A k \in 1..(i - 1) : k \in 1..Len(bf) /\ bf[k] \in Nat /\ bf[k] < x
      /\ \A k \in (i + 1)..Len(bf) : k \in 1..Len(bf) /\ bf[k] \in Nat /\ x < bf[k]
  BY <1>2, Grows
<1>4. /\ af[j] \in Nat /\ \A k \in 1..Len(af) : af[k] \in Nat
      /\ \A k \in (j + 1)..Len(af) : k \in 1..Len(af) /\ af[k] \in Nat /\ af[j] < af[k]
  BY <1>2, Grows
<1>a. x < af[j]
  OBVIOUS
<1>b. \A m \in j..Len(af) : x < af[m]
  <2>1. ASSUME NEW m \in j..Len(af) PROVE m = j \/ m \in (j + 1)..Len(af)
    BY <1>1, <1>2
  <2> HIDE DEF x
  <2> QED
    BY <1>3, <1>4, <1>a, <2>1
<1>c. \A m \in 1..(j - 1) : af[m] < x
  BY <1>1, <1>2 DEF Merged
<1> HIDE DEF x
<1>5. \A y \in Range(b) : y < x
  <2>1. Range(b) \subseteq {bf[k] : k \in 1..(i - 1)}
    BY DEF Merged
  <2> QED
    BY <1>3, <2>1
<1>6. Keys(Append(b, x)) /\ Range(Append(b, x)) = Range(b) \cup {x}
  BY <1>3, <1>5, AppendKeys DEF Merged
<1>7. i + 1 \in 1..(Len(bf) + 1) /\ j \in 1..(Len(af) + 1)
  BY <1>1, <1>2
<1>8. Range(a) \cup Range(Append(b, x)) = {bf[k] : k \in 1..(i + 1 - 1)}
  BY <1>3, <1>6, Zenon DEF Merged
<1>9. x \notin Range(af)
  <2>1. SUFFICES ASSUME x \in Range(af) PROVE FALSE
    OBVIOUS
  <2>2. DOMAIN af = 1..Len(af)
    BY LenProperties DEF Keys
  <2>3. PICK m \in 1..Len(af) : af[m] = x
    BY <2>1, <2>2 DEF Range
  <2>4. m \in j..Len(af) \/ m \in 1..(j - 1)
    BY <1>1, <1>2
  <2> QED
    BY <1>3, <1>b, <1>c, <2>3, <2>4
<1>10. ASSUME NEW k \in 1..(i + 1 - 1), NEW m \in j..Len(af) PROVE bf[k] < af[m]
  <2>1. k \in 1..(i - 1) \/ k = i
    BY <1>2
  <2>2. CASE k = i
    BY <1>b, <2>2 DEF x
  <2>3. CASE k \in 1..(i - 1)
    BY <2>3 DEF Merged
  <2> QED
    BY <2>1, <2>2, <2>3
<1>11. ASSUME NEW k \in (i + 1)..Len(bf), NEW m \in 1..(j - 1) PROVE af[m] < bf[k]
  <2>1. k \in i..Len(bf)
    BY <1>1, <1>2
  <2> QED
    BY <2>1 DEF Merged
<1>12. Range(Append(b, x)) \cap Range(af) = {}
  BY <1>6, <1>9, Zenon DEF Merged
<1>13. /\ Keys(a) /\ Keys(c) /\ Range(c) \cap Range(bf) = {}
       /\ Range(a) \cup Range(c) = {af[k] : k \in 1..(j - 1)}
  BY DEF Merged
<1>14. Merged(bf, af, i + 1, j, a, Append(b, x), c)
  BY <1>6, <1>7, <1>8, <1>10, <1>11, <1>12, <1>13 DEF Merged
<1> QED
  BY <1>14 DEF x

(* The invariant is the same with the two lists exchanged, so the key of   *)
(* after being smaller is the same case.                                   *)
LEMMA MergedMirror ==
    ASSUME NEW bf, NEW af, NEW i, NEW j, NEW a, NEW b, NEW c,
           Merged(bf, af, i, j, a, b, c)
    PROVE  Merged(af, bf, j, i, a, c, b)
  BY DEF Merged

(* The key of after is smaller.                                            *)
LEMMA TakeAfter ==
    ASSUME NEW bf, Keys(bf), NEW af, Keys(af), NEW i, NEW j, NEW a, NEW b, NEW c,
           Merged(bf, af, i, j, a, b, c), i <= Len(bf), j <= Len(af), af[j] < bf[i]
    PROVE  Merged(bf, af, i, j + 1, a, b, Append(c, af[j]))
<1>1. Merged(af, bf, j, i, a, c, b)
  BY MergedMirror
<1>2. Merged(af, bf, j + 1, i, a, Append(c, af[j]), b)
  BY <1>1, TakeBefore
<1> QED
  BY <1>2, MergedMirror

(* One list is at its end: what is left of the other is larger than all of *)
(* it.                                                                     *)
LEMMA RestIsLarger ==
    ASSUME NEW bf, Keys(bf), NEW af, Keys(af), NEW i, NEW j, NEW a, NEW b, NEW c,
           Merged(bf, af, i, j, a, b, c), ~(i <= Len(bf) /\ j <= Len(af))
    PROVE  /\ Keys(b \o Remainder(bf, i))
           /\ Range(a) \cup Range(b \o Remainder(bf, i)) = Range(bf)
           /\ Range(b \o Remainder(bf, i)) \cap Range(af) = {}
<1> DEFINE r == Remainder(bf, i)
<1>1. Len(bf) \in Nat /\ Len(af) \in Nat /\ DOMAIN bf = 1..Len(bf) /\ DOMAIN af = 1..Len(af)
  BY LenProperties DEF Keys
<1>2. i \in 1..(Len(bf) + 1) /\ j \in 1..(Len(af) + 1)
  BY DEF Merged
<1>3. Keys(r) /\ Range(r) = {bf[k] : k \in i..Len(bf)}
  BY <1>2, RemainderKeys
<1> HIDE DEF r
<1>4. ASSUME NEW x \in Range(b), NEW y \in Range(r) PROVE x < y
  <2>1. PICK k \in 1..(i - 1) : x = bf[k]
    BY DEF Merged
  <2>2. PICK m \in i..Len(bf) : y = bf[m]
    BY <1>3
  <2>3. k \in 1..Len(bf) /\ m \in 1..Len(bf) /\ k < m
    BY <1>1, <1>2
  <2> QED
    BY <1>1, <2>1, <2>2, <2>3 DEF Keys, Ascending
<1>5. Keys(b \o r) /\ Range(b \o r) = Range(b) \cup Range(r)
  BY <1>3, <1>4, ConcatKeys DEF Merged
<1>6. Range(bf) = {bf[k] : k \in 1..(i - 1)} \cup Range(r)
  <2>1. \A k : k \in 1..Len(bf) <=> k \in 1..(i - 1) \/ k \in i..Len(bf)
    BY <1>1, <1>2
  <2> QED
    BY <1>1, <1>3, <2>1 DEF Range
<1>7. Range(a) \cup Range(b \o r) = Range(bf)
  BY <1>5, <1>6, Zenon DEF Merged
<1>8. ASSUME NEW y \in Range(r), y \in Range(af) PROVE FALSE
  <2>1. PICK k \in i..Len(bf) : y = bf[k]
    BY <1>3
  <2>2. PICK m \in 1..Len(af) : y = af[m]
    BY <1>1, <1>8 DEF Range
  <2>3. m \in 1..(j - 1)
    BY <1>1, <1>2
  <2>4. af[m] < bf[k]
    BY <2>3 DEF Merged
  <2>5. af[m] \in Nat
    BY ElementOfSeq DEF Keys
  <2> QED
    BY <2>1, <2>2, <2>4, <2>5
<1>9. Range(b \o r) \cap Range(af) = {}
  BY <1>5, <1>8, Zenon DEF Merged
<1> QED
  BY <1>5, <1>7, <1>9 DEF r

(* So the lists, with the remainders, are what compare is to return.       *)
LEMMA TakeRest ==
    ASSUME NEW bf, Keys(bf), NEW af, Keys(af), NEW i, NEW j, NEW a, NEW b, NEW c,
           Merged(bf, af, i, j, a, b, c), ~(i <= Len(bf) /\ j <= Len(af))
    PROVE  Result(bf, af, a, b \o Remainder(bf, i), c \o Remainder(af, j))
<1>1. Merged(af, bf, j, i, a, c, b)
  BY MergedMirror
<1>2. /\ Keys(b \o Remainder(bf, i))
      /\ Range(a) \cup Range(b \o Remainder(bf, i)) = Range(bf)
      /\ Range(b \o Remainder(bf, i)) \cap Range(af) = {}
  BY RestIsLarger
<1>3. /\ Keys(c \o Remainder(af, j))
      /\ Range(a) \cup Range(c \o Remainder(af, j)) = Range(af)
      /\ Range(c \o Remainder(af, j)) \cap Range(bf) = {}
  BY <1>1, RestIsLarger
<1>4. Keys(a)
  BY DEF Merged
<1> QED
  BY <1>2, <1>3, <1>4 DEF Result

-----------------------------------------------------------------------------
(* The script                                                              *)

Output == [of : 0..2, files : Seq(Hashes)]

Types ==
    /\ outputs \in Seq(Output) /\ klee_last \in 0..Len(outputs)
    /\ pc \in {"generate", "execute", "klee", "readlink", "loadhash", "compare", "done", "error"}
    /\ prog \in 1..2 /\ dir \in [1..2 -> Nat] /\ ok \subseteq 1..2 /\ raced \in BOOLEAN
    /\ pc \in {"loadhash", "compare", "done"} => prog = 2

(* A directory of a program's own, which the link points to unless another *)
(* run of KLEE has moved it since.                                         *)
OwnIsLast(k) == \E n \in DOMAIN outputs : outputs[n].of = k /\ (~raced => klee_last = n)

NotStarted(k) == prog < k \/ (k = prog /\ pc \in {"generate", "execute"})
LookedUp(k)   == k < prog \/ pc \in {"loadhash", "compare", "done"}

(* Each program has one directory at most, and the script has found it     *)
(* when KLEE ran to the end and nobody was in the way.                     *)
Runs ==
    /\ \A k \in 1..2 : \A m, n \in DOMAIN outputs :
          outputs[m].of = k /\ outputs[n].of = k => m = n
    /\ \A k \in 1..2 : NotStarted(k) => k \notin ok /\ \A n \in DOMAIN outputs : outputs[n].of # k
    /\ pc = "klee" => prog \notin ok /\ OwnIsLast(prog)
    /\ pc = "readlink" /\ prog \in ok => OwnIsLast(prog)
    /\ \A k \in 1..2 : LookedUp(k) =>
          /\ dir[k] \in DOMAIN outputs
          /\ k \in ok /\ ~raced => outputs[dir[k]].of = k

(* The dict has the hashes of the directory, each with a file that has it. *)
DictOf(d, files) ==
    /\ DOMAIN d = Range(files)
    /\ \A h \in Range(files) : d[h] \in DOMAIN files /\ files[d[h]] = h

Dicts == pc \in {"compare", "done"} => \A k \in 1..2 : DictOf(dt[k], outputs[dir[k]].files)

Merge ==
    /\ pc \notin {"compare", "done"} => idx = <<1, 1>> /\ lists = << <<>>, <<>>, <<>> >>
    /\ pc = "compare" => /\ idx \in [1..2 -> Nat] /\ DOMAIN lists = 1..3
                         /\ Merged(before, after, idx[1], idx[2], lists[1], lists[2], lists[3])
    /\ pc = "done" => Result(before, after, lists[1], lists[2], lists[3])

DiffInv == Types /\ Runs /\ Dicts /\ Merge

(* The keys of the two dicts, sorted.                                      *)
LEMMA SortedDicts ==
    ASSUME Types, Runs, Dicts, pc \in {"compare", "done"}
    PROVE  /\ Keys(before) /\ Range(before) = DOMAIN dt[1]
           /\ Keys(after) /\ Range(after) = DOMAIN dt[2]
<1>1. ASSUME NEW k \in 1..2 PROVE DOMAIN dt[k] \subseteq Nat /\ IsFiniteSet(DOMAIN dt[k])
  <2>1. dir[k] \in DOMAIN outputs
    BY DEF Runs, LookedUp
  <2>2. outputs[dir[k]].files \in Seq(Hashes)
    <3>1. outputs[dir[k]] \in Output
      BY <2>1, ElementOfSeq, LenProperties DEF Types
    <3> QED
      BY <3>1 DEF Output
  <2>3. DOMAIN dt[k] = Range(outputs[dir[k]].files)
    BY DEF Dicts, DictOf
  <2> QED
    BY <2>2, <2>3, FilesFinite
<1>2. 1 \in 1..2 /\ 2 \in 1..2
  OBVIOUS
<1>3. Keys(before) /\ Range(before) = DOMAIN dt[1]
  BY <1>1, <1>2, SortedKeysIs DEF before, Keys
<1>4. Keys(after) /\ Range(after) = DOMAIN dt[2]
  BY <1>1, <1>2, SortedKeysIs DEF after, Keys
<1> QED
  BY <1>3, <1>4

(* The script starts with nothing run.                                     *)
LEMMA InitDiff == Init => DiffInv
<1>1. SUFFICES ASSUME Init PROVE DiffInv
  OBVIOUS
<1>2. outputs = <<>> /\ DOMAIN outputs = {} /\ outputs \in Seq(Output) /\ Len(outputs) = 0
  BY <1>1 DEF Init
<1>3. Types
  <2>1. dir \in [1..2 -> Nat]
    BY <1>1 DEF Init
  <2>2. klee_last \in 0..Len(outputs)
    BY <1>1, <1>2 DEF Init
  <2>3. prog \in 1..2 /\ ok \subseteq 1..2
    BY <1>1 DEF Init
  <2>4. pc = "generate" /\ raced \in BOOLEAN
    BY <1>1, Zenon DEF Init
  <2> QED
    BY <1>2, <2>1, <2>2, <2>3, <2>4 DEF Types
<1>4. Runs
  BY <1>1, <1>2 DEF Init, Runs, NotStarted, LookedUp
<1>5. Dicts /\ Merge
  BY <1>1 DEF Init, Dicts, Merge
<1> QED
  BY <1>3, <1>4, <1>5 DEF DiffInv

(* A new directory comes after the others and leaves them as they are.     *)
LEMMA Started ==
    ASSUME Types, NEW of \in 0..2, NEW files \in Seq(Hashes), KleeStart(of, files)
    PROVE  /\ outputs' \in Seq(Output) /\ klee_last' = Len(outputs) + 1
           /\ DOMAIN outputs = 1..Len(outputs) /\ Len(outputs) \in Nat
           /\ DOMAIN outputs' = 1..(Len(outputs) + 1) /\ Len(outputs') = Len(outputs) + 1
           /\ \A n \in DOMAIN outputs : n # Len(outputs) + 1 /\ outputs'[n] = outputs[n]
           /\ \A n \in DOMAIN outputs' : n \in DOMAIN outputs \/ n = Len(outputs) + 1
           /\ outputs'[Len(outputs) + 1] = [of |-> of, files |-> files]
<1> DEFINE o == [of |-> of, files |-> files]
<1>1. o \in Output
  BY DEF Output
<1>2. outputs \in Seq(Output) /\ outputs' = Append(outputs, o) /\ klee_last' = Len(outputs')
  BY DEF Types, KleeStart
<1>3. /\ outputs' \in Seq(Output) /\ Len(outputs') = Len(outputs) + 1
      /\ \A n \in 1..Len(outputs) : outputs'[n] = outputs[n]
      /\ outputs'[Len(outputs) + 1] = o
  <2> HIDE DEF o
  <2> QED
    BY <1>1, <1>2, AppendProperties
<1>4. DOMAIN outputs = 1..Len(outputs) /\ Len(outputs) \in Nat /\ DOMAIN outputs' = 1..Len(outputs')
  BY <1>2, <1>3, LenProperties
<1> QED
  BY <1>2, <1>3, <1>4

(* A step before the comparison that leaves its variables alone.           *)
LEMMA NotCompared ==
    ASSUME Merge, pc \notin {"compare", "done"}, pc' \notin {"compare", "done"},
           UNCHANGED <<idx, lists>>
    PROVE  Dicts' /\ Merge'
  BY DEF Dicts, Merge

(* Another run of KLEE adds a directory that is no program's own.  It may  *)
(* move the link while the script has still to look at it, and is then     *)
(* in the way.                                                             *)
LEMMA OtherKleeKeeps ==
    ASSUME DiffInv, OtherKlee PROVE DiffInv'
<1> USE DEF DiffInv
<1>1. PICK files \in OtherFiles : KleeStart(0, files)
  BY DEF OtherKlee
<1>2. files \in Seq(Hashes) /\ 0 \in 0..2
  BY SEDiffAssumption
<1> DEFINE n0 == Len(outputs) + 1
<1>3. /\ outputs' \in Seq(Output) /\ klee_last' = n0
      /\ DOMAIN outputs = 1..Len(outputs) /\ Len(outputs) \in Nat
      /\ DOMAIN outputs' = 1..n0 /\ Len(outputs') = n0
      /\ \A n \in DOMAIN outputs : n # n0 /\ outputs'[n] = outputs[n]
      /\ \A n \in DOMAIN outputs' : n \in DOMAIN outputs \/ n = n0
      /\ outputs'[n0] = [of |-> 0, files |-> files]
  BY <1>1, <1>2, Started
<1>4. UNCHANGED <<pc, prog, dir, dt, idx, lists, ok>>
      /\ raced' = (raced \/ pc \in {"klee", "readlink"}) /\ pc \notin {"done", "error"}
  BY DEF OtherKlee
<1>5. raced' \in BOOLEAN /\ (~raced' => ~raced /\ pc \notin {"klee", "readlink"})
  BY <1>4, Zenon DEF Types
<1>6. \A n \in DOMAIN outputs : n \in DOMAIN outputs' /\ outputs'[n] = outputs[n]
  BY <1>3
<1>7. \A n \in DOMAIN outputs' : \A k \in 1..2 : outputs'[n].of = k => n \in DOMAIN outputs /\ outputs[n].of = k
  BY <1>3
<1>8. klee_last' \in 0..Len(outputs')
  BY <1>3
<1> HIDE DEF n0
<1>9. Types'
  BY <1>3, <1>4, <1>5, <1>8 DEF Types
<1>10. Runs'
  <2>1. ASSUME NEW k \in 1..2, NEW m \in DOMAIN outputs', NEW n \in DOMAIN outputs',
               outputs'[m].of = k, outputs'[n].of = k
        PROVE  m = n
    BY <1>7, <2>1 DEF Runs
  <2>2. ASSUME NEW k \in 1..2, NotStarted(k)'
        PROVE  k \notin ok' /\ \A n \in DOMAIN outputs' : outputs'[n].of # k
    BY <1>4, <1>7, <2>2 DEF Runs, NotStarted
  <2>3. ASSUME NEW k \in 1..2, OwnIsLast(k), pc \in {"klee", "readlink"} PROVE OwnIsLast(k)'
    <3>1. raced'
      BY <1>5, <2>3
    <3> QED
      BY <1>6, <2>3, <3>1 DEF OwnIsLast
  <2>4. pc' = "klee" => prog' \notin ok' /\ OwnIsLast(prog)'
    BY <1>4, <2>3 DEF Runs, Types
  <2>5. pc' = "readlink" /\ prog' \in ok' => OwnIsLast(prog)'
    BY <1>4, <2>3 DEF Runs, Types
  <2>6. ASSUME NEW k \in 1..2, LookedUp(k)'
        PROVE  dir'[k] \in DOMAIN outputs' /\ (k \in ok' /\ ~raced' => outputs'[dir'[k]].of = k)
    <3>1. dir[k] \in DOMAIN outputs /\ (k \in ok /\ ~raced => outputs[dir[k]].of = k)
      BY <1>4, <2>6 DEF Runs, LookedUp
    <3> QED
      BY <1>4, <1>5, <1>6, <3>1
  <2> QED
    BY <2>1, <2>2, <2>4, <2>5, <2>6 DEF Runs
<1>11. Dicts'
  <2>1. ASSUME pc \in {"compare", "done"}, NEW k \in 1..2
        PROVE  DictOf(dt'[k], outputs'[dir'[k]].files)
    <3>1. dir[k] \in DOMAIN outputs
      BY <2>1 DEF Runs, LookedUp
    <3> QED
      BY <1>4, <1>6, <2>1, <3>1 DEF Dicts
  <2> QED
    BY <1>4, <2>1 DEF Dicts
<1>12. Merge'
  <2>1. before' = before /\ after' = after
    BY <1>4 DEF before, after
  <2> QED
    BY <1>4, <2>1 DEF Merge
<1> QED
  BY <1>9, <1>10, <1>11, <1>12

(* generate compiles, or the script ends.                                  *)
LEMMA GenerateKeeps ==
    ASSUME DiffInv, Generate PROVE DiffInv'
<1> USE DEF DiffInv
<1>1. /\ pc = "generate" /\ pc' \in {"execute", "error"}
      /\ UNCHANGED <<outputs, klee_last, prog, dir, dt, idx, lists, ok, raced>>
  BY DEF Generate
<1>2. Types'
  BY <1>1 DEF Types
<1>3. Runs'
  BY <1>1 DEF Runs, NotStarted, LookedUp
<1> QED
  BY <1>1, <1>2, <1>3, NotCompared

(* execute: the program's own directory, and the link to it; or KLEE does  *)
(* not start and the program cannot have run to its end.                   *)
LEMMA ExecuteKeeps ==
    ASSUME DiffInv, Execute PROVE DiffInv'
<1> USE DEF DiffInv
<1>1. pc = "execute" /\ UNCHANGED <<prog, dir, dt, idx, lists, ok, raced>> /\ prog \in 1..2
  BY DEF Execute, Types
<1>2. prog \notin ok /\ \A n \in DOMAIN outputs : outputs[n].of # prog
  BY <1>1 DEF Runs, NotStarted
<1>3. CASE KleeStart(prog, <<>>) /\ pc' = "klee"
  <2> DEFINE n0 == Len(outputs) + 1
  <2>0. <<>> \in Seq(Hashes) /\ prog \in 0..2
    BY <1>1
  <2>1. /\ outputs' \in Seq(Output) /\ klee_last' = n0
        /\ DOMAIN outputs = 1..Len(outputs) /\ Len(outputs) \in Nat
        /\ DOMAIN outputs' = 1..n0 /\ Len(outputs') = n0
        /\ \A n \in DOMAIN outputs : n # n0 /\ outputs'[n] = outputs[n]
        /\ \A n \in DOMAIN outputs' : n \in DOMAIN outputs \/ n = n0
        /\ outputs'[n0] = [of |-> prog, files |-> <<>>]
    BY <1>3, <2>0, Started
  <2>2. klee_last' \in 0..Len(outputs') /\ n0 \in DOMAIN outputs' /\ outputs'[n0].of = prog
    BY <2>1
  <2>3. \A n \in DOMAIN outputs : n \in DOMAIN outputs' /\ outputs'[n] = outputs[n]
    BY <2>1
  <2>4. ASSUME NEW n \in DOMAIN outputs', NEW k \in 1..2, outputs'[n].of = k
        PROVE  IF k = prog THEN n = n0 ELSE n \in DOMAIN outputs /\ outputs[n].of = k
    BY <1>2, <2>1, <2>4
  <2> HIDE DEF n0
  <2>5. Types'
    BY <1>1, <1>3, <2>1, <2>2 DEF Types
  <2>6. Runs'
    <3>1. ASSUME NEW k \in 1..2, NEW m \in DOMAIN outputs', NEW n \in DOMAIN outputs',
                 outputs'[m].of = k, outputs'[n].of = k
          PROVE  m = n
      BY <2>4, <3>1 DEF Runs
    <3>2. ASSUME NEW k \in 1..2, NotStarted(k)'
          PROVE  k \notin ok' /\ \A n \in DOMAIN outputs' : outputs'[n].of # k
      <4>1. prog < k /\ k # prog
        BY <1>1, <1>3, <3>2 DEF NotStarted
      <4> QED
        BY <1>1, <2>4, <4>1 DEF Runs, NotStarted
    <3>3. prog' \notin ok' /\ OwnIsLast(prog)'
      BY <1>1, <1>2, <2>1, <2>2 DEF OwnIsLast
    <3>4. ASSUME NEW k \in 1..2, LookedUp(k)'
          PROVE  dir'[k] \in DOMAIN outputs' /\ (k \in ok' /\ ~raced' => outputs'[dir'[k]].of = k)
      <4>1. dir[k] \in DOMAIN outputs /\ (k \in ok /\ ~raced => outputs[dir[k]].of = k)
        BY <1>1, <1>3, <3>4 DEF Runs, LookedUp
      <4> QED
        BY <1>1, <2>3, <4>1
    <3> QED
      BY <1>3, <3>1, <3>2, <3>3, <3>4 DEF Runs
  <2> QED
    BY <1>1, <1>3, <2>5, <2>6, NotCompared
<1>4. CASE UNCHANGED <<outputs, klee_last>> /\ pc' = "readlink"
  <2>1. Types'
    BY <1>1, <1>4 DEF Types
  <2>2. Runs'
    BY <1>1, <1>2, <1>4 DEF Runs, NotStarted, LookedUp
  <2> QED
    BY <1>1, <1>4, <2>1, <2>2, NotCompared
<1> QED
  BY <1>3, <1>4 DEF Execute

(* KLEE's paths are in the program's own directory; nothing else changes.  *)
LEMMA KleeEndKeeps ==
    ASSUME DiffInv, KleeEnd PROVE DiffInv'
<1> USE DEF DiffInv
<1>1. /\ pc = "klee" /\ pc' = "readlink" /\ prog \in 1..2
      /\ UNCHANGED <<klee_last, prog, dir, dt, idx, lists, raced>>
  BY DEF KleeEnd, Types
<1>2. PICK files \in Contents :
        outputs' = [n \in DOMAIN outputs |-> IF outputs[n].of = prog
                                             THEN [outputs[n] EXCEPT !.files = files] ELSE outputs[n]]
  BY DEF KleeEnd
<1>3. ok' = ok \/ ok' = ok \cup {prog}
  BY DEF KleeEnd
<1>4. files \in Seq(Hashes)
  BY SEDiffAssumption DEF Contents
<1>5. outputs \in Seq(Output) /\ Len(outputs) \in Nat /\ DOMAIN outputs = 1..Len(outputs)
      /\ \A n \in DOMAIN outputs : outputs[n] \in Output
  BY LenProperties, ElementOfSeq DEF Types
<1>6. ASSUME NEW n \in DOMAIN outputs PROVE outputs'[n] \in Output /\ outputs'[n].of = outputs[n].of
  BY <1>2, <1>4, <1>5 DEF Output
<1>7. DOMAIN outputs' = 1..Len(outputs)
  BY <1>2, <1>5
<1>8. outputs' \in [1..Len(outputs) -> Output]
  <2>1. outputs' = [n \in 1..Len(outputs) |-> outputs'[n]]
    BY <1>2, <1>5
  <2> QED
    BY <1>5, <1>6, <2>1
<1>9. outputs' \in Seq(Output) /\ Len(outputs') = Len(outputs)
  <2>1. outputs' \in Seq(Output)
    BY <1>5, <1>8
  <2> QED
    BY <1>5, <1>7, <2>1, LenProperties
<1>10. Types'
  BY <1>1, <1>3, <1>9 DEF Types
<1>11. Runs'
  <2>1. DOMAIN outputs' = DOMAIN outputs /\ \A n \in DOMAIN outputs : outputs'[n].of = outputs[n].of
    BY <1>5, <1>6, <1>7
  <2>2. ASSUME NEW k \in 1..2, NotStarted(k)'
        PROVE  k \notin ok' /\ \A n \in DOMAIN outputs' : outputs'[n].of # k
    <3>1. prog < k /\ k # prog /\ NotStarted(k)
      BY <1>1, <2>2 DEF NotStarted
    <3> QED
      BY <1>3, <2>1, <3>1 DEF Runs
  <2>3. OwnIsLast(prog)'
    BY <1>1, <2>1 DEF OwnIsLast, Runs
  <2>4. ASSUME NEW k \in 1..2, LookedUp(k)'
        PROVE  dir'[k] \in DOMAIN outputs' /\ (k \in ok' /\ ~raced' => outputs'[dir'[k]].of = k)
    <3>1. k # prog /\ LookedUp(k)
      BY <1>1, <2>4 DEF LookedUp
    <3> QED
      BY <1>1, <1>3, <2>1, <3>1 DEF Runs
  <2>5. \A k \in 1..2 : \A m, n \in DOMAIN outputs' :
          outputs'[m].of = k /\ outputs'[n].of = k => m = n
    BY <2>1 DEF Runs
  <2> QED
    BY <1>1, <2>2, <2>3, <2>4, <2>5 DEF Runs
<1> QED
  BY <1>1, <1>10, <1>11, NotCompared

(* The link is read: it is the program's own unless a run was in the way.  *)
LEMMA ReadlinkKeeps ==
    ASSUME DiffInv, Readlink PROVE DiffInv'
<1> USE DEF DiffInv
<1>1. /\ pc = "readlink" /\ prog \in 1..2
      /\ UNCHANGED <<outputs, klee_last, dt, idx, lists, ok, raced>>
  BY DEF Readlink, Types
<1>2. CASE klee_last = 0
  <2>1. pc' = "error" /\ UNCHANGED <<dir, prog>>
    BY <1>2 DEF Readlink
  <2>2. Types'
    BY <1>1, <2>1 DEF Types
  <2>3. Runs'
    BY <1>1, <2>1 DEF Runs, NotStarted, LookedUp
  <2> QED
    BY <1>1, <2>1, <2>2, <2>3, NotCompared
<1>3. CASE klee_last # 0
  <2>1. /\ dir' = [dir EXCEPT ![prog] = klee_last] /\ prog' = 2
        /\ pc' = IF prog = 1 THEN "generate" ELSE "loadhash"
    BY <1>3 DEF Readlink
  <2>2. klee_last \in DOMAIN outputs
    BY <1>3, LenProperties DEF Types
  <2>3. dir \in [1..2 -> Nat] /\ klee_last \in Nat
    BY DEF Types
  <2>4. dir' \in [1..2 -> Nat] /\ dir'[prog] = klee_last /\ \A k \in 1..2 : k # prog => dir'[k] = dir[k]
    BY <1>1, <2>1, <2>3
  <2>5. Types'
    BY <1>1, <2>1, <2>4 DEF Types
  <2>6. Runs'
    <3>1. ASSUME NEW k \in 1..2, NotStarted(k)'
          PROVE  k \notin ok' /\ \A n \in DOMAIN outputs' : outputs'[n].of # k
      <4>1. prog = 1 /\ k = 2
        BY <1>1, <2>1, <3>1 DEF NotStarted
      <4> QED
        BY <1>1, <4>1 DEF Runs, NotStarted
    <3>2. ASSUME NEW k \in 1..2, LookedUp(k)'
          PROVE  dir'[k] \in DOMAIN outputs' /\ (k \in ok' /\ ~raced' => outputs'[dir'[k]].of = k)
      <4>1. CASE k = prog
        BY <1>1, <2>2, <2>4, <4>1 DEF Runs, OwnIsLast
      <4>2. CASE k # prog
        <5>1. LookedUp(k)
          BY <1>1, <2>1, <3>2, <4>2 DEF LookedUp
        <5> QED
          BY <1>1, <2>4, <4>2, <5>1 DEF Runs
      <4> QED
        BY <4>1, <4>2
    <3>3. pc' # "klee" /\ pc' # "readlink"
      BY <2>1
    <3>4. \A k \in 1..2 : \A m, n \in DOMAIN outputs' :
            outputs'[m].of = k /\ outputs'[n].of = k => m = n
      BY <1>1 DEF Runs
    <3> QED
      BY <3>1, <3>2, <3>3, <3>4 DEF Runs
  <2> QED
    BY <1>1, <2>1, <2>5, <2>6, NotCompared
<1> QED
  BY <1>2, <1>3

(* The dicts are those of the directories, and the merge starts with both  *)
(* indices at the first key.                                               *)
LEMMA LoadHashKeeps ==
    ASSUME DiffInv, LoadHash PROVE DiffInv'
<1> USE DEF DiffInv
<1>1. pc = "loadhash" /\ UNCHANGED <<outputs, klee_last, prog, dir, idx, lists, ok, raced>>
  BY DEF LoadHash
<1>2. CASE pc' = "error"
  <2>1. Types'
    BY <1>1, <1>2 DEF Types
  <2>2. Runs'
    BY <1>1, <1>2 DEF Runs, NotStarted, LookedUp
  <2> QED
    BY <1>1, <1>2, <2>1, <2>2, NotCompared
<1>3. CASE pc' = "compare" /\ dt' = [k \in 1..2 |-> loadhash(dir[k])]
  <2>1. Types'
    BY <1>1, <1>3 DEF Types
  <2>2. Runs'
    BY <1>1, <1>3 DEF Runs, NotStarted, LookedUp
  <2>3. ASSUME NEW k \in 1..2 PROVE DictOf(dt'[k], outputs'[dir'[k]].files)
    <3> DEFINE files == outputs[dir[k]].files
    <3>1. dir[k] \in DOMAIN outputs
      BY <1>1 DEF Runs, LookedUp
    <3>2. files \in Seq(Hashes)
      <4>1. outputs[dir[k]] \in Output
        BY <3>1, ElementOfSeq, LenProperties DEF Types
      <4> QED
        BY <4>1 DEF Output
    <3>3. dt'[k] = [h \in Range(files) |->
            CHOOSE i \in DOMAIN files : files[i] = h /\ \A j \in DOMAIN files : files[j] = h => j <= i]
      BY <1>3 DEF loadhash
    <3> HIDE DEF files
    <3>4. ASSUME NEW h \in Range(files) PROVE dt'[k][h] \in DOMAIN files /\ files[dt'[k][h]] = h
      BY <3>2, <3>3, LastFile
    <3>5. DictOf(dt'[k], files)
      BY <3>3, <3>4 DEF DictOf
    <3> QED
      BY <1>1, <3>5 DEF files
  <2>4. Dicts'
    BY <2>3 DEF Dicts
  <2>5. Keys(before') /\ Keys(after')
    <3>1. (Types /\ Runs /\ Dicts /\ pc \in {"compare", "done"})'
      BY <1>3, <2>1, <2>2, <2>4
    <3>2. (Keys(before) /\ Keys(after))'
      BY <3>1, SortedDicts, PTL
    <3> QED
      BY <3>2
  <2>6. Merge'
    <3>1. /\ idx' \in [1..2 -> Nat] /\ DOMAIN lists' = 1..3 /\ idx'[1] = 1 /\ idx'[2] = 1
          /\ lists'[1] = <<>> /\ lists'[2] = <<>> /\ lists'[3] = <<>>
      BY <1>1 DEF Merge
    <3>2. Keys(<<>>) /\ Range(<<>>) = {}
      BY DEF Keys, Ascending, Range
    <3>3. Len(before') \in Nat /\ Len(after') \in Nat
      BY <2>5, LenProperties DEF Keys
    <3>4. Merged(before', after', 1, 1, <<>>, <<>>, <<>>)
      BY <3>2, <3>3 DEF Merged
    <3> QED
      BY <1>3, <3>1, <3>4 DEF Merge
  <2> QED
    BY <2>1, <2>2, <2>4, <2>6
<1> QED
  BY <1>2, <1>3 DEF LoadHash

(* A round of the merge, or its end.                                       *)
LEMMA CompareKeeps ==
    ASSUME DiffInv, Compare PROVE DiffInv'
<1> USE DEF DiffInv
<1>1. pc = "compare" /\ UNCHANGED <<outputs, klee_last, prog, dir, dt, ok, raced>>
      /\ pc' \in {"compare", "done"}
  BY DEF Compare
<1>2. Types'
  BY <1>1 DEF Types
<1>3. Runs'
  BY <1>1 DEF Runs, NotStarted, LookedUp
<1>4. Dicts'
  BY <1>1 DEF Dicts
<1>5. before' = before /\ after' = after
  BY <1>1 DEF before, after
<1>6. Keys(before) /\ Keys(after)
  BY <1>1, SortedDicts
<1> DEFINE bf == before
           af == after
           i == idx[1]
           j == idx[2]
           a == lists[1]
           b == lists[2]
           c == lists[3]
<1>7. /\ idx \in [1..2 -> Nat] /\ DOMAIN lists = 1..3
      /\ Merged(bf, af, i, j, a, b, c)
  BY <1>1 DEF Merge
<1>8. Merge'
  <2>1. CASE i <= Len(bf) /\ j <= Len(af)
    <3> DEFINE x == bf[i]
               y == af[j]
    <3>1. /\ pc' = "compare" /\ Advance(x, y)
          /\ lists' = IF x = y THEN [lists EXCEPT ![1] = Append(@, x)]
                      ELSE IF x < y THEN [lists EXCEPT ![2] = Append(@, x)]
                      ELSE [lists EXCEPT ![3] = Append(@, y)]
      BY <1>1, <2>1 DEF Compare
    <3>2. x \in Nat /\ y \in Nat
      <4>1. i \in 1..Len(bf) /\ j \in 1..Len(af)
        BY <1>7, <2>1, <1>6, LenProperties DEF Merged, Keys
      <4> QED
        BY <1>6, <4>1, ElementOfSeq DEF Keys
    <3>3. /\ idx' \in [1..2 -> Nat]
          /\ idx'[1] = IF x <= y THEN i + 1 ELSE i
          /\ idx'[2] = IF y <= x THEN j + 1 ELSE j
      BY <1>7, <3>1 DEF Advance
    <3>4. DOMAIN lists' = 1..3
      BY <1>7, <3>1
    <3> HIDE DEF x, y
    <3>5. Merged(bf, af, idx'[1], idx'[2], lists'[1], lists'[2], lists'[3])
      <4>1. CASE x = y
        <5>1. lists'[1] = Append(a, x) /\ lists'[2] = b /\ lists'[3] = c
          BY <1>7, <3>1, <4>1
        <5>2. idx'[1] = i + 1 /\ idx'[2] = j + 1
          BY <3>2, <3>3, <4>1
        <5>3. Merged(bf, af, i + 1, j + 1, Append(a, x), b, c)
          <6> HIDE DEF bf, af, i, j, a, b, c
          <6> QED
            BY <1>6, <1>7, <2>1, <4>1, TakeBoth DEF x, y, bf, af
        <5> QED
          BY <5>1, <5>2, <5>3
      <4>2. CASE x < y
        <5>1. lists'[1] = a /\ lists'[2] = Append(b, x) /\ lists'[3] = c
          BY <1>7, <3>1, <3>2, <4>2
        <5>2. idx'[1] = i + 1 /\ idx'[2] = j
          BY <3>2, <3>3, <4>2
        <5>3. Merged(bf, af, i + 1, j, a, Append(b, x), c)
          BY <1>6, <1>7, <2>1, <4>2, TakeBefore DEF x, y
        <5> QED
          BY <5>1, <5>2, <5>3
      <4>3. CASE y < x
        <5>1. lists'[1] = a /\ lists'[2] = b /\ lists'[3] = Append(c, y)
          BY <1>7, <3>1, <3>2, <4>3
        <5>2. idx'[1] = i /\ idx'[2] = j + 1
          BY <3>2, <3>3, <4>3
        <5>3. Merged(bf, af, i, j + 1, a, b, Append(c, y))
          BY <1>6, <1>7, <2>1, <4>3, TakeAfter DEF x, y
        <5> QED
          BY <5>1, <5>2, <5>3
      <4> QED
        BY <3>2, <4>1, <4>2, <4>3
    <3> QED
      BY <1>5, <3>1, <3>3, <3>4, <3>5 DEF Merge
  <2>2. CASE ~(i <= Len(bf) /\ j <= Len(af))
    <3>1. /\ pc' = "done"
          /\ lists' = [lists EXCEPT ![2] = @ \o Remainder(bf, i), ![3] = @ \o Remainder(af, j)]
      BY <1>1, <2>2 DEF Compare
    <3>2. /\ lists'[1] = a /\ lists'[2] = b \o Remainder(bf, i)
          /\ lists'[3] = c \o Remainder(af, j)
      <4> DEFINE p == b \o Remainder(bf, i)
                 q == c \o Remainder(af, j)
      <4>1. lists' = [lists EXCEPT ![2] = p, ![3] = q]
        BY <3>1
      <4> HIDE DEF p, q
      <4>2. lists'[1] = a /\ lists'[2] = p /\ lists'[3] = q
        BY <1>7, <4>1
      <4> QED
        BY <4>2 DEF p, q
    <3>3. Result(bf, af, a, b \o Remainder(bf, i), c \o Remainder(af, j))
      BY <1>6, <1>7, <2>2, TakeRest
    <3> QED
      BY <1>5, <3>1, <3>2, <3>3 DEF Merge
  <2> QED
    BY <2>1, <2>2
<1> QED
  BY <1>2, <1>3, <1>4, <1>8

(* The invariant of the script.                                            *)
THEOREM DiffInvariant == Spec => []DiffInv
<1>1. DiffInv /\ [Next]_vars => DiffInv'
  <2>1. SUFFICES ASSUME DiffInv, [Next]_vars PROVE DiffInv'
    OBVIOUS
  <2>2. CASE UNCHANGED vars
    BY <2>1, <2>2 DEF vars, DiffInv, Types, Runs, OwnIsLast, NotStarted, LookedUp, Dicts, Merge,
                      before, after
  <2> QED
    BY <2>1, <2>2, OtherKleeKeeps, GenerateKeeps, ExecuteKeeps, KleeEndKeeps, ReadlinkKeeps,
       LoadHashKeeps, CompareKeeps DEF Next, Script
<1> QED
  BY <1>1, InitDiff, PTL DEF Spec

-----------------------------------------------------------------------------
(* Throughout the merge the lists hold what lies before the two indices,   *)
(* every hash once and in order (compare, SE-Diff.py:59-79).               *)
THEOREM MergesInOrder == Spec => []MergedSoFar
<1>1. ASSUME DiffInv PROVE MergedSoFar
  <2> USE <1>1 DEF DiffInv
  <2>1. ASSUME Keys(lists[1]), Keys(lists[2]), Keys(lists[3])
        PROVE  \A l \in 1..3 : \A i, j \in DOMAIN lists[l] : i < j => lists[l][i] < lists[l][j]
    <3>1. ASSUME NEW l \in 1..3 PROVE Ascending(lists[l])
      <4>1. l = 1 \/ l = 2 \/ l = 3
        OBVIOUS
      <4> QED
        BY <2>1, <4>1 DEF Keys
    <3> QED
      BY <3>1 DEF Ascending
  <2>2. CASE pc = "compare"
    <3>1. Merged(before, after, idx[1], idx[2], lists[1], lists[2], lists[3])
      BY <2>2 DEF Merge
    <3>2. /\ Keys(lists[1]) /\ Keys(lists[2]) /\ Keys(lists[3])
          /\ Range(lists[1]) \cup Range(lists[2]) = {before[i] : i \in 1..(idx[1] - 1)}
          /\ Range(lists[1]) \cup Range(lists[3]) = {after[i] : i \in 1..(idx[2] - 1)}
          /\ Range(lists[2]) \cap Range(after) = {} /\ Range(lists[3]) \cap Range(before) = {}
      BY <3>1 DEF Merged
    <3> QED
      BY <2>1, <2>2, <3>2 DEF MergedSoFar
  <2>3. CASE pc = "done"
    <3>1. Result(before, after, lists[1], lists[2], lists[3])
      BY <2>3 DEF Merge
    <3> QED
      BY <2>1, <2>3, <3>1 DEF MergedSoFar, Result
  <2> QED
    BY <2>2, <2>3 DEF MergedSoFar
<1> QED
  BY <1>1, DiffInvariant, PTL

(* The paths of a program are those of the directory the script has found. *)
LEMMA FoundIs ==
    ASSUME DiffInv, pc = "done", ok = {1, 2}, ~raced, NEW k \in 1..2
    PROVE  Found(k) = Range(outputs[dir[k]].files)
<1>1. dir[k] \in DOMAIN outputs /\ outputs[dir[k]].of = k
  BY DEF DiffInv, Runs, LookedUp
<1>2. \A n \in DOMAIN outputs : outputs[n].of = k => n = dir[k]
  BY <1>1 DEF DiffInv, Runs
<1>3. {m \in DOMAIN outputs : outputs[m].of = k} = {dir[k]}
  BY <1>1, <1>2
<1> QED
  BY <1>3 DEF Found

(* When KLEE ran both programs to the end and nobody else started it in    *)
(* between, the script reports the difference of their paths, whatever     *)
(* earlier runs left in the directory; and lookup always prints a file     *)
(* that has the hash (SE-Diff.py:59-95).                                   *)
THEOREM DifferenceReported == Spec => []ReportsDifference
<1>1. ASSUME DiffInv, pc = "done" PROVE ReportsDifference
  <2> USE <1>1
  <2> DEFINE A == Range(lists[1])
             B == Range(lists[2])
             C == Range(lists[3])
             F1 == DOMAIN dt[1]
             F2 == DOMAIN dt[2]
  <2>1. Range(before) = F1 /\ Range(after) = F2
    BY SortedDicts DEF DiffInv
  <2>2. /\ A \cup B = F1 /\ A \cup C = F2 /\ B \cap F2 = {} /\ C \cap F1 = {}
    BY <2>1 DEF DiffInv, Merge, Result
  <2>3. A = F1 \cap F2 /\ B = F1 \ F2 /\ C = F2 \ F1
    <3> HIDE DEF A, B, C, F1, F2
    <3> QED
      BY <2>2
  <2>4. \A k \in 1..2 : DictOf(dt[k], outputs[dir[k]].files)
    BY DEF DiffInv, Dicts
  <2>5. ASSUME ok = {1, 2}, ~raced
        PROVE  A = Found(1) \cap Found(2) /\ B = Found(1) \ Found(2) /\ C = Found(2) \ Found(1)
    <3>1. Found(1) = F1 /\ Found(2) = F2
      BY <2>4, <2>5, FoundIs DEF DictOf
    <3> QED
      BY <2>3, <3>1
  <2>6. ASSUME NEW k \in 1..2, NEW h \in A \cup Range(lists[k + 1])
        PROVE  h \in DOMAIN dt[k] /\ outputs[dir[k]].files[dt[k][h]] = h
    <3>1. h \in DOMAIN dt[k]
      <4>1. CASE k = 1
        BY <2>2, <2>6, <4>1
      <4>2. CASE k = 2
        BY <2>2, <2>6, <4>2
      <4> QED
        BY <4>1, <4>2
    <3> QED
      BY <2>4, <3>1 DEF DictOf
  <2> QED
    BY <2>5, <2>6 DEF ReportsDifference
<1>2. DiffInv => ReportsDifference
  BY <1>1 DEF ReportsDifference
<1> QED
  BY <1>2, DiffInvariant, PTL
=============================================================================
