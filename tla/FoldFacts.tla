----------------------------- MODULE FoldFacts -----------------------------
(***************************************************************************)
(* What a fold over a sequence does, for the proofs about the tools: a     *)
(* module that is instantiated with the operator that is folded and with   *)
(* what it keeps.  Induction is over the set of the numbers for which      *)
(* something holds, by the minimum of what is left of Nat.                 *)
(***************************************************************************)
EXTENDS Integers, Folds, FiniteSetTheorems, TLAPS

CONSTANTS op(_, _, _, _),   \* what is done to an accumulator with an element; two parameters come first
          P(_, _, _, _)     \* what holds of the accumulator when i elements have been taken

\* The greatest of some numbers.
Greatest(s) == CHOOSE x \in s : \A y \in s : x >= y

\* The fold of op, from the first element to the last: FoldLeft of SequencesExt.
Folded(p, q, base, seq) ==
  MapThenFoldSet(LAMBDA x, acc : op(p, q, acc, x), base, LAMBDA i : seq[i], Greatest, DOMAIN seq)

-----------------------------------------------------------------------------
(* Induction.                                                              *)

Less == {r \in Nat \X Nat : r[1] < r[2]}

\* There is no infinite descent in Nat.
LEMMA LessWellFounded == IsWellFoundedOn(Less, Nat)
BY NatLessThanWellFounded DEF OpToRel, Less

\* A set with 0 and with the successor of each of its numbers has every number.
LEMMA Induction ==
  ASSUME NEW S, 0 \in S, \A n \in Nat : n \in S => n + 1 \in S
  PROVE  \A n \in Nat : n \in S
<1> DEFINE T == Nat \ S
<1> SUFFICES ASSUME T # {} PROVE FALSE
  OBVIOUS
<1>1. PICK x \in T : \A y \in T : ~ (<<y, x>> \in Less)
  BY WFMin, LessWellFounded
<1>2. x - 1 \in Nat /\ x - 1 < x /\ x - 1 + 1 = x
  OBVIOUS
<1>3. <<x - 1, x>> \in Less
  BY <1>2 DEF Less
<1>4. x - 1 \in S
  BY <1>1, <1>2, <1>3
<1> QED
  BY <1>2, <1>4

-----------------------------------------------------------------------------
(* The greatest element of a finite set of positions.                      *)

LEMMA GreatestOfPositions ==
  ASSUME NEW n \in Nat, NEW s \in SUBSET (1..n), s # {}
  PROVE  Greatest(s) \in s /\ s \ {Greatest(s)} \in SUBSET (1..(Greatest(s) - 1))
<1> DEFINE Has(k) == \A t \in SUBSET (1..k) : t # {} => \E m \in t : \A y \in t : m >= y
           S == {k \in Nat : Has(k)}
<1>1. 0 \in S
  <2>1. \A t \in SUBSET (1..0) : t = {}
    OBVIOUS
  <2>2. Has(0)
    BY <2>1
  <2> QED
    BY <2>2
<1>2. ASSUME NEW k \in Nat, k \in S PROVE k + 1 \in S
  <2> SUFFICES ASSUME NEW t \in SUBSET (1..(k + 1)), t # {}
               PROVE  \E m \in t : \A y \in t : m >= y
    OBVIOUS
  <2>1. CASE k + 1 \in t
    BY <2>1
  <2>2. CASE k + 1 \notin t
    <3>1. t \in SUBSET (1..k)
      BY <2>2
    <3>2. Has(k)
      BY <1>2
    <3> QED
      BY <3>1, <3>2
  <2> QED
    BY <2>1, <2>2
<1> HIDE DEF S
<1>3. n \in S
  BY <1>1, <1>2, Induction
<1>4. \E m \in s : \A y \in s : m >= y
  BY <1>3 DEF S
<1>5. Greatest(s) \in s /\ \A y \in s : Greatest(s) >= y
  BY <1>4 DEF Greatest
<1>6. \A y \in s \ {Greatest(s)} : y \in 1..(Greatest(s) - 1)
  <2> TAKE y \in s \ {Greatest(s)}
  <2>1. y \in 1..n /\ Greatest(s) \in 1..n /\ y <= Greatest(s) /\ y # Greatest(s)
    BY <1>5
  <2> QED
    BY <2>1
<1> QED
  BY <1>5, <1>6

LEMMA GreatestOfPrefix ==
  ASSUME NEW n \in Nat
  PROVE  Greatest(1..(n + 1)) = n + 1 /\ (1..(n + 1)) \ {n + 1} = 1..n
<1> DEFINE s == 1..(n + 1)
           m == Greatest(s)
<1>1. n + 1 \in s /\ n + 1 \in Nat
  OBVIOUS
<1>2. m \in s /\ s \ {m} \in SUBSET (1..(m - 1))
  BY <1>1, GreatestOfPositions, s \in SUBSET (1..(n + 1)), s # {}
<1>3. m \in 1..(n + 1)
  BY <1>2
<1> HIDE DEF m
<1>4. m = n + 1
  <2> SUFFICES ASSUME m # n + 1 PROVE FALSE
    OBVIOUS
  <2>1. n + 1 \in 1..(m - 1)
    BY <1>1, <1>2
  <2> QED
    BY <1>3, <2>1
<1>5. s \ {n + 1} = 1..n
  OBVIOUS
<1> QED
  BY <1>4, <1>5 DEF m

-----------------------------------------------------------------------------
(* Folds.                                                                  *)

\* One round: what the fold of a set of positions is, by the folds of smaller ones.
Round(p, q, base, seq, it, s) == IF s = {} THEN base ELSE op(p, q, it[s \ {Greatest(s)}], seq[Greatest(s)])

\* There is a function on sets of positions that is the fold.
LEMMA FoldExists ==
  ASSUME NEW p, NEW q, NEW base, NEW seq, NEW n \in Nat
  PROVE  \E it : it = [s \in SUBSET (1..n) |-> Round(p, q, base, seq, it, s)]
<1> DEFINE Is(it, k) == it = [s \in SUBSET (1..k) |-> Round(p, q, base, seq, it, s)]
           S == {k \in Nat : \E it : Is(it, k)}
<1>1. 0 \in S
  <2> DEFINE it == [s \in SUBSET (1..0) |-> base]
  <2>1. \A s \in SUBSET (1..0) : s = {}
    OBVIOUS
  <2>2. Is(it, 0)
    BY <2>1 DEF Round
  <2> QED
    BY <2>2
<1>2. ASSUME NEW k \in Nat, k \in S PROVE k + 1 \in S
  <2>1. PICK it : Is(it, k)
    BY <1>2
  <2> DEFINE new == [s \in SUBSET (1..(k + 1)) |-> Round(p, q, base, seq, it, s)]
  <2>2. \A s \in SUBSET (1..k) : s \in SUBSET (1..(k + 1)) /\ it[s] = Round(p, q, base, seq, it, s)
    <3>1. \A s \in SUBSET (1..k) : s \in SUBSET (1..(k + 1))
      OBVIOUS
    <3> QED
      BY <2>1, <3>1
  <2>3. \A s \in SUBSET (1..k) : new[s] = it[s]
    BY <2>2
  <2>4. ASSUME NEW s \in SUBSET (1..(k + 1)), s # {} PROVE s \ {Greatest(s)} \in SUBSET (1..k)
    <3>1. Greatest(s) \in s /\ s \ {Greatest(s)} \in SUBSET (1..(Greatest(s) - 1))
      BY <2>4, GreatestOfPositions, k + 1 \in Nat
    <3>2. Greatest(s) \in 1..(k + 1)
      BY <3>1
    <3>3. \A y \in s \ {Greatest(s)} : y \in 1..k
      <4> TAKE y \in s \ {Greatest(s)}
      <4>1. y \in 1..(Greatest(s) - 1)
        BY <3>1
      <4> QED
        BY <3>2, <4>1
    <3> QED
      BY <3>3
  <2> HIDE DEF new
  <2>5. \A s \in SUBSET (1..(k + 1)) : Round(p, q, base, seq, it, s) = Round(p, q, base, seq, new, s)
    BY <2>3, <2>4 DEF Round
  <2>6. Is(new, k + 1)
    BY <2>5 DEF new
  <2> QED
    BY <2>6
<1> HIDE DEF S
<1>3. n \in S
  BY <1>1, <1>2, Induction
<1> QED
  BY <1>3 DEF S

\* A fold takes one element after the other.
IsPart(p, q, base, seq, n, part) ==
  /\ part[0] = base /\ Folded(p, q, base, seq) = part[n]
  /\ \A k \in 0..(n - 1) : part[k + 1] = op(p, q, part[k], seq[k + 1])

LEMMA FoldInParts ==
  ASSUME NEW p, NEW q, NEW base, NEW seq, NEW n \in Nat, DOMAIN seq = 1..n
  PROVE  \E part : IsPart(p, q, base, seq, n, part)
<1> DEFINE Is(it) == it = [s \in SUBSET (1..n) |-> Round(p, q, base, seq, it, s)]
           fold == CHOOSE it : Is(it)
           part == [k \in 0..n |-> fold[1..k]]
<1>1. Is(fold)
  BY FoldExists
<1>2. Folded(p, q, base, seq) = fold[1..n]
  BY DEF Folded, MapThenFoldSet, Round
<1> HIDE DEF fold
<1>3. fold[1..0] = base
  <2>1. 1..0 = {} /\ {} \in SUBSET (1..n)
    OBVIOUS
  <2> QED
    BY <1>1, <2>1 DEF Round
<1>4. ASSUME NEW k \in 0..(n - 1) PROVE fold[1..(k + 1)] = op(p, q, fold[1..k], seq[k + 1])
  <2>1. 1..(k + 1) \in SUBSET (1..n) /\ 1..(k + 1) # {}
    <3>1. k + 1 \in 1..(k + 1) /\ \A y \in 1..(k + 1) : y \in 1..n
      OBVIOUS
    <3> QED
      BY <3>1
  <2>2. Greatest(1..(k + 1)) = k + 1 /\ (1..(k + 1)) \ {k + 1} = 1..k
    BY GreatestOfPrefix, k \in Nat
  <2> QED
    BY <1>1, <2>1, <2>2 DEF Round
<1>5. part[0] = base /\ part[n] = fold[1..n] /\ \A k \in 0..(n - 1) : part[k] = fold[1..k] /\ part[k + 1] = fold[1..(k + 1)]
  BY <1>3
<1>6. IsPart(p, q, base, seq, n, part)
  BY <1>2, <1>4, <1>5 DEF IsPart
<1> QED
  BY <1>6

\* What every step keeps holds at the end of the fold.
LEMMA FoldInvariant ==
  ASSUME NEW p, NEW q, NEW base, NEW seq, NEW n \in Nat, DOMAIN seq = 1..n,
         P(p, q, 0, base),
         \A acc : \A i \in 0..(n - 1) : P(p, q, i, acc) => P(p, q, i + 1, op(p, q, acc, seq[i + 1]))
  PROVE  P(p, q, n, Folded(p, q, base, seq))
<1>1. PICK part : IsPart(p, q, base, seq, n, part)
  BY FoldInParts
<1> DEFINE S == {k \in Nat : k <= n => P(p, q, k, part[k])}
<1>2. 0 \in S
  BY <1>1 DEF IsPart
<1>3. ASSUME NEW k \in Nat, k \in S PROVE k + 1 \in S
  <2> SUFFICES ASSUME k + 1 <= n PROVE P(p, q, k + 1, part[k + 1])
    OBVIOUS
  <2>1. k \in 0..(n - 1) /\ P(p, q, k, part[k])
    BY <1>3
  <2> QED
    BY <1>1, <2>1 DEF IsPart
<1> HIDE DEF S
<1>4. n \in S
  BY <1>2, <1>3, Induction
<1> QED
  BY <1>1, <1>4 DEF S, IsPart

\* The last element is taken last.
LEMMA FoldOfAppended ==
  ASSUME NEW p, NEW q, NEW base, NEW seq, NEW n \in Nat, DOMAIN seq = 1..n,
         NEW more, DOMAIN more = 1..(n + 1), \A i \in 1..n : more[i] = seq[i]
  PROVE  Folded(p, q, base, more) = op(p, q, Folded(p, q, base, seq), more[n + 1])
<1>1. PICK part : IsPart(p, q, base, seq, n, part)
  BY FoldInParts
<1>2. PICK whole : IsPart(p, q, base, more, n + 1, whole)
  BY FoldInParts, n + 1 \in Nat
<1> DEFINE S == {k \in Nat : k <= n => whole[k] = part[k]}
<1>3. 0 \in S
  BY <1>1, <1>2 DEF IsPart
<1>4. ASSUME NEW k \in Nat, k \in S PROVE k + 1 \in S
  <2> SUFFICES ASSUME k + 1 <= n PROVE whole[k + 1] = part[k + 1]
    OBVIOUS
  <2>1. k \in 0..(n - 1) /\ k \in 0..(n + 1 - 1) /\ k + 1 \in 1..n /\ whole[k] = part[k]
    BY <1>4
  <2> QED
    BY <1>1, <1>2, <2>1 DEF IsPart
<1> HIDE DEF S
<1>5. n \in S
  BY <1>3, <1>4, Induction
<1>6. n \in 0..(n + 1 - 1) /\ whole[n] = part[n]
  BY <1>5 DEF S
<1> QED
  BY <1>1, <1>2, <1>6 DEF IsPart

-----------------------------------------------------------------------------
(* Folds over finite sets: their order is any, by CHOOSE.                  *)

Chosen(s) == CHOOSE x \in s : TRUE

\* The fold of op over a set: FoldSet of FiniteSetsExt.
FoldedSet(p, q, base, set) == MapThenFoldSet(LAMBDA x, acc : op(p, q, acc, x), base, LAMBDA x : x, Chosen, set)

RoundSet(p, q, base, it, s) == IF s = {} THEN base ELSE op(p, q, it[s \ {Chosen(s)}], Chosen(s))

LEMMA RestIsSmaller ==
  ASSUME NEW set, IsFiniteSet(set), NEW s \in SUBSET set, s # {}
  PROVE  /\ Chosen(s) \in s /\ s \ {Chosen(s)} \in SUBSET set
         /\ Cardinality(s) \in Nat /\ Cardinality(s \ {Chosen(s)}) \in Nat
         /\ Cardinality(s \ {Chosen(s)}) = Cardinality(s) - 1
<1>1. Chosen(s) \in s
  BY DEF Chosen
<1>2. IsFiniteSet(s)
  BY FS_Subset
<1>3. /\ IsFiniteSet(s \ {Chosen(s)})
      /\ Cardinality(s \ {Chosen(s)}) = Cardinality(s) - 1
  BY <1>1, <1>2, FS_RemoveElement
<1>4. Cardinality(s) \in Nat /\ Cardinality(s \ {Chosen(s)}) \in Nat
  BY <1>2, <1>3, FS_CardinalityType
<1> QED
  BY <1>1, <1>3, <1>4

LEMMA SizeOfSubset ==
  ASSUME NEW set, IsFiniteSet(set)
  PROVE  /\ Cardinality(set) \in Nat
         /\ \A s \in SUBSET set : Cardinality(s) \in Nat /\ Cardinality(s) <= Cardinality(set)
                                  /\ (Cardinality(s) = 0 <=> s = {})
<1>1. Cardinality(set) \in Nat
  BY FS_CardinalityType
<1>2. ASSUME NEW s \in SUBSET set
      PROVE  Cardinality(s) \in Nat /\ Cardinality(s) <= Cardinality(set) /\ (Cardinality(s) = 0 <=> s = {})
  <2>1. IsFiniteSet(s) /\ Cardinality(s) <= Cardinality(set)
    BY FS_Subset
  <2> QED
    BY <2>1, FS_CardinalityType, FS_EmptySet
<1> QED
  BY <1>1, <1>2

LEMMA FoldSetExists ==
  ASSUME NEW p, NEW q, NEW base, NEW set, IsFiniteSet(set)
  PROVE  \E it : it = [s \in SUBSET set |-> RoundSet(p, q, base, it, s)]
<1> DEFINE Upto(it, k) == \A s \in SUBSET set : Cardinality(s) <= k => it[s] = RoundSet(p, q, base, it, s)
           IsFun(it) == it = [s \in SUBSET set |-> it[s]]
           Has(k) == \E it : IsFun(it) /\ Upto(it, k)
           S == {k \in Nat : Has(k)}
<1>1. 0 \in S
  <2> DEFINE it == [s \in SUBSET set |-> base]
  <2>1. \A s \in SUBSET set : Cardinality(s) <= 0 => s = {}
    BY SizeOfSubset
  <2>2. Upto(it, 0)
    BY <2>1 DEF RoundSet
  <2>3. IsFun(it)
    OBVIOUS
  <2> QED
    BY <2>2, <2>3
<1>2. ASSUME NEW k \in Nat, k \in S PROVE k + 1 \in S
  <2>1. PICK it : IsFun(it) /\ Upto(it, k)
    BY <1>2
  <2> DEFINE new == [s \in SUBSET set |-> RoundSet(p, q, base, it, s)]
  <2>2. \A s \in SUBSET set : Cardinality(s) <= k => new[s] = it[s]
    BY <2>1
  <2>3. \A s \in SUBSET set : new[s] = RoundSet(p, q, base, it, s)
    OBVIOUS
  <2>4. IsFun(new)
    OBVIOUS
  <2> HIDE DEF new
  <2>5. ASSUME NEW s \in SUBSET set, Cardinality(s) <= k + 1 PROVE new[s] = RoundSet(p, q, base, new, s)
    <3>1. CASE s = {}
      BY <2>3, <3>1 DEF RoundSet
    <3>2. CASE s # {}
      <4>1. s \ {Chosen(s)} \in SUBSET set /\ Cardinality(s \ {Chosen(s)}) <= k
        BY <2>5, <3>2, RestIsSmaller
      <4>2. new[s \ {Chosen(s)}] = it[s \ {Chosen(s)}]
        BY <2>2, <4>1
      <4> QED
        BY <2>3, <4>2 DEF RoundSet
    <3> QED
      BY <3>1, <3>2
  <2>6. IsFun(new) /\ Upto(new, k + 1)
    BY <2>4, <2>5
  <2>7. Has(k + 1)
    BY <2>6
  <2> HIDE DEF Has
  <2> QED
    BY <2>7
<1> HIDE DEF S
<1>3. Cardinality(set) \in S
  BY <1>1, <1>2, Induction, SizeOfSubset
<1>4. PICK it : IsFun(it) /\ Upto(it, Cardinality(set))
  BY <1>3 DEF S
<1>5. \A s \in SUBSET set : it[s] = RoundSet(p, q, base, it, s)
  BY <1>4, SizeOfSubset
<1>6. it = [s \in SUBSET set |-> RoundSet(p, q, base, it, s)]
  BY <1>4, <1>5
<1> QED
  BY <1>6

\* What every step keeps holds at the end of a fold over a finite set, in any order.
LEMMA SetFoldInvariant ==
  ASSUME NEW p, NEW q, NEW base, NEW set, IsFiniteSet(set),
         P(p, q, 0, base),
         \A acc : \A x \in set : P(p, q, 0, acc) => P(p, q, 0, op(p, q, acc, x))
  PROVE  P(p, q, 0, FoldedSet(p, q, base, set))
<1> DEFINE Is(it) == it = [s \in SUBSET set |-> RoundSet(p, q, base, it, s)]
           fold == CHOOSE it : Is(it)
<1>1. Is(fold)
  BY FoldSetExists
<1>2. FoldedSet(p, q, base, set) = fold[set]
  BY DEF FoldedSet, MapThenFoldSet, RoundSet
<1> HIDE DEF fold
<1> DEFINE S == {k \in Nat : \A s \in SUBSET set : Cardinality(s) <= k => P(p, q, 0, fold[s])}
<1>3. 0 \in S
  <2>1. \A s \in SUBSET set : Cardinality(s) <= 0 => s = {}
    BY SizeOfSubset
  <2>2. fold[{}] = base
    BY <1>1 DEF RoundSet
  <2> QED
    BY <2>1, <2>2
<1>4. ASSUME NEW k \in Nat, k \in S PROVE k + 1 \in S
  <2> SUFFICES ASSUME NEW s \in SUBSET set, Cardinality(s) <= k + 1 PROVE P(p, q, 0, fold[s])
    OBVIOUS
  <2>1. CASE s = {}
    BY <1>1, <2>1 DEF RoundSet
  <2>2. CASE s # {}
    <3>1. Chosen(s) \in set /\ s \ {Chosen(s)} \in SUBSET set /\ Cardinality(s \ {Chosen(s)}) <= k
      BY <2>2, RestIsSmaller
    <3>2. P(p, q, 0, fold[s \ {Chosen(s)}])
      BY <1>4, <3>1
    <3>3. fold[s] = op(p, q, fold[s \ {Chosen(s)}], Chosen(s))
      BY <1>1, <2>2 DEF RoundSet
    <3> QED
      BY <3>1, <3>2, <3>3
  <2> QED
    BY <2>1, <2>2
<1> HIDE DEF S
<1>5. Cardinality(set) \in S
  BY <1>3, <1>4, Induction, SizeOfSubset
<1>6. P(p, q, 0, fold[set])
  BY <1>5, SizeOfSubset DEF S
<1> QED
  BY <1>2, <1>6
=============================================================================
