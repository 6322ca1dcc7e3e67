------------------------------- MODULE DataLemmas -------------------------------
(* Induction over natural numbers and finite sets, stated with sets so that the    *)
(* provers can use it, and what it proves about the operators of the models:       *)
(* greatest elements, numbers of elements, sequences and flattened sequences, and  *)
(* folds - a recursive function exists, and a sum over a set is the sum over the   *)
(* rest of it and any one of its terms.                                            *)
EXTENDS Integers, SequencesExt, FiniteSetTheorems, SequenceTheorems, WellFoundedInduction,
        TLAPS

---------------------------------------------------------------------------------
(* Induction. *)

\* A set of natural numbers has a least element.
LEMMA LeastNat ==
  ASSUME NEW S \in SUBSET Nat, S # {}
  PROVE  \E n \in S : \A m \in S : n <= m
<1> DEFINE R == OpToRel(<, Nat)
<1>1. IsWellFoundedOn(R, Nat)
  BY NatLessThanWellFounded
<1>2. \A m, n \in Nat : <<m, n>> \in R <=> m < n
  BY DEF OpToRel
<1> HIDE DEF R
<1>3. PICK n \in S : \A m \in S : ~(<<m, n>> \in R)
  BY <1>1, WFMin
<1>4. ASSUME NEW m \in S PROVE n <= m
  <2>1. m \in Nat /\ n \in Nat /\ <<m, n>> \notin R
    BY <1>3
  <2>2. ~(m < n)
    BY <1>2, <2>1
  <2> QED
    BY <2>1, <2>2
<1> QED
  BY <1>4

\* Induction over the natural numbers: S is the set of those with the property.
LEMMA NatInduct ==
  ASSUME NEW S, 0 \in S, \A n \in Nat : n \in S => n + 1 \in S
  PROVE  Nat \subseteq S
<1> SUFFICES ASSUME Nat \ S # {} PROVE FALSE
  OBVIOUS
<1>1. PICK n \in Nat \ S : \A m \in Nat \ S : n <= m
  <2> DEFINE T == Nat \ S
  <2>1. T \in SUBSET Nat /\ T # {}
    OBVIOUS
  <2> HIDE DEF T
  <2>2. \E n \in T : \A m \in T : n <= m
    BY <2>1, LeastNat
  <2> QED
    BY <2>2 DEF T
<1>2. n \in Nat /\ n # 0
  OBVIOUS
<1>3. n - 1 \in Nat /\ n - 1 \in S
  BY <1>1, <1>2
<1>4. (n - 1) + 1 \in S
  BY <1>3
<1> QED
  BY <1>2, <1>4

\* Induction over the subsets of a finite set: Q is the set of those with the property.
LEMMA SetInduct ==
  ASSUME NEW S, IsFiniteSet(S), NEW Q, {} \in Q,
         \A T \in SUBSET S : T # {} /\ (\A x \in T : T \ {x} \in Q) => T \in Q
  PROVE  SUBSET S \subseteq Q
<1> DEFINE P == {n \in Nat : \A T \in SUBSET S : Cardinality(T) = n => T \in Q}
<1>1. \A T \in SUBSET S : IsFiniteSet(T) /\ Cardinality(T) \in Nat
  BY FS_Subset, FS_CardinalityType
<1>2. 0 \in P
  BY <1>1, FS_EmptySet
<1>3. ASSUME NEW n \in Nat, n \in P PROVE n + 1 \in P
  <2> SUFFICES ASSUME NEW T \in SUBSET S, Cardinality(T) = n + 1 PROVE T \in Q
    OBVIOUS
  <2>1. T # {}
    BY FS_EmptySet
  <2>2. ASSUME NEW x \in T PROVE T \ {x} \in Q
    <3>1. Cardinality(T \ {x}) = n
      BY <1>1, FS_RemoveElement
    <3> QED
      BY <1>3, <3>1
  <2> QED
    BY <2>1, <2>2
<1> HIDE DEF P
<1>4. Nat \subseteq P
  BY <1>2, <1>3, NatInduct
<1> QED
  BY <1>1, <1>4 DEF P

---------------------------------------------------------------------------------
(* Greatest elements, and numbers of elements. *)

\* A bounded set of natural numbers has a greatest element.
LEMMA GreatestNat ==
  ASSUME NEW T \in SUBSET Nat, T # {}, NEW b \in Nat, \A x \in T : x <= b
  PROVE  Max(T) \in T /\ \A y \in T : Max(T) >= y
<1> DEFINE up == {b - i : i \in T}
<1>1. up \in SUBSET Nat
  <2>1. \A i \in T : b - i \in Nat
    OBVIOUS
  <2> QED
    BY <2>1
<1>2. up # {}
  OBVIOUS
<1>3. PICK d \in up : \A e \in up : d <= e
  <2> HIDE DEF up
  <2> QED
    BY <1>1, <1>2, LeastNat
<1>4. PICK x \in T : d = b - x
  OBVIOUS
<1>5. \A y \in T : b - x <= b - y /\ x \in Nat /\ y \in Nat
  BY <1>3, <1>4
<1>6. \A y \in T : x >= y
  BY <1>5
<1> QED
  BY <1>6 DEF Max

\* The greatest of the first numbers.
LEMMA MaxOf ==
  ASSUME NEW n \in Nat
  PROVE  Max(1 .. n + 1) = n + 1
<1>1. n + 1 \in 1 .. n + 1 /\ \A y \in 1 .. n + 1 : n + 1 >= y
  OBVIOUS
<1>2. \A x \in 1 .. n + 1 : (\A y \in 1 .. n + 1 : x >= y) => x = n + 1
  BY <1>1
<1> QED
  BY <1>1, <1>2 DEF Max

\* What is greater than two numbers is greater than the greater one.
LEMMA MaxOfTwo ==
  ASSUME NEW x \in Nat, NEW y \in Nat, NEW z \in Int, z > x, z > y
  PROVE  z > Max({x, y})
<1> DEFINE T == {x, y}
           b == x + y
<1>1. T \in SUBSET Nat /\ T # {} /\ b \in Nat /\ \A t \in T : t <= b /\ z > t
  OBVIOUS
<1> HIDE DEF T, b
<1>2. Max(T) \in T
  BY <1>1, GreatestNat
<1> QED
  BY <1>1, <1>2 DEF T

\* There are n numbers up to n.
LEMMA CountUpTo ==
  ASSUME NEW n \in Nat
  PROVE  IsFiniteSet(1 .. n) /\ Cardinality(1 .. n) = n
<1>1. \A a, b \in Int : IsFiniteSet(a .. b) /\ Cardinality(a .. b) = IF a > b THEN 0 ELSE b - a + 1
  BY FS_Interval
<1>2. 1 \in Int /\ n \in Int
  OBVIOUS
<1>3. IsFiniteSet(1 .. n) /\ Cardinality(1 .. n) = IF 1 > n THEN 0 ELSE n - 1 + 1
  BY <1>1, <1>2
<1>4. (IF 1 > n THEN 0 ELSE n - 1 + 1) = n
  OBVIOUS
<1> QED
  BY <1>3, <1>4

\* A part has not more elements than the whole.
LEMMA NotMore ==
  ASSUME NEW S, IsFiniteSet(S), NEW T \in SUBSET S
  PROVE  IsFiniteSet(T) /\ Cardinality(T) <= Cardinality(S) /\ Cardinality(T) \in Nat
         /\ Cardinality(S) \in Nat
BY FS_Subset, FS_CardinalityType

\* What has one more candidate has at most one more element.
LEMMA OneMore ==
  ASSUME NEW S, IsFiniteSet(S), NEW x, NEW T, T \subseteq S \cup {x}
  PROVE  IsFiniteSet(T) /\ Cardinality(T) <= Cardinality(S) + 1 /\ Cardinality(T) \in Nat
<1>1. IsFiniteSet(S \cup {x}) /\ Cardinality(S \cup {x}) <= Cardinality(S) + 1
  <2>1. /\ IsFiniteSet(S \cup {x})
        /\ Cardinality(S \cup {x}) = IF x \in S THEN Cardinality(S) ELSE Cardinality(S) + 1
    BY FS_AddElement
  <2>2. Cardinality(S) \in Nat
    BY FS_CardinalityType
  <2> QED
    BY <2>1, <2>2
<1> DEFINE U == S \cup {x}
<1>2. T \in SUBSET U /\ IsFiniteSet(U)
  BY <1>1
<1> HIDE DEF U
<1>3. IsFiniteSet(T) /\ Cardinality(T) <= Cardinality(U) /\ Cardinality(T) \in Nat
      /\ Cardinality(U) \in Nat
  BY <1>2, NotMore
<1>4. Cardinality(U) <= Cardinality(S) + 1 /\ Cardinality(S) \in Nat
  BY <1>1, FS_CardinalityType DEF U
<1> QED
  BY <1>3, <1>4

\* The values of a function on a finite set are not more than its arguments, and as many
\* if no two are the same.
LEMMA FiniteImage ==
  ASSUME NEW S, IsFiniteSet(S), NEW f, DOMAIN f = S
  PROVE  /\ IsFiniteSet({f[x] : x \in S}) /\ Cardinality({f[x] : x \in S}) <= Cardinality(S)
         /\ (\A x, y \in S : f[x] = f[y] => x = y) => Cardinality({f[x] : x \in S}) = Cardinality(S)
<1> DEFINE T == {f[x] : x \in S}
           g == [x \in S |-> f[x]]
<1>1. g \in [S -> T] /\ \A x \in S : g[x] = f[x]
  OBVIOUS
<1>2. \A t \in T : \E x \in S : g[x] = t
  BY <1>1
<1> HIDE DEF T, g
<1>3. g \in Surjection(S, T)
  BY <1>1, <1>2 DEF Surjection
<1>4. /\ IsFiniteSet(T) /\ Cardinality(T) <= Cardinality(S)
      /\ g \in Injection(S, T) => Cardinality(T) = Cardinality(S)
  BY <1>3, FS_Surjection
<1>5. ASSUME \A x, y \in S : f[x] = f[y] => x = y PROVE g \in Injection(S, T)
  BY <1>1, <1>5 DEF Injection, IsInjective
<1> QED
  BY <1>4, <1>5 DEF T

---------------------------------------------------------------------------------
(* Sequences. *)

\* A function on the first numbers is a sequence.
LEMMA FunctionIsSeq ==
  ASSUME NEW T, NEW n \in Nat, NEW f \in [1 .. n -> T]
  PROVE  f \in Seq(T) /\ Len(f) = n
BY SeqDef

\* An appended sequence, whatever its elements are.
LEMMA AppendAny ==
  ASSUME NEW S, NEW s \in Seq(S), NEW e
  PROVE  /\ Append(s, e) \in Seq(S \cup {e})
         /\ DOMAIN Append(s, e) = DOMAIN s \cup {Len(s) + 1}
         /\ \A i \in DOMAIN s : Append(s, e)[i] = s[i] /\ i < Len(s) + 1
         /\ Append(s, e)[Len(s) + 1] = e
<1>1. s \in Seq(S \cup {e}) /\ e \in S \cup {e}
  BY SeqDef
<1>2. /\ Append(s, e) \in Seq(S \cup {e}) /\ Len(Append(s, e)) = Len(s) + 1
      /\ \A i \in 1 .. Len(s) : Append(s, e)[i] = s[i]
      /\ Append(s, e)[Len(s) + 1] = e
  BY <1>1, AppendProperties
<1>3. /\ DOMAIN s = 1 .. Len(s) /\ Len(s) \in Nat
      /\ DOMAIN Append(s, e) = 1 .. (Len(s) + 1)
  BY <1>1, <1>2, LenProperties
<1> QED
  BY <1>2, <1>3

\* What the first n elements of a sequence are.
LEMMA SetOfPrefix ==
  ASSUME NEW S, NEW s \in Seq(S), NEW n \in 0 .. Len(s)
  PROVE  SubSeq(s, 1, n) \in Seq(S) /\ ToSet(SubSeq(s, 1, n)) = {s[m] : m \in 1 .. n}
<1>1. Len(s) \in Nat /\ n \in Nat /\ \A m \in 1 .. n : s[m] \in S
  OBVIOUS
<1>2. /\ SubSeq(s, 1, n) \in Seq(S) /\ Len(SubSeq(s, 1, n)) = n
      /\ \A j \in 1 .. n : SubSeq(s, 1, n)[j] = s[j]
  <2>1. 1 .. n \subseteq 1 .. Len(s)
    BY <1>1
  <2> QED
    BY <1>1, <2>1
<1>3. DOMAIN SubSeq(s, 1, n) = 1 .. n
  BY <1>2
<1> QED
  BY <1>2, <1>3 DEF ToSet

\* The rest of a sequence, after its element i.
LEMMA RestOfList ==
  ASSUME NEW S, NEW list \in Seq(S), NEW i \in DOMAIN list
  PROVE  /\ SubSeq(list, i + 1, Len(list)) \in Seq(S)
         /\ DOMAIN SubSeq(list, i + 1, Len(list)) = 1 .. Len(list) - i
         /\ \A j \in 1 .. Len(list) - i :
              i + j \in DOMAIN list /\ SubSeq(list, i + 1, Len(list))[j] = list[i + j]
<1>1. Len(list) \in Nat /\ i \in 1 .. Len(list)
  OBVIOUS
<1>2. /\ SubSeq(list, i + 1, Len(list)) \in Seq(S) /\ Len(SubSeq(list, i + 1, Len(list))) = Len(list) - i
      /\ \A j \in 1 .. Len(list) - i : SubSeq(list, i + 1, Len(list))[j] = list[i + j]
  <2>1. /\ \A k \in (i + 1) .. Len(list) : list[k] \in S
        /\ i + 1 \in 1 .. Len(list) + 1 /\ Len(list) \in (i + 1) - 1 .. Len(list)
    BY <1>1
  <2>2. /\ SubSeq(list, i + 1, Len(list)) \in Seq(S)
        /\ Len(SubSeq(list, i + 1, Len(list))) = IF i + 1 <= Len(list) THEN Len(list) - (i + 1) + 1 ELSE 0
        /\ \A j \in 1 .. Len(list) - (i + 1) + 1 : SubSeq(list, i + 1, Len(list))[j] = list[i + 1 + j - 1]
    BY <1>1, <2>1, SubSeqProperties
  <2>3. /\ (IF i + 1 <= Len(list) THEN Len(list) - (i + 1) + 1 ELSE 0) = Len(list) - i
        /\ Len(list) - (i + 1) + 1 = Len(list) - i
        /\ \A j \in 1 .. Len(list) - i : i + 1 + j - 1 = i + j
    BY <1>1
  <2> QED
    BY <2>2, <2>3
<1>3. \A j \in 1 .. Len(list) - i : i + j \in DOMAIN list
  BY <1>1
<1> QED
  BY <1>2, <1>3

\* RemoveAt closes the gap.
LEMMA Removed ==
  ASSUME NEW S, NEW s \in Seq(S), NEW i \in 1 .. Len(s)
  PROVE  /\ RemoveAt(s, i) \in Seq(S) /\ Len(RemoveAt(s, i)) = Len(s) - 1
         /\ \A j \in 1 .. Len(s) - 1 :
              RemoveAt(s, i)[j] = IF j < i THEN s[j] ELSE s[j + 1]
<1>1. Len(s) \in Nat
  OBVIOUS
<1>2. /\ SubSeq(s, 1, i - 1) \in Seq(S) /\ Len(SubSeq(s, 1, i - 1)) = i - 1
      /\ \A j \in 1 .. i - 1 : SubSeq(s, 1, i - 1)[j] = s[j]
  <2>1. 1 .. i - 1 \subseteq 1 .. Len(s)
    BY <1>1
  <2> QED
    BY <1>1, <2>1
<1>3. /\ SubSeq(s, i + 1, Len(s)) \in Seq(S) /\ Len(SubSeq(s, i + 1, Len(s))) = Len(s) - i
      /\ \A j \in 1 .. Len(s) - i : SubSeq(s, i + 1, Len(s))[j] = s[i + j]
  <2>1. /\ \A k \in (i + 1) .. Len(s) : s[k] \in S
        /\ i + 1 \in 1 .. Len(s) + 1 /\ Len(s) \in (i + 1) - 1 .. Len(s)
    BY <1>1
  <2>2. /\ SubSeq(s, i + 1, Len(s)) \in Seq(S)
        /\ Len(SubSeq(s, i + 1, Len(s))) = IF i + 1 <= Len(s) THEN Len(s) - (i + 1) + 1 ELSE 0
        /\ \A j \in 1 .. Len(s) - (i + 1) + 1 : SubSeq(s, i + 1, Len(s))[j] = s[i + 1 + j - 1]
    BY <1>1, <2>1, SubSeqProperties
  <2>3. /\ (IF i + 1 <= Len(s) THEN Len(s) - (i + 1) + 1 ELSE 0) = Len(s) - i
        /\ Len(s) - (i + 1) + 1 = Len(s) - i
        /\ \A j \in 1 .. Len(s) - i : i + 1 + j - 1 = i + j
    BY <1>1
  <2> QED
    BY <2>2, <2>3
<1> DEFINE p == SubSeq(s, 1, i - 1)
           q == SubSeq(s, i + 1, Len(s))
<1>4. p \in Seq(S) /\ q \in Seq(S) /\ Len(p) = i - 1 /\ Len(q) = Len(s) - i
  BY <1>2, <1>3
<1>5. RemoveAt(s, i) = p \o q
  BY DEF RemoveAt
<1> HIDE DEF p, q
<1>6. /\ p \o q \in Seq(S) /\ Len(p \o q) = Len(p) + Len(q)
      /\ \A j \in 1 .. Len(p) + Len(q) : (p \o q)[j] = IF j <= Len(p) THEN p[j] ELSE q[j - Len(p)]
  BY <1>4, ConcatProperties
<1>7. Len(p) + Len(q) = Len(s) - 1
  BY <1>1, <1>4
<1>8. ASSUME NEW j \in 1 .. Len(s) - 1
      PROVE  (p \o q)[j] = IF j < i THEN s[j] ELSE s[j + 1]
  <2>1. CASE j < i
    <3>1. j \in 1 .. i - 1 /\ j <= Len(p)
      BY <1>1, <1>4, <2>1
    <3> QED
      BY <1>2, <1>6, <1>7, <2>1, <3>1 DEF p
  <2>2. CASE ~(j < i)
    <3>1. j - (i - 1) \in 1 .. Len(s) - i /\ i + (j - (i - 1)) = j + 1 /\ ~(j <= i - 1)
      BY <1>1, <2>2
    <3>2. (p \o q)[j] = q[j - (i - 1)]
      BY <1>4, <1>6, <1>7, <3>1
    <3> QED
      BY <1>3, <2>2, <3>1, <3>2 DEF q
  <2> QED
    BY <2>1, <2>2
<1> QED
  BY <1>5, <1>6, <1>7, <1>8

\* What a concatenation holds.
LEMMA SetOfConcat ==
  ASSUME NEW S, NEW a \in Seq(S), NEW b \in Seq(S)
  PROVE  /\ a \o b \in Seq(S)
         /\ ToSet(a \o b) = ToSet(a) \cup ToSet(b)
         /\ IsInjective(a) /\ IsInjective(b) /\ ToSet(a) \cap ToSet(b) = {} => IsInjective(a \o b)
<1>1. /\ a \o b \in Seq(S) /\ Len(a) \in Nat /\ Len(b) \in Nat
      /\ DOMAIN a = 1 .. Len(a) /\ DOMAIN b = 1 .. Len(b)
      /\ DOMAIN (a \o b) = 1 .. Len(a) + Len(b)
      /\ \A i \in 1 .. Len(a) + Len(b) :
           (a \o b)[i] = IF i <= Len(a) THEN a[i] ELSE b[i - Len(a)]
  BY ConcatProperties
<1>2. \A i \in 1 .. Len(a) + Len(b) :
        \/ i \in DOMAIN a /\ (a \o b)[i] = a[i]
        \/ i > Len(a) /\ i - Len(a) \in DOMAIN b /\ (a \o b)[i] = b[i - Len(a)]
  BY <1>1
<1>3. \A i \in DOMAIN a : i \in DOMAIN (a \o b) /\ (a \o b)[i] = a[i]
  BY <1>1
<1>4. \A i \in DOMAIN b : i + Len(a) \in DOMAIN (a \o b) /\ (a \o b)[i + Len(a)] = b[i]
  <2> SUFFICES ASSUME NEW i \in 1 .. Len(b)
               PROVE  i + Len(a) \in DOMAIN (a \o b) /\ (a \o b)[i + Len(a)] = b[i]
    BY <1>1
  <2>1. i + Len(a) \in 1 .. Len(a) + Len(b) /\ ~(i + Len(a) <= Len(a)) /\ (i + Len(a)) - Len(a) = i
    BY <1>1
  <2> QED
    BY <1>1, <2>1
<1>5. ToSet(a \o b) = ToSet(a) \cup ToSet(b)
  <2>1. ToSet(a \o b) \subseteq ToSet(a) \cup ToSet(b)
    BY <1>1, <1>2 DEF ToSet
  <2>2. ToSet(a) \subseteq ToSet(a \o b)
    BY <1>3 DEF ToSet
  <2>3. ToSet(b) \subseteq ToSet(a \o b)
    BY <1>4 DEF ToSet
  <2> QED
    BY <2>1, <2>2, <2>3
<1>6. ASSUME IsInjective(a), IsInjective(b), ToSet(a) \cap ToSet(b) = {}
      PROVE  IsInjective(a \o b)
  <2> SUFFICES ASSUME NEW i \in 1 .. Len(a) + Len(b), NEW j \in 1 .. Len(a) + Len(b),
                      (a \o b)[i] = (a \o b)[j]
               PROVE  i = j
    BY <1>1 DEF IsInjective
  <2>1. \A m \in DOMAIN a, n \in DOMAIN b : a[m] # b[n]
    BY <1>6 DEF ToSet
  <2>2. CASE i \in DOMAIN a /\ j \in DOMAIN a
    BY <1>3, <1>6, <2>2 DEF IsInjective
  <2>3. CASE i \notin DOMAIN a /\ j \notin DOMAIN a
    <3>1. /\ i - Len(a) \in DOMAIN b /\ j - Len(a) \in DOMAIN b
          /\ b[i - Len(a)] = b[j - Len(a)]
      BY <1>2, <2>3
    <3>2. i - Len(a) = j - Len(a)
      BY <1>6, <3>1 DEF IsInjective
    <3> QED
      BY <1>1, <3>2
  <2>4. CASE i \in DOMAIN a /\ j \notin DOMAIN a
    BY <1>2, <1>3, <2>1, <2>4
  <2>5. CASE i \notin DOMAIN a /\ j \in DOMAIN a
    BY <1>2, <1>3, <2>1, <2>5
  <2> QED
    BY <2>2, <2>3, <2>4, <2>5
<1> QED
  BY <1>1, <1>5, <1>6

---------------------------------------------------------------------------------
(* Flattened sequences. *)

\* f[i] is what the first i sequences are together, for i up to n.
Flattens(f, s, n) ==
  \A i \in 1 .. n : /\ i = 1 => f[i] = s[i]
                    /\ i > 1 => f[i] = f[i - 1] \o s[i]

\* There is such a function, by induction on n;
LEMMA FlattenExists ==
  ASSUME NEW S, NEW s \in Seq(Seq(S))
  PROVE  \E f \in [1 .. Len(s) -> Seq(S)] : Flattens(f, s, Len(s))
<1> DEFINE P == {n \in Nat : n <= Len(s) => \E f \in [1 .. n -> Seq(S)] : Flattens(f, s, n)}
<1>1. Len(s) \in Nat /\ \A i \in 1 .. Len(s) : s[i] \in Seq(S)
  OBVIOUS
<1>2. 0 \in P
  <2>1. [i \in 1 .. 0 |-> <<>>] \in [1 .. 0 -> Seq(S)] /\ Flattens([i \in 1 .. 0 |-> <<>>], s, 0)
    BY DEF Flattens
  <2> QED
    BY <2>1
<1>3. ASSUME NEW n \in Nat, n \in P PROVE n + 1 \in P
  <2> SUFFICES ASSUME n + 1 <= Len(s)
               PROVE  \E f \in [1 .. n + 1 -> Seq(S)] : Flattens(f, s, n + 1)
    OBVIOUS
  <2>1. n <= Len(s)
    BY <1>1
  <2>2. PICK f \in [1 .. n -> Seq(S)] : Flattens(f, s, n)
    BY <1>3, <2>1
  <2>3. \A i \in 1 .. n + 1 : i \in 1 .. n \/ i = n + 1
    OBVIOUS
  <2> DEFINE new == IF n = 0 THEN s[1] ELSE f[n] \o s[n + 1]
             g == [i \in 1 .. n + 1 |-> IF i = n + 1 THEN new ELSE f[i]]
  <2>4. new \in Seq(S)
    <3>1. s[n + 1] \in Seq(S)
      BY <1>1
    <3>2. n # 0 => f[n] \in Seq(S)
      OBVIOUS
    <3> QED
      BY <3>1, <3>2, ConcatProperties
  <2>5. g \in [1 .. n + 1 -> Seq(S)]
    <3> HIDE DEF new
    <3> QED
      BY <2>3, <2>4
  <2>6. Flattens(g, s, n + 1)
    <3>1. ASSUME NEW i \in 1 .. n
          PROVE  /\ g[i] = f[i]
                 /\ i > 1 => g[i - 1] = f[i - 1]
      <4> HIDE DEF new
      <4>1. \A j \in 1 .. n : j \in 1 .. n + 1 /\ j # n + 1
        OBVIOUS
      <4>2. \A j \in 1 .. n : g[j] = f[j]
        BY <4>1
      <4>3. i > 1 => i - 1 \in 1 .. n
        OBVIOUS
      <4> QED
        BY <4>2, <4>3
    <3>2. g[n + 1] = new /\ (n # 0 => g[n] = f[n])
      OBVIOUS
    <3> HIDE DEF g
    <3> SUFFICES ASSUME NEW i \in 1 .. n + 1
                 PROVE  (i = 1 => g[i] = s[i]) /\ (i > 1 => g[i] = g[i - 1] \o s[i])
      BY DEF Flattens
    <3>3. CASE i \in 1 .. n
      BY <2>2, <3>1, <3>3 DEF Flattens
    <3>4. CASE i = n + 1
      <4>1. i - 1 = n /\ (i = 1 <=> n = 0) /\ (i > 1 <=> n # 0)
        BY <3>4
      <4> QED
        BY <3>2, <3>4, <4>1
    <3> QED
      BY <2>3, <3>3, <3>4
  <2> HIDE DEF g
  <2> QED
    BY <2>5, <2>6
<1> HIDE DEF P
<1>4. Nat \subseteq P
  BY <1>2, <1>3, NatInduct
<1> QED
  BY <1>1, <1>4 DEF P

\* and only one.
LEMMA FlattenUnique ==
  ASSUME NEW n \in Nat, NEW s, NEW f, NEW g, Flattens(f, s, n), Flattens(g, s, n)
  PROVE  \A i \in 1 .. n : f[i] = g[i]
<1> DEFINE Q == {i \in Nat : i \in 1 .. n => f[i] = g[i]}
<1>1. 0 \in Q
  OBVIOUS
<1>2. ASSUME NEW i \in Nat, i \in Q PROVE i + 1 \in Q
  <2> SUFFICES ASSUME i + 1 \in 1 .. n PROVE f[i + 1] = g[i + 1]
    OBVIOUS
  <2>1. CASE i = 0
    <3>1. i + 1 = 1 /\ 1 \in 1 .. n
      BY <2>1
    <3>2. f[1] = s[1] /\ g[1] = s[1]
      BY <3>1 DEF Flattens
    <3> QED
      BY <3>1, <3>2
  <2>2. CASE i # 0
    <3>1. i \in 1 .. n /\ i + 1 > 1 /\ (i + 1) - 1 = i
      BY <2>2
    <3>2. f[i] = g[i]
      BY <1>2, <3>1
    <3>3. f[i + 1] = f[i] \o s[i + 1] /\ g[i + 1] = g[i] \o s[i + 1]
      BY <3>1 DEF Flattens
    <3> QED
      BY <3>2, <3>3
  <2> QED
    BY <2>1, <2>2
<1> HIDE DEF Q
<1>3. Nat \subseteq Q
  BY <1>1, <1>2, NatInduct
<1> QED
  BY <1>3 DEF Q

\* The recursive function that FlattenSeq is defined by.
LEMMA FlattenUnfold ==
  ASSUME NEW S, NEW s \in Seq(Seq(S)), Len(s) # 0
  PROVE  \E f \in [1 .. Len(s) -> Seq(S)] :
           Flattens(f, s, Len(s)) /\ FlattenSeq(s) = f[Len(s)]
<1> DEFINE Iter(f) ==
      f = [i \in 1 .. Len(s) |-> IF i = 1 THEN s[i] ELSE f[i - 1] \o s[i]]
<1>1. PICK f \in [1 .. Len(s) -> Seq(S)] : Flattens(f, s, Len(s))
  BY FlattenExists
<1>2. Len(s) \in Nat
  OBVIOUS
<1>3. Iter(f)
  <2>1. ASSUME NEW i \in 1 .. Len(s)
        PROVE  f[i] = IF i = 1 THEN s[i] ELSE f[i - 1] \o s[i]
    <3>1. i = 1 \/ i > 1
      BY <1>2
    <3> QED
      BY <1>1, <3>1 DEF Flattens
  <2> QED
    BY <2>1
<1>4. ASSUME NEW h, Iter(h) PROVE h = f
  <2>1. Flattens(h, s, Len(s))
    <3>1. ASSUME NEW i \in 1 .. Len(s)
          PROVE  h[i] = IF i = 1 THEN s[i] ELSE h[i - 1] \o s[i]
      BY <1>4
    <3>2. \A i \in 1 .. Len(s) : i > 1 => i # 1
      BY <1>2
    <3> QED
      BY <3>1, <3>2 DEF Flattens
  <2>2. \A i \in 1 .. Len(s) : h[i] = f[i]
    BY <1>1, <1>2, <2>1, FlattenUnique
  <2>3. DOMAIN h = 1 .. Len(s) /\ h = [i \in DOMAIN h |-> h[i]]
    BY <1>4
  <2> QED
    BY <2>2, <2>3
<1>5. FlattenSeq(s) = (CHOOSE h : Iter(h))[Len(s)]
  BY DEF FlattenSeq
<1> HIDE DEF Iter
<1>6. (CHOOSE h : Iter(h)) = f
  BY <1>3, <1>4
<1> QED
  BY <1>1, <1>5, <1>6

\* What the sequences of s up to n hold together, and each of them once.
Gathered(s, n) == UNION {ToSet(s[i]) : i \in 1 .. n}

Separate(s) ==
  /\ \A i \in DOMAIN s : IsInjective(s[i])
  /\ \A i, j \in DOMAIN s : i # j => ToSet(s[i]) \cap ToSet(s[j]) = {}

\* A flattened sequence holds what its parts hold, and each element once if they do.
LEMMA SetOfFlat ==
  ASSUME NEW S, NEW s \in Seq(Seq(S))
  PROVE  /\ FlattenSeq(s) \in Seq(S)
         /\ ToSet(FlattenSeq(s)) = UNION {ToSet(s[i]) : i \in DOMAIN s}
         /\ Separate(s) => IsInjective(FlattenSeq(s))
<1>1. Len(s) \in Nat /\ DOMAIN s = 1 .. Len(s) /\ \A i \in 1 .. Len(s) : s[i] \in Seq(S)
  OBVIOUS
<1>2. CASE Len(s) = 0
  <2>1. FlattenSeq(s) = s /\ s = <<>>
    BY <1>1, <1>2, EmptySeq DEF FlattenSeq
  <2> QED
    BY <2>1 DEF ToSet, IsInjective
<1>3. CASE Len(s) # 0
  <2>1. PICK f \in [1 .. Len(s) -> Seq(S)] :
          Flattens(f, s, Len(s)) /\ FlattenSeq(s) = f[Len(s)]
    BY <1>3, FlattenUnfold
  <2> DEFINE Good(n) == /\ ToSet(f[n]) = Gathered(s, n)
                        /\ Separate(s) => IsInjective(f[n])
             P == {n \in Nat : n \in 1 .. Len(s) => Good(n)}
  <2>2. 0 \in P
    OBVIOUS
  <2>3. ASSUME NEW n \in Nat, n \in P PROVE n + 1 \in P
    <3> SUFFICES ASSUME n + 1 \in 1 .. Len(s) PROVE Good(n + 1)
      OBVIOUS
    <3>1. Gathered(s, n + 1) = Gathered(s, n) \cup ToSet(s[n + 1])
      <4>1. 1 .. n + 1 = (1 .. n) \cup {n + 1}
        OBVIOUS
      <4> QED
        BY <4>1 DEF Gathered
    <3>2. CASE n = 0
      <4>1. f[n + 1] = s[n + 1] /\ Gathered(s, n) = {}
        <5>1. n + 1 = 1 /\ 1 .. n = {}
          BY <3>2
        <5> QED
          BY <2>1, <5>1 DEF Flattens, Gathered
      <4> QED
        BY <1>1, <3>1, <4>1 DEF Separate
    <3>3. CASE n # 0
      <4>1. n \in 1 .. Len(s) /\ n + 1 > 1 /\ (n + 1) - 1 = n
        BY <1>1, <3>3
      <4>2. f[n + 1] = f[n] \o s[n + 1] /\ f[n] \in Seq(S) /\ s[n + 1] \in Seq(S)
        BY <1>1, <2>1, <4>1 DEF Flattens
      <4>3. ToSet(f[n]) = Gathered(s, n) /\ (Separate(s) => IsInjective(f[n]))
        BY <2>3, <4>1
      <4>4. Separate(s) => Gathered(s, n) \cap ToSet(s[n + 1]) = {}
        <5>1. \A i \in 1 .. n : i \in DOMAIN s /\ i # n + 1
          BY <1>1
        <5>2. n + 1 \in DOMAIN s
          BY <1>1
        <5> QED
          BY <5>1, <5>2 DEF Gathered, Separate
      <4>5. Separate(s) => IsInjective(s[n + 1])
        BY <1>1 DEF Separate
      <4>6. /\ ToSet(f[n] \o s[n + 1]) = ToSet(f[n]) \cup ToSet(s[n + 1])
            /\ IsInjective(f[n]) /\ IsInjective(s[n + 1]) /\ ToSet(f[n]) \cap ToSet(s[n + 1]) = {}
                 => IsInjective(f[n] \o s[n + 1])
        BY <4>2, SetOfConcat
      <4> QED
        BY <3>1, <4>2, <4>3, <4>4, <4>5, <4>6
    <3> QED
      BY <3>2, <3>3
  <2> HIDE DEF P
  <2>4. Nat \subseteq P
    BY <2>2, <2>3, NatInduct
  <2>5. Len(s) \in 1 .. Len(s) /\ Len(s) \in P
    BY <1>1, <1>3, <2>4
  <2>6. ToSet(f[Len(s)]) = Gathered(s, Len(s)) /\ (Separate(s) => IsInjective(f[Len(s)]))
    BY <2>5 DEF P
  <2>7. f[Len(s)] \in Seq(S)
    BY <2>5
  <2> QED
    BY <1>1, <2>1, <2>6, <2>7 DEF Gathered
<1> QED
  BY <1>1, <1>2, <1>3

---------------------------------------------------------------------------------
(* Recursive functions. *)

\* One by one, a fold takes the elements of a set in the order that ch chooses.
FoldOver(g, S, base, ch, step) ==
  \A T \in SUBSET S : g[T] = IF T = {} THEN base ELSE step[<<ch[T], g[T \ {ch[T]}]>>]

Chooses(ch, S) == \A T \in SUBSET S : T # {} => ch[T] \in T
StaysIn(V, S, step) == \A x \in S, v \in V : step[<<x, v>>] \in V

\* A fold over a finite set exists, and what it computes stays in V.
LEMMA FoldExists ==
  ASSUME NEW S, IsFiniteSet(S), NEW V, NEW base, base \in V,
         NEW ch, Chooses(ch, S), NEW step, StaysIn(V, S, step)
  PROVE  \E g \in [SUBSET S -> V] : FoldOver(g, S, base, ch, step)
<1> USE DEF Chooses, StaysIn
<1> DEFINE Fam(n) == {T \in SUBSET S : Cardinality(T) <= n}
           Folds(g, n) == \A T \in Fam(n) :
             g[T] = IF T = {} THEN base ELSE step[<<ch[T], g[T \ {ch[T]}]>>]
           P == {n \in Nat : \E g \in [Fam(n) -> V] : Folds(g, n)}
<1>1. \A T \in SUBSET S : IsFiniteSet(T) /\ Cardinality(T) \in Nat
  BY FS_Subset, FS_CardinalityType
<1>2. \A n \in Nat : \A T \in Fam(n + 1) : T # {} =>
        ch[T] \in S /\ T \ {ch[T]} \in Fam(n)
  <2> SUFFICES ASSUME NEW n \in Nat, NEW T \in SUBSET S, Cardinality(T) <= n + 1, T # {}
               PROVE  ch[T] \in S /\ Cardinality(T \ {ch[T]}) <= n
    OBVIOUS
  <2>1. ch[T] \in T
    OBVIOUS
  <2>2. Cardinality(T \ {ch[T]}) = Cardinality(T) - 1
    BY <1>1, <2>1, FS_RemoveElement
  <2> QED
    BY <1>1, <2>1, <2>2
<1>3. 0 \in P
  <2>1. \A T \in Fam(0) : T = {}
    BY <1>1, FS_EmptySet
  <2>2. [T \in Fam(0) |-> base] \in [Fam(0) -> V]
    OBVIOUS
  <2>3. Folds([T \in Fam(0) |-> base], 0)
    BY <2>1
  <2> QED
    BY <2>2, <2>3
<1>4. ASSUME NEW n \in Nat, n \in P PROVE n + 1 \in P
  <2>1. PICK g \in [Fam(n) -> V] : Folds(g, n)
    BY <1>4
  <2> DEFINE h == [T \in Fam(n + 1) |->
               IF T = {} THEN base ELSE step[<<ch[T], g[T \ {ch[T]}]>>]]
  <2>2. h \in [Fam(n + 1) -> V]
    <3>1. ASSUME NEW T \in Fam(n + 1), T # {} PROVE step[<<ch[T], g[T \ {ch[T]}]>>] \in V
      <4>1. ch[T] \in S /\ g[T \ {ch[T]}] \in V
        BY <1>2, <3>1
      <4> QED
        BY <4>1
    <3> QED
      BY <3>1
  <2>3. \A T \in Fam(n) : T \in Fam(n + 1) /\ h[T] = g[T]
    BY <1>1, <2>1
  <2>4. Folds(h, n + 1)
    <3> SUFFICES ASSUME NEW T \in Fam(n + 1), T # {}
                 PROVE  h[T] = step[<<ch[T], h[T \ {ch[T]}]>>]
      OBVIOUS
    <3>1. T \ {ch[T]} \in Fam(n)
      BY <1>2
    <3>2. h[T \ {ch[T]}] = g[T \ {ch[T]}]
      BY <2>3, <3>1
    <3> QED
      BY <3>2
  <2> HIDE DEF h, Fam, Folds
  <2>5. \E k \in [Fam(n + 1) -> V] : Folds(k, n + 1)
    BY <2>2, <2>4
  <2> QED
    BY <2>5
<1> HIDE DEF P
<1>5. Nat \subseteq P
  BY <1>3, <1>4, NatInduct
<1>6. Cardinality(S) \in Nat /\ Fam(Cardinality(S)) = SUBSET S
  BY <1>1, FS_Subset
<1>7. PICK g \in [Fam(Cardinality(S)) -> V] : Folds(g, Cardinality(S))
  BY <1>5, <1>6 DEF P
<1>8. g \in [SUBSET S -> V] /\ FoldOver(g, S, base, ch, step)
  BY <1>6, <1>7 DEF FoldOver
<1> QED
  BY <1>8

---------------------------------------------------------------------------------
(* Sums. *)

Terms(g, f, S) == \A T \in SUBSET S :
  g[T] = IF T = {} THEN 0 ELSE f[CHOOSE x \in T : TRUE] + g[T \ {CHOOSE x \in T : TRUE}]

\* The recursive function that SumFunctionOnSet is defined by.
LEMMA SumUnfold ==
  ASSUME NEW f, NEW S, IsFiniteSet(S), \A x \in S : f[x] \in Int
  PROVE  \E g \in [SUBSET S -> Int] : Terms(g, f, S) /\ SumFunctionOnSet(f, S) = g[S]
<1> DEFINE ch == [T \in SUBSET S |-> CHOOSE x \in T : TRUE]
           step == [p \in S \X Int |-> f[p[1]] + p[2]]
           Iter(g) == g = [T \in SUBSET S |-> IF T = {} THEN 0
                             ELSE f[CHOOSE x \in T : TRUE] + g[T \ {CHOOSE x \in T : TRUE}]]
<1>1. \A T \in SUBSET S : T # {} => (CHOOSE x \in T : TRUE) \in T
  OBVIOUS
<1>2. PICK g \in [SUBSET S -> Int] : FoldOver(g, S, 0, ch, step)
  <2>1. Chooses(ch, S)
    BY <1>1 DEF Chooses
  <2>2. StaysIn(Int, S, step)
    BY DEF StaysIn
  <2>3. 0 \in Int
    OBVIOUS
  <2> HIDE DEF ch, step
  <2> QED
    BY <2>1, <2>2, <2>3, FoldExists
<1>3. Terms(g, f, S)
  <2> SUFFICES ASSUME NEW T \in SUBSET S, T # {}
               PROVE  g[T] = f[CHOOSE x \in T : TRUE] + g[T \ {CHOOSE x \in T : TRUE}]
    BY <1>2 DEF Terms, FoldOver
  <2>1. (CHOOSE x \in T : TRUE) \in S /\ g[T \ {CHOOSE x \in T : TRUE}] \in Int
    BY <1>1
  <2>2. g[T] = step[<<ch[T], g[T \ {ch[T]}]>>] /\ ch[T] = CHOOSE x \in T : TRUE
    BY <1>2 DEF FoldOver
  <2> QED
    BY <2>1, <2>2
<1>4. Iter(g)
  BY <1>3 DEF Terms
<1>5. ASSUME NEW h, Iter(h) PROVE h = g
  <2> DEFINE Q == {T \in SUBSET S : h[T] = g[T]}
  <2>1. {} \in Q
    BY <1>4, <1>5
  <2>2. ASSUME NEW T \in SUBSET S, T # {}, \A x \in T : T \ {x} \in Q PROVE T \in Q
    <3> DEFINE c == CHOOSE x \in T : TRUE
    <3>1. h[T \ {c}] = g[T \ {c}]
      BY <1>1, <2>2
    <3>2. h[T] = f[c] + h[T \ {c}]
      BY <1>5, <2>2
    <3>3. g[T] = f[c] + g[T \ {c}]
      BY <1>4, <2>2
    <3> HIDE DEF c
    <3> QED
      BY <3>1, <3>2, <3>3
  <2> HIDE DEF Q
  <2>3. SUBSET S \subseteq Q
    BY <2>1, <2>2, SetInduct
  <2> QED
    BY <1>4, <1>5, <2>3 DEF Q
<1>6. SumFunctionOnSet(f, S) = (CHOOSE h : Iter(h))[S]
  BY DEF SumFunctionOnSet, FoldFunctionOnSet, MapThenFoldSet
<1> HIDE DEF Iter
<1>7. (CHOOSE h : Iter(h)) = g
  BY <1>4, <1>5
<1> QED
  BY <1>3, <1>6, <1>7

\* Sums of the same terms are the same.
LEMMA SameTerms ==
  ASSUME NEW e, NEW f, NEW S, IsFiniteSet(S), NEW T \in SUBSET S, \A x \in T : e[x] = f[x],
         NEW g, NEW h, Terms(g, e, S), Terms(h, f, T)
  PROVE  g[T] = h[T]
<1> DEFINE Q == {U \in SUBSET T : g[U] = h[U]}
<1>1. {} \in Q
  BY DEF Terms
<1>2. ASSUME NEW U \in SUBSET T, U # {}, \A x \in U : U \ {x} \in Q PROVE U \in Q
  <2> DEFINE c == CHOOSE x \in U : TRUE
  <2>1. c \in U /\ U \in SUBSET S
    BY <1>2
  <2>2. g[U] = e[c] + g[U \ {c}] /\ h[U] = f[c] + h[U \ {c}]
    BY <1>2, <2>1 DEF Terms
  <2>3. g[U \ {c}] = h[U \ {c}] /\ e[c] = f[c]
    BY <1>2, <2>1
  <2> HIDE DEF c
  <2> QED
    BY <2>2, <2>3
<1> HIDE DEF Q
<1>3. SUBSET T \subseteq Q
  BY <1>1, <1>2, FS_Subset, SetInduct
<1> QED
  BY <1>3 DEF Q

AnyOrder(g, f, S) == \A T \in SUBSET S : \A x \in T : g[T] = f[x] + g[T \ {x}]

\* Any term may be taken out first.
LEMMA AnyTerm ==
  ASSUME NEW f, NEW S, IsFiniteSet(S), \A x \in S : f[x] \in Int,
         NEW g \in [SUBSET S -> Int], Terms(g, f, S)
  PROVE  AnyOrder(g, f, S)
<1> DEFINE Q == {T \in SUBSET S : \A x \in T : g[T] = f[x] + g[T \ {x}]}
<1>1. {} \in Q
  OBVIOUS
<1>2. ASSUME NEW T \in SUBSET S, T # {}, \A x \in T : T \ {x} \in Q PROVE T \in Q
  <2> SUFFICES ASSUME NEW x \in T PROVE g[T] = f[x] + g[T \ {x}]
    OBVIOUS
  <2> DEFINE c == CHOOSE y \in T : TRUE
  <2>1. c \in T
    BY <1>2
  <2>2. g[T] = f[c] + g[T \ {c}]
    BY <1>2 DEF Terms
  <2> HIDE DEF c
  <2>3. CASE x = c
    BY <2>2, <2>3
  <2>4. CASE x # c
    <3>1. g[T \ {c}] = f[x] + g[(T \ {c}) \ {x}]
      BY <1>2, <2>1, <2>4
    <3>2. g[T \ {x}] = f[c] + g[(T \ {x}) \ {c}]
      BY <1>2, <2>1, <2>4
    <3>3. (T \ {c}) \ {x} = (T \ {x}) \ {c}
      OBVIOUS
    <3>4. f[x] \in Int /\ f[c] \in Int /\ g[(T \ {x}) \ {c}] \in Int
      BY <2>1
    <3> DEFINE r == g[(T \ {x}) \ {c}]
    <3>5. /\ g[T] = f[c] + g[T \ {c}] /\ g[T \ {c}] = f[x] + r /\ g[T \ {x}] = f[c] + r
          /\ r \in Int
      BY <2>2, <3>1, <3>2, <3>3, <3>4
    <3> HIDE DEF r
    <3> QED
      BY <3>4, <3>5
  <2> QED
    BY <2>3, <2>4
<1> HIDE DEF Q
<1>3. SUBSET S \subseteq Q
  BY <1>1, <1>2, SetInduct
<1> QED
  BY <1>3 DEF Q, AnyOrder

\* A sum of integers, the sum over no terms, and the sum without one of its terms.
LEMMA SumOnSet ==
  ASSUME NEW f, NEW S, IsFiniteSet(S), \A x \in S : f[x] \in Int
  PROVE  /\ SumFunctionOnSet(f, S) \in Int
         /\ S = {} => SumFunctionOnSet(f, S) = 0
         /\ \A x \in S : SumFunctionOnSet(f, S) = f[x] + SumFunctionOnSet(f, S \ {x})
<1>1. PICK g \in [SUBSET S -> Int] : Terms(g, f, S) /\ SumFunctionOnSet(f, S) = g[S]
  BY SumUnfold
<1>2. g[S] \in Int /\ (S = {} => g[S] = 0)
  BY <1>1 DEF Terms
<1>3. ASSUME NEW x \in S PROVE SumFunctionOnSet(f, S) = f[x] + SumFunctionOnSet(f, S \ {x})
  <2>1. IsFiniteSet(S \ {x}) /\ \A y \in S \ {x} : f[y] \in Int
    BY FS_RemoveElement
  <2>2. PICK h \in [SUBSET (S \ {x}) -> Int] :
          Terms(h, f, S \ {x}) /\ SumFunctionOnSet(f, S \ {x}) = h[S \ {x}]
    BY <2>1, SumUnfold
  <2>3. g[S \ {x}] = h[S \ {x}]
    BY <1>1, <2>2, SameTerms
  <2>4. AnyOrder(g, f, S)
    BY <1>1, AnyTerm
  <2>5. g[S] = f[x] + g[S \ {x}]
    BY <2>4 DEF AnyOrder
  <2> QED
    BY <1>1, <2>2, <2>3, <2>5
<1> QED
  BY <1>1, <1>2, <1>3

\* A sum depends on its terms alone.
LEMMA SumSame ==
  ASSUME NEW e, NEW f, NEW S, IsFiniteSet(S), \A x \in S : e[x] \in Int /\ e[x] = f[x]
  PROVE  SumFunctionOnSet(e, S) = SumFunctionOnSet(f, S)
<1>1. PICK g \in [SUBSET S -> Int] : Terms(g, e, S) /\ SumFunctionOnSet(e, S) = g[S]
  BY SumUnfold
<1>2. PICK h \in [SUBSET S -> Int] : Terms(h, f, S) /\ SumFunctionOnSet(f, S) = h[S]
  BY SumUnfold
<1>3. S \in SUBSET S /\ \A x \in S : e[x] = f[x]
  OBVIOUS
<1>4. g[S] = h[S]
  BY <1>1, <1>2, <1>3, SameTerms
<1> QED
  BY <1>1, <1>2, <1>4

\* A function on 1 .. n + 1 sums to the sum of its first n values and the last one.
LEMMA SumExtended ==
  ASSUME NEW n \in Nat, NEW e, NEW f, DOMAIN e = 1 .. n, DOMAIN f = 1 .. n + 1,
         \A i \in 1 .. n + 1 : f[i] \in Int, \A i \in 1 .. n : e[i] = f[i]
  PROVE  SumFunction(f) = SumFunction(e) + f[n + 1] /\ SumFunction(e) \in Int
<1>1. IsFiniteSet(1 .. n) /\ IsFiniteSet(1 .. n + 1) /\ (1 .. n + 1) \ {n + 1} = 1 .. n
  <2>1. 1 \in Int /\ n \in Int /\ n + 1 \in Int
    OBVIOUS
  <2>2. (1 .. n + 1) \ {n + 1} = 1 .. n
    OBVIOUS
  <2> QED
    BY <2>1, <2>2, FS_Interval
<1>2. n + 1 \in 1 .. n + 1 /\ \A i \in 1 .. n : i \in 1 .. n + 1 /\ e[i] \in Int
  OBVIOUS
<1>3. SumFunctionOnSet(f, 1 .. n + 1) = f[n + 1] + SumFunctionOnSet(f, 1 .. n)
  BY <1>1, <1>2, SumOnSet
<1>4. SumFunctionOnSet(e, 1 .. n) = SumFunctionOnSet(f, 1 .. n)
  BY <1>1, <1>2, SumSame
<1>5. SumFunctionOnSet(e, 1 .. n) \in Int
  BY <1>1, <1>2, SumOnSet
<1> QED
  BY <1>2, <1>3, <1>4, <1>5 DEF SumFunction

\* Nothing sums to 0.
LEMMA SumEmpty ==
  ASSUME NEW f, DOMAIN f = {}
  PROVE  SumFunction(f) = 0
BY FS_EmptySet, SumOnSet DEF SumFunction

\* A sum of smaller terms is smaller.
LEMMA SumNotMore ==
  ASSUME NEW e, NEW f, NEW S, IsFiniteSet(S), \A x \in S : e[x] \in Int /\ f[x] \in Int /\ e[x] <= f[x]
  PROVE  SumFunctionOnSet(e, S) <= SumFunctionOnSet(f, S)
<1> DEFINE Q == {T \in SUBSET S : SumFunctionOnSet(e, T) <= SumFunctionOnSet(f, T)}
<1>1. ASSUME NEW T \in SUBSET S
      PROVE  /\ SumFunctionOnSet(e, T) \in Int /\ SumFunctionOnSet(f, T) \in Int
             /\ T = {} => SumFunctionOnSet(e, T) = 0 /\ SumFunctionOnSet(f, T) = 0
             /\ \A x \in T : /\ SumFunctionOnSet(e, T) = e[x] + SumFunctionOnSet(e, T \ {x})
                             /\ SumFunctionOnSet(f, T) = f[x] + SumFunctionOnSet(f, T \ {x})
  <2>1. IsFiniteSet(T) /\ \A x \in T : e[x] \in Int /\ f[x] \in Int
    BY FS_Subset
  <2> QED
    BY <2>1, SumOnSet
<1>2. {} \in Q
  <2>1. {} \in SUBSET S
    OBVIOUS
  <2>2. SumFunctionOnSet(e, {}) = 0 /\ SumFunctionOnSet(f, {}) = 0
    BY <1>1, <2>1
  <2> QED
    BY <2>1, <2>2
<1>3. ASSUME NEW T \in SUBSET S, T # {}, \A x \in T : T \ {x} \in Q PROVE T \in Q
  <2>1. PICK x \in T : TRUE
    BY <1>3
  <2> DEFINE a == SumFunctionOnSet(e, T \ {x})
             b == SumFunctionOnSet(f, T \ {x})
  <2>2. T \ {x} \in SUBSET S /\ a <= b
    BY <1>3, <2>1
  <2>3. a \in Int /\ b \in Int
    BY <1>1, <2>2
  <2>4. SumFunctionOnSet(e, T) = e[x] + a /\ SumFunctionOnSet(f, T) = f[x] + b
    BY <1>1, <2>1
  <2>5. e[x] \in Int /\ f[x] \in Int /\ e[x] <= f[x]
    BY <2>1
  <2> HIDE DEF a, b
  <2>6. e[x] + a <= f[x] + b
    BY <2>2, <2>3, <2>5
  <2> QED
    BY <2>4, <2>6
<1> HIDE DEF Q
<1>4. SUBSET S \subseteq Q
  BY <1>2, <1>3, SetInduct
<1> QED
  BY <1>4 DEF Q

\* If one term grows by at most one, so does the sum.
LEMMA SumOneMore ==
  ASSUME NEW e, NEW f, NEW S, IsFiniteSet(S), NEW y \in S, \A x \in S : e[x] \in Int /\ f[x] \in Int,
         \A x \in S \ {y} : e[x] <= f[x], e[y] <= f[y] + 1
  PROVE  SumFunctionOnSet(e, S) <= SumFunctionOnSet(f, S) + 1
<1>1. IsFiniteSet(S \ {y})
  BY FS_RemoveElement
<1> DEFINE a == SumFunctionOnSet(e, S \ {y})
           b == SumFunctionOnSet(f, S \ {y})
<1>2. a <= b
  BY <1>1, SumNotMore
<1>3. a \in Int /\ b \in Int
  BY <1>1, SumOnSet
<1>4. SumFunctionOnSet(e, S) = e[y] + a /\ SumFunctionOnSet(f, S) = f[y] + b
  BY SumOnSet
<1> HIDE DEF a, b
<1>5. e[y] + a <= (f[y] + b) + 1
  BY <1>2, <1>3
<1> QED
  BY <1>4, <1>5

\* The sum over two sets without a common element.
LEMMA SumUnion ==
  ASSUME NEW f, NEW A, IsFiniteSet(A), NEW B, IsFiniteSet(B), A \cap B = {},
         \A x \in A \cup B : f[x] \in Int
  PROVE  SumFunctionOnSet(f, A \cup B) = SumFunctionOnSet(f, A) + SumFunctionOnSet(f, B)
<1> DEFINE a == SumFunctionOnSet(f, A)
           Q == {U \in SUBSET B : SumFunctionOnSet(f, A \cup U) = a + SumFunctionOnSet(f, U)}
<1>1. ASSUME NEW U \in SUBSET B
      PROVE  /\ IsFiniteSet(U) /\ IsFiniteSet(A \cup U)
             /\ \A x \in U : f[x] \in Int /\ x \notin A
             /\ \A x \in A \cup U : f[x] \in Int
  <2>1. IsFiniteSet(U)
    BY FS_Subset
  <2>2. IsFiniteSet(A \cup U)
    BY <2>1, FS_Union
  <2> QED
    BY <2>1, <2>2
<1>2. a \in Int
  BY SumOnSet
<1>3. {} \in Q
  <2>1. SumFunctionOnSet(f, {}) = 0
    BY FS_EmptySet, SumOnSet
  <2>2. A \cup {} = A
    OBVIOUS
  <2> HIDE DEF a
  <2>3. a + 0 = a
    BY <1>2
  <2> QED
    BY <2>1, <2>2, <2>3 DEF a
<1>4. ASSUME NEW U \in SUBSET B, U # {}, \A x \in U : U \ {x} \in Q PROVE U \in Q
  <2>1. PICK x \in U : TRUE
    BY <1>4
  <2> DEFINE V == U \ {x}
             b == SumFunctionOnSet(f, V)
  <2>2. V \in SUBSET B /\ SumFunctionOnSet(f, A \cup V) = a + b
    BY <1>4, <2>1
  <2>3. (A \cup U) \ {x} = A \cup V /\ x \in A \cup U
    BY <1>1, <2>1
  <2>4. b \in Int /\ f[x] \in Int
    BY <1>1, <2>1, <2>2, SumOnSet
  <2>5. SumFunctionOnSet(f, A \cup U) = f[x] + SumFunctionOnSet(f, A \cup V)
    <3>1. SumFunctionOnSet(f, A \cup U) = f[x] + SumFunctionOnSet(f, (A \cup U) \ {x})
      BY <1>1, <2>3, SumOnSet
    <3> QED
      BY <2>3, <3>1
  <2>6. SumFunctionOnSet(f, U) = f[x] + b
    BY <1>1, <2>1, SumOnSet
  <2> HIDE DEF a, b, V
  <2>7. SumFunctionOnSet(f, A \cup U) = a + SumFunctionOnSet(f, U)
    BY <1>2, <2>2, <2>4, <2>5, <2>6
  <2> QED
    BY <2>7 DEF a
<1> HIDE DEF Q
<1>5. SUBSET B \subseteq Q
  BY <1>3, <1>4, SetInduct
<1>6. B \in Q
  BY <1>5
<1> QED
  BY <1>6 DEF Q, a

\* The sum over what a function leads to, each once.
LEMMA SumMoved ==
  ASSUME NEW e, NEW f, NEW p, NEW S, IsFiniteSet(S),
         \A x, y \in S : p[x] = p[y] => x = y,
         \A x \in S : f[p[x]] \in Int /\ e[x] = f[p[x]]
  PROVE  SumFunctionOnSet(e, S) = SumFunctionOnSet(f, {p[x] : x \in S})
<1> DEFINE Im(U) == {p[x] : x \in U}
           Q == {U \in SUBSET S : SumFunctionOnSet(e, U) = SumFunctionOnSet(f, Im(U))}
<1>1. ASSUME NEW U \in SUBSET S
      PROVE  /\ IsFiniteSet(U) /\ IsFiniteSet(Im(U))
             /\ \A x \in U : e[x] \in Int
             /\ \A y \in Im(U) : f[y] \in Int
  <2>1. IsFiniteSet(U)
    BY FS_Subset
  <2>2. IsFiniteSet(Im(U))
    <3> DEFINE g == [x \in U |-> p[x]]
    <3>1. DOMAIN g = U /\ {g[x] : x \in U} = Im(U)
      OBVIOUS
    <3> HIDE DEF g
    <3>2. IsFiniteSet({g[x] : x \in U})
      BY <2>1, <3>1, FiniteImage
    <3> QED
      BY <3>1, <3>2
  <2> QED
    BY <2>1, <2>2
<1>2. {} \in Q
  <2>1. Im({}) = {}
    OBVIOUS
  <2>2. SumFunctionOnSet(e, {}) = 0 /\ SumFunctionOnSet(f, {}) = 0
    BY FS_EmptySet, SumOnSet
  <2> QED
    BY <2>1, <2>2
<1>3. ASSUME NEW U \in SUBSET S, U # {}, \A x \in U : U \ {x} \in Q PROVE U \in Q
  <2>1. PICK x \in U : TRUE
    BY <1>3
  <2> DEFINE V == U \ {x}
  <2>2. V \in SUBSET S /\ SumFunctionOnSet(e, V) = SumFunctionOnSet(f, Im(V))
    BY <1>3, <2>1
  <2>3. Im(U) \ {p[x]} = Im(V) /\ p[x] \in Im(U)
    BY <2>1
  <2>4. e[x] = f[p[x]]
    BY <2>1
  <2>5. SumFunctionOnSet(e, U) = e[x] + SumFunctionOnSet(e, V)
    <3>1. IsFiniteSet(U) /\ \A y \in U : e[y] \in Int
      BY <1>1
    <3> QED
      BY <2>1, <3>1, SumOnSet
  <2>6. SumFunctionOnSet(f, Im(U)) = f[p[x]] + SumFunctionOnSet(f, Im(V))
    <3>1. /\ IsFiniteSet(Im(U)) /\ \A y \in Im(U) : f[y] \in Int
      BY <1>1
    <3> HIDE DEF Im
    <3>2. SumFunctionOnSet(f, Im(U)) = f[p[x]] + SumFunctionOnSet(f, Im(U) \ {p[x]})
      BY <2>3, <3>1, SumOnSet
    <3> QED
      BY <2>3, <3>2
  <2> HIDE DEF V, Im
  <2>7. SumFunctionOnSet(e, U) = SumFunctionOnSet(f, Im(U))
    BY <2>2, <2>4, <2>5, <2>6
  <2> QED
    BY <2>7
<1> HIDE DEF Q
<1>4. SUBSET S \subseteq Q
  BY <1>2, <1>3, SetInduct
<1>5. S \in Q
  BY <1>4
<1> QED
  BY <1>5 DEF Q

\* A part of S with a given key.
Part(key, S, k) == {x \in S : key[x] = k}

\* A sum is shared out to the keys of its terms.
LEMMA SumParts ==
  ASSUME NEW f, NEW key, NEW S, IsFiniteSet(S), \A x \in S : f[x] \in Int,
         NEW K, IsFiniteSet(K), \A x \in S : key[x] \in K,
         NEW g, \A k \in K : g[k] = SumFunctionOnSet(f, Part(key, S, k))
  PROVE  SumFunctionOnSet(g, K) = SumFunctionOnSet(f, S)
<1> DEFINE Of(L) == {x \in S : key[x] \in L}
           Q == {L \in SUBSET K : SumFunctionOnSet(g, L) = SumFunctionOnSet(f, Of(L))}
<1>1. ASSUME NEW T \in SUBSET S
      PROVE  IsFiniteSet(T) /\ SumFunctionOnSet(f, T) \in Int /\ (\A x \in T : f[x] \in Int)
  <2>1. IsFiniteSet(T) /\ \A x \in T : f[x] \in Int
    BY FS_Subset
  <2> QED
    BY <2>1, SumOnSet
<1>2. \A k \in K : g[k] \in Int
  <2>1. \A k \in K : Part(key, S, k) \in SUBSET S
    BY DEF Part
  <2> QED
    BY <1>1, <2>1
<1>3. {} \in Q
  <2>1. Of({}) = {}
    OBVIOUS
  <2>2. SumFunctionOnSet(g, {}) = 0 /\ SumFunctionOnSet(f, {}) = 0
    BY FS_EmptySet, SumOnSet
  <2> QED
    BY <2>1, <2>2
<1>4. ASSUME NEW L \in SUBSET K, L # {}, \A k \in L : L \ {k} \in Q PROVE L \in Q
  <2>1. PICK k \in L : TRUE
    BY <1>4
  <2> DEFINE M == L \ {k}
             A == Part(key, S, k)
  <2>2. M \in SUBSET K /\ SumFunctionOnSet(g, M) = SumFunctionOnSet(f, Of(M))
    BY <1>4, <2>1
  <2>3. Of(L) = A \cup Of(M) /\ A \cap Of(M) = {} /\ A \in SUBSET S /\ Of(M) \in SUBSET S
    BY <2>1 DEF Part
  <2>4. SumFunctionOnSet(g, L) = g[k] + SumFunctionOnSet(g, M)
    <3>1. IsFiniteSet(L) /\ \A l \in L : g[l] \in Int
      BY <1>2, FS_Subset
    <3> QED
      BY <2>1, <3>1, SumOnSet
  <2>5. g[k] = SumFunctionOnSet(f, A)
    BY <2>1
  <2> HIDE DEF A, M, Of
  <2>6. SumFunctionOnSet(f, A \cup Of(M)) = SumFunctionOnSet(f, A) + SumFunctionOnSet(f, Of(M))
    <3>1. /\ IsFiniteSet(A) /\ IsFiniteSet(Of(M))
          /\ \A x \in A \cup Of(M) : f[x] \in Int
      BY <1>1, <2>3
    <3> QED
      BY <2>3, <3>1, SumUnion
  <2>7. SumFunctionOnSet(g, L) = SumFunctionOnSet(f, Of(L))
    BY <2>2, <2>3, <2>4, <2>5, <2>6
  <2> QED
    BY <2>7
<1> HIDE DEF Q
<1>5. SUBSET K \subseteq Q
  BY <1>3, <1>4, SetInduct
<1>6. K \in Q /\ Of(K) = S
  BY <1>5
<1> QED
  BY <1>6 DEF Q

\* As many ones as elements.
LEMMA SumOnes ==
  ASSUME NEW f, NEW S, IsFiniteSet(S), \A x \in S : f[x] = 1
  PROVE  SumFunctionOnSet(f, S) = Cardinality(S)
<1> DEFINE Q == {T \in SUBSET S : SumFunctionOnSet(f, T) = Cardinality(T)}
<1>1. {} \in Q
  <2>1. SumFunctionOnSet(f, {}) = 0 /\ Cardinality({}) = 0
    BY FS_EmptySet, SumOnSet
  <2> QED
    BY <2>1
<1>2. ASSUME NEW T \in SUBSET S, T # {}, \A x \in T : T \ {x} \in Q PROVE T \in Q
  <2>1. PICK x \in T : TRUE
    BY <1>2
  <2>2. SumFunctionOnSet(f, T \ {x}) = Cardinality(T \ {x})
    BY <1>2, <2>1
  <2>3. IsFiniteSet(T) /\ \A y \in T : f[y] \in Int
    BY FS_Subset
  <2>4. SumFunctionOnSet(f, T) = f[x] + SumFunctionOnSet(f, T \ {x}) /\ f[x] = 1
    BY <2>1, <2>3, SumOnSet
  <2>5. Cardinality(T \ {x}) = Cardinality(T) - 1 /\ Cardinality(T) \in Nat
    BY <2>1, <2>3, FS_RemoveElement, FS_CardinalityType
  <2>6. SumFunctionOnSet(f, T) = Cardinality(T)
    BY <2>2, <2>4, <2>5
  <2> QED
    BY <2>6
<1> HIDE DEF Q
<1>3. SUBSET S \subseteq Q
  BY <1>1, <1>2, SetInduct
<1>4. S \in Q
  BY <1>3
<1> QED
  BY <1>4 DEF Q

\* The rest of a sequence, from its element i on.
LEMMA ListFrom ==
  ASSUME NEW S, NEW list \in Seq(S), NEW i \in DOMAIN list
  PROVE  /\ SubSeq(list, i, Len(list)) \in Seq(S)
         /\ DOMAIN SubSeq(list, i, Len(list)) = 1 .. Len(list) - (i - 1)
         /\ 1 \in DOMAIN SubSeq(list, i, Len(list))
         /\ \A j \in 1 .. Len(list) - (i - 1) :
              j + (i - 1) \in DOMAIN list /\ SubSeq(list, i, Len(list))[j] = list[j + (i - 1)]
<1>1. Len(list) \in Nat /\ i \in 1 .. Len(list) /\ \A k \in 1 .. Len(list) : list[k] \in S
  OBVIOUS
<1>2. /\ \A k \in i .. Len(list) : list[k] \in S
      /\ i \in 1 .. Len(list) + 1 /\ Len(list) \in i - 1 .. Len(list)
  BY <1>1
<1>3. /\ SubSeq(list, i, Len(list)) \in Seq(S)
      /\ Len(SubSeq(list, i, Len(list))) = IF i <= Len(list) THEN Len(list) - i + 1 ELSE 0
      /\ \A j \in 1 .. Len(list) - i + 1 : SubSeq(list, i, Len(list))[j] = list[i + j - 1]
  BY <1>1, <1>2, SubSeqProperties
<1>4. \A n \in Nat : \A m \in 1 .. n :
        /\ (IF m <= n THEN n - m + 1 ELSE 0) = n - (m - 1)
        /\ n - m + 1 = n - (m - 1) /\ 1 \in 1 .. n - (m - 1)
        /\ \A j \in 1 .. n - (m - 1) : m + j - 1 = j + (m - 1) /\ j + (m - 1) \in 1 .. n
  OBVIOUS
<1> QED
  BY <1>1, <1>3, <1>4

=================================================================================
