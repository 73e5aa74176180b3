--------------------------- MODULE CollectionLemmas --------------------------
(***************************************************************************)
(* What the helpers on sequences and sets that several components are      *)
(* written with return: RemoveAt and RemoveFirst, by which a record, a     *)
(* callback or a request leaves a list, FlattenSeq, by which the due slots *)
(* of the wheel become one list of expired requests, and MapThenSumSet,    *)
(* the bytes of a set of blocks. Recursion over a collection is proved by  *)
(* the least counterexample.                                               *)
(***************************************************************************)
EXTENDS SequencesExt, TLAPS, SequenceTheorems, FiniteSetTheorems

(* A set of naturals that is not empty has a least element. This stands    *)
(* for induction: the set is that of the counterexamples.                  *)
LEMMA LeastNumber ==
  ASSUME NEW T, T \subseteq Nat, T # {}
  PROVE  \E n \in T : \A m \in T : n <= m
<1>. DEFINE R == OpToRel(<, Nat)
<1>1. IsWellFoundedOn(R, Nat)
  BY NatLessThanWellFounded
<1>2. \A m, n \in Nat : m < n => <<m, n>> \in R
  BY DEF OpToRel
<1>. HIDE DEF R
<1>3. PICK x \in T : \A y \in T : ~ (<<y, x>> \in R)
  BY <1>1, WFMin
<1>4. \A y \in T : x \in Nat /\ y \in Nat /\ ~(y < x)
  BY <1>2, <1>3
<1>. QED  BY <1>4

(* The same, as an induction on the elements of a set of naturals.         *)
LEMMA LeastStep ==
  ASSUME NEW T, T \subseteq Nat, 0 \notin T,
         \A n \in Nat : n \notin T => n + 1 \notin T
  PROVE  T = {}
<1>1. SUFFICES ASSUME T # {} PROVE FALSE
  OBVIOUS
<1>2. PICK n \in T : \A m \in T : n <= m
  BY <1>1, LeastNumber
<1>3. n \in Nat /\ n # 0
  OBVIOUS
<1>4. n - 1 \in Nat /\ (n - 1) + 1 = n /\ ~(n <= n - 1)
  BY <1>3
<1>5. n - 1 \notin T
  BY <1>2, <1>4
<1>6. (n - 1) + 1 \notin T
  BY <1>4, <1>5
<1>. QED  BY <1>4, <1>6

-----------------------------------------------------------------------------
(* The elements of a sequence without repetition are as many as its        *)
(* positions.                                                              *)
LEMMA InjectiveSequence ==
  ASSUME NEW S, NEW q \in Seq(S), IsInjective(q)
  PROVE  IsFiniteSet(ToSet(q)) /\ Cardinality(ToSet(q)) = Len(q)
<1>1. Len(q) \in Nat /\ DOMAIN q = 1..Len(q) /\ q \in [1..Len(q) -> S]
  BY LenProperties
<1>2. IsFiniteSet(1..Len(q)) /\ Cardinality(1..Len(q)) = Len(q)
  BY <1>1, FS_Interval
<1>3. q \in [1..Len(q) -> ToSet(q)]
  BY <1>1 DEF ToSet
<1>4. q \in Bijection(1..Len(q), ToSet(q))
  BY <1>1, <1>3 DEF Bijection, Injection, Surjection, IsInjective, ToSet
<1>5. ExistsBijection(1..Len(q), ToSet(q))
  BY <1>4 DEF ExistsBijection
<1>. QED  BY <1>2, <1>5, FS_Bijection

(* An element put at the end is an element more, and a new one repeats     *)
(* none.                                                                   *)
LEMMA AppendInjectiveSequence ==
  ASSUME NEW S, NEW q \in Seq(S), NEW x \in S
  PROVE  /\ Append(q, x) \in Seq(S)
         /\ ToSet(Append(q, x)) = ToSet(q) \cup {x}
         /\ IsInjective(q) /\ x \notin ToSet(q) => IsInjective(Append(q, x))
<1>. DEFINE r == Append(q, x)
<1>1. Len(q) \in Nat /\ DOMAIN q = 1..Len(q)
  BY LenProperties
<1>2. /\ r \in Seq(S) /\ Len(r) = Len(q) + 1
      /\ \A i \in 1..Len(q) : r[i] = q[i]
      /\ r[Len(q) + 1] = x
  BY AppendProperties
<1>. HIDE DEF r
<1>3. DOMAIN r = DOMAIN q \cup {Len(q) + 1} /\ Len(q) + 1 \notin DOMAIN q
  <2>1. 1..(Len(q) + 1) = (1..Len(q)) \cup {Len(q) + 1} /\ Len(q) + 1 \notin 1..Len(q)
    BY <1>1
  <2>. QED  BY <1>1, <1>2, <2>1, LenProperties
<1>4. ToSet(r) = ToSet(q) \cup {x}
  BY <1>1, <1>2, <1>3 DEF ToSet
<1>5. IsInjective(q) /\ x \notin ToSet(q) => IsInjective(r)
  BY <1>1, <1>2, <1>3 DEF IsInjective, ToSet
<1>. QED  BY <1>2, <1>4, <1>5 DEF r

(* Taking the first element of a sequence without repetition away.         *)
LEMMA TailInjectiveSequence ==
  ASSUME NEW S, NEW q \in Seq(S), q # <<>>, IsInjective(q)
  PROVE  /\ Tail(q) \in Seq(S) /\ IsInjective(Tail(q))
         /\ ToSet(Tail(q)) = ToSet(q) \ {Head(q)}
         /\ Head(q) \in ToSet(q)
<1>1. /\ Tail(q) \in Seq(S) /\ Len(Tail(q)) = Len(q) - 1 /\ Len(q) \in Nat \ {0}
      /\ \A i \in 1..Len(Tail(q)) : Tail(q)[i] = q[i + 1]
  BY HeadTailProperties, EmptySeq
<1>. DEFINE n == Len(q)
            r == Tail(q)
<1>2. DOMAIN q = 1..n /\ DOMAIN r = 1..(n - 1) /\ n \in Nat /\ n >= 1
  BY <1>1, LenProperties
<1>3. Head(q) = q[1]
  OBVIOUS
<1>4. \A i \in 1..(n - 1) : r[i] = q[i + 1]
  BY <1>1
<1>. HIDE DEF n, r
<1>5. /\ 1 \in 1..n
      /\ \A i \in 1..(n - 1) : i + 1 \in 1..n /\ i + 1 # 1
      /\ \A i \in 1..n : i # 1 => i - 1 \in 1..(n - 1) /\ (i - 1) + 1 = i
      /\ \A i, j \in 1..(n - 1) : i + 1 = j + 1 => i = j
  BY <1>2
<1>6. IsInjective(r)
  <2>1. ASSUME NEW i \in 1..(n - 1), NEW j \in 1..(n - 1), r[i] = r[j] PROVE i = j
    <3>1. q[i + 1] = q[j + 1] /\ i + 1 \in 1..n /\ j + 1 \in 1..n
      BY <1>4, <1>5, <2>1
    <3>2. i + 1 = j + 1
      BY <1>2, <3>1 DEF IsInjective
    <3>. QED  BY <1>5, <3>2
  <2>. QED  BY <1>2, <2>1 DEF IsInjective
<1>7. ToSet(r) = ToSet(q) \ {q[1]}
  <2>1. \A i \in 1..n : i # 1 => q[i] # q[1]
    BY <1>2, <1>5 DEF IsInjective
  <2>2. \A i \in 1..(n - 1) : r[i] \in ToSet(q) /\ r[i] # q[1]
    BY <1>2, <1>4, <1>5, <2>1 DEF ToSet
  <2>3. \A i \in 1..n : i # 1 => q[i] = r[i - 1]
    BY <1>4, <1>5
  <2>4. \A i \in 1..n : i # 1 => q[i] \in ToSet(r)
    <3>1. \A i \in 1..(n - 1) : r[i] \in ToSet(r)
      BY <1>2 DEF ToSet
    <3>. QED  BY <1>5, <2>3, <3>1
  <2>5. ToSet(r) \subseteq ToSet(q) \ {q[1]}
    BY <1>2, <2>2 DEF ToSet
  <2>6. \A x \in ToSet(q) : x # q[1] => x \in ToSet(r)
    BY <1>2, <2>4 DEF ToSet
  <2>. QED  BY <2>5, <2>6
<1>8. q[1] \in ToSet(q)
  BY <1>2, <1>5 DEF ToSet
<1>. HIDE DEF ToSet
<1>. QED  BY <1>1, <1>3, <1>6, <1>7, <1>8 DEF r

(* RemoveAt takes out one position.                                        *)
LEMMA RemovedPosition ==
  ASSUME NEW S, NEW q \in Seq(S), NEW k \in 1..Len(q)
  PROVE  /\ RemoveAt(q, k) \in Seq(S) /\ Len(RemoveAt(q, k)) = Len(q) - 1
         /\ \A i \in 1..(Len(q) - 1) : RemoveAt(q, k)[i] = IF i < k THEN q[i] ELSE q[i + 1]
<1>. DEFINE left == SubSeq(q, 1, k - 1)
            right == SubSeq(q, k + 1, Len(q))
<1>1. Len(q) \in Nat /\ DOMAIN q = 1..Len(q) /\ \A i \in 1..Len(q) : q[i] \in S
  BY LenProperties, ElementOfSeq
<1>2. /\ left \in Seq(S) /\ Len(left) = k - 1
      /\ \A i \in 1..(k - 1) : left[i] = q[i]
  <2>1. /\ 1 \in Int /\ k - 1 \in Int /\ (k - 1) - 1 + 1 = k - 1
        /\ \A i \in 1..(k - 1) : i \in 1..Len(q) /\ 1 + i - 1 = i
        /\ k - 1 = IF 1 <= k - 1 THEN (k - 1) - 1 + 1 ELSE 0
    BY <1>1
  <2>2. \A i \in 1..(k - 1) : q[i] \in S
    BY <1>1, <2>1
  <2>. QED  BY <2>1, <2>2, SubSeqProperties
<1>3. /\ right \in Seq(S) /\ Len(right) = Len(q) - k
      /\ \A i \in 1..(Len(q) - k) : right[i] = q[k + i]
  <2>1. /\ k + 1 \in Int /\ Len(q) \in Int /\ Len(q) - (k + 1) + 1 = Len(q) - k
        /\ \A i \in (k + 1)..Len(q) : i \in 1..Len(q)
        /\ \A i \in 1..(Len(q) - k) : (k + 1) + i - 1 = k + i
    BY <1>1
  <2>3. Len(q) - k = IF k + 1 <= Len(q) THEN Len(q) - (k + 1) + 1 ELSE 0
    <3>1. \A n \in Nat : \A i \in 1..n : n - i = IF i + 1 <= n THEN n - (i + 1) + 1 ELSE 0
      OBVIOUS
    <3>. QED  BY <1>1, <3>1
  <2>2. \A i \in (k + 1)..Len(q) : q[i] \in S
    BY <1>1, <2>1
  <2>4. PICK m \in Int : m = k + 1
    BY <2>1
  <2>5. right = SubSeq(q, m, Len(q)) /\ Len(q) \in Int /\ \A i \in m..Len(q) : q[i] \in S
    BY <2>1, <2>2, <2>4
  <2>6. /\ right \in Seq(S) /\ Len(right) = IF m <= Len(q) THEN Len(q) - m + 1 ELSE 0
        /\ \A i \in 1..(Len(q) - m + 1) : right[i] = q[m + i - 1]
    BY <2>5, SubSeqProperties
  <2>. QED  BY SMTT(40), <2>1, <2>3, <2>4, <2>6
<1>4. RemoveAt(q, k) = left \o right
  BY DEF RemoveAt
<1>. HIDE DEF left, right
<1>5. /\ left \o right \in Seq(S) /\ Len(left \o right) = Len(left) + Len(right)
       /\ \A i \in 1..(Len(left) + Len(right)) :
            (left \o right)[i] = IF i <= Len(left) THEN left[i] ELSE right[i - Len(left)]
  BY <1>2, <1>3, ConcatProperties
<1>6. Len(left) + Len(right) = Len(q) - 1
  BY <1>1, <1>2, <1>3
<1>7. ASSUME NEW i \in 1..(Len(q) - 1)
       PROVE  (left \o right)[i] = IF i < k THEN q[i] ELSE q[i + 1]
  <2>1. i < k => i \in 1..(k - 1) /\ i <= k - 1
    BY <1>1
  <2>2. ~(i < k) => i - (k - 1) \in 1..(Len(q) - k) /\ k + (i - (k - 1)) = i + 1 /\ ~(i <= k - 1)
    BY <1>1
  <2>. QED  BY <1>2, <1>3, <1>5, <1>6, <2>1, <2>2
<1>. QED  BY <1>4, <1>5, <1>6, <1>7

(* RemoveFirst takes out the first position that holds the element.        *)
LEMMA RemoveFirstPosition ==
  ASSUME NEW S, NEW q \in Seq(S), NEW x \in ToSet(q)
  PROVE  /\ RemoveFirst(q, x) \in Seq(S)
         /\ Len(RemoveFirst(q, x)) = Len(q) - 1
         /\ \E k \in 1..Len(q) :
              /\ q[k] = x
              /\ \A i \in 1..(Len(q) - 1) :
                   RemoveFirst(q, x)[i] = IF i < k THEN q[i] ELSE q[i + 1]
<1>. DEFINE I == {i \in 1..Len(q) : q[i] = x}
            k == SelectInSeq(q, LAMBDA v : v = x)
<1>1. Len(q) \in Nat /\ DOMAIN q = 1..Len(q) /\ \A i \in 1..Len(q) : q[i] \in S
  BY LenProperties, ElementOfSeq
<1>2. I # {} /\ I \subseteq Nat
  BY <1>1 DEF ToSet
<1>3. \E n \in I : \A m \in I : n <= m
  <2>. HIDE DEF I
  <2>. QED  BY <1>2, LeastNumber
<1>4. k = Min(I)
  BY <1>2 DEF SelectInSeq
<1>5. k \in I
  <2>. HIDE DEF I, k
  <2>. QED  BY <1>3, <1>4 DEF Min
<1>6. k \in 1..Len(q) /\ q[k] = x
  BY <1>5
<1>7. RemoveFirst(q, x) = RemoveAt(q, k)
  BY <1>6 DEF RemoveFirst
<1>. HIDE DEF k, I
<1>. QED  BY <1>6, <1>7, RemovedPosition

(* In a sequence without repetition that leaves the other elements, in     *)
(* their order, and not the element itself.                                *)
LEMMA RemoveFirstInjective ==
  ASSUME NEW S, NEW q \in Seq(S), IsInjective(q), NEW x
  PROVE  /\ RemoveFirst(q, x) \in Seq(S) /\ IsInjective(RemoveFirst(q, x))
         /\ ToSet(RemoveFirst(q, x)) = ToSet(q) \ {x}
         /\ Len(RemoveFirst(q, x)) <= Len(q)
<1>. DEFINE r == RemoveFirst(q, x)
<1>1. Len(q) \in Nat /\ DOMAIN q = 1..Len(q)
  BY LenProperties
<1>2. CASE x \notin ToSet(q)
  <2>1. r = q
    BY <1>1, <1>2 DEF RemoveFirst, ToSet
  <2>. QED  BY <1>1, <1>2, <2>1
<1>3. CASE x \in ToSet(q)
  <2>1. PICK k \in 1..Len(q) :
          /\ q[k] = x
          /\ \A i \in 1..(Len(q) - 1) : r[i] = IF i < k THEN q[i] ELSE q[i + 1]
    BY <1>3, RemoveFirstPosition
  <2>2. r \in Seq(S) /\ Len(r) = Len(q) - 1
    BY <1>3, RemoveFirstPosition
  <2>. HIDE DEF r
  <2>3. DOMAIN r = 1..(Len(q) - 1)
    BY <2>2, LenProperties
  <2>4. IsInjective(r)
    <3>1. SUFFICES ASSUME NEW i \in 1..(Len(q) - 1), NEW j \in 1..(Len(q) - 1), r[i] = r[j]
                   PROVE  i = j
      BY <2>3 DEF IsInjective
    <3>. DEFINE up(n) == IF n < k THEN n ELSE n + 1
    <3>2. /\ up(i) \in 1..Len(q) /\ up(j) \in 1..Len(q)
          /\ (up(i) = up(j) => i = j)
      BY <1>1
    <3>3. r[i] = q[up(i)] /\ r[j] = q[up(j)]
      BY <2>1
    <3>. HIDE DEF up
    <3>4. up(i) = up(j)
      BY <1>1, <3>1, <3>2, <3>3 DEF IsInjective
    <3>. QED  BY <3>2, <3>4
  <2>5. ToSet(r) \subseteq ToSet(q) \ {x}
    <3>1. SUFFICES ASSUME NEW i \in 1..(Len(q) - 1) PROVE r[i] \in ToSet(q) \ {x}
      BY <2>3 DEF ToSet
    <3>2. \E n \in 1..Len(q) : r[i] = q[n] /\ n # k
      <4>1. (i < k => i \in 1..Len(q) /\ i # k) /\ (~(i < k) => i + 1 \in 1..Len(q) /\ i + 1 # k)
        BY <1>1
      <4>. QED  BY <2>1, <4>1
    <3>. QED  BY <1>1, <2>1, <3>2 DEF IsInjective, ToSet
  <2>6. ToSet(q) \ {x} \subseteq ToSet(r)
    <3>1. SUFFICES ASSUME NEW n \in 1..Len(q), q[n] # x PROVE q[n] \in ToSet(r)
      BY <1>1 DEF ToSet
    <3>2. \E i \in 1..(Len(q) - 1) : r[i] = q[n]
      <4>1. n # k
        BY <2>1, <3>1
      <4>2. (n < k => n \in 1..(Len(q) - 1))
            /\ (~(n < k) => n - 1 \in 1..(Len(q) - 1) /\ ~(n - 1 < k) /\ (n - 1) + 1 = n)
        BY <1>1, <4>1
      <4>. QED  BY <2>1, <4>2
    <3>. QED  BY <2>3, <3>2 DEF ToSet
  <2>. QED  BY <1>1, <2>2, <2>4, <2>5, <2>6 DEF r
<1>. QED  BY <1>2, <1>3

-----------------------------------------------------------------------------
(* FlattenSeq is a recursive function over the positions of its argument:  *)
(* there is such a function ...                                            *)
IsFlat(f, q, n) == f = [i \in 1..n |-> IF i = 1 THEN q[i] ELSE f[i - 1] \o q[i]]

(* Concatenating the first n sequences is defined for every n.             *)
LEMMA FlatExists ==
  ASSUME NEW q, NEW n \in Nat
  PROVE  \E f : IsFlat(f, q, n)
<1>. DEFINE Bad == {m \in Nat : ~ \E f : IsFlat(f, q, m)}
<1>1. Bad \subseteq Nat
  OBVIOUS
<1>2. 0 \notin Bad
  <2>1. IsFlat(<<>>, q, 0)
    BY DEF IsFlat
  <2>. QED  BY <2>1
<1>3. ASSUME NEW m \in Nat, m \notin Bad PROVE m + 1 \notin Bad
  <2>1. PICK f : IsFlat(f, q, m)
    BY <1>3
  <2>. DEFINE g == [i \in 1..(m + 1) |->
                      IF i = m + 1 THEN IF i = 1 THEN q[i] ELSE f[i - 1] \o q[i] ELSE f[i]]
  <2>2. \A i \in 1..(m + 1) : i # m + 1 => i \in 1..m
    OBVIOUS
  <2>3. \A i \in 1..(m + 1) : i # 1 => i - 1 \in 1..(m + 1) /\ i - 1 # m + 1
    OBVIOUS
  <2>4. ASSUME NEW i \in 1..(m + 1) PROVE g[i] = IF i = 1 THEN q[i] ELSE g[i - 1] \o q[i]
    <3>1. CASE i = m + 1
      BY <2>3, <3>1
    <3>2. CASE i # m + 1
      <4>1. f[i] = IF i = 1 THEN q[i] ELSE f[i - 1] \o q[i]
        BY <2>1, <2>2, <3>2 DEF IsFlat
      <4>. QED  BY <2>2, <2>3, <3>2, <4>1
    <3>. QED  BY <3>1, <3>2
  <2>5. IsFlat(g, q, m + 1)
    BY <2>4 DEF IsFlat
  <2>. QED  BY <2>5
<1>. HIDE DEF Bad
<1>4. Bad = {}
  BY <1>1, <1>2, <1>3, LeastStep
<1>. QED  BY <1>4 DEF Bad

(* ... and its last value is the flat sequence.                            *)
LEMMA FlatIsLast ==
  ASSUME NEW q, Len(q) \in Nat, Len(q) # 0
  PROVE  \E f : IsFlat(f, q, Len(q)) /\ FlattenSeq(q) = f[Len(q)]
<1>. DEFINE flat == CHOOSE f : IsFlat(f, q, Len(q))
<1>1. \E f : IsFlat(f, q, Len(q))
  BY FlatExists
<1>2. IsFlat(flat, q, Len(q))
  BY <1>1
<1>3. FlattenSeq(q) = flat[Len(q)]
  BY DEF FlattenSeq, IsFlat
<1>. QED  BY <1>2, <1>3

(* Two sequences without repetition and without a common element give one. *)
LEMMA ConcatInjective ==
  ASSUME NEW S, NEW p \in Seq(S), NEW q \in Seq(S)
  PROVE  /\ p \o q \in Seq(S)
         /\ ToSet(p \o q) = ToSet(p) \cup ToSet(q)
         /\ IsInjective(p) /\ IsInjective(q) /\ ToSet(p) \cap ToSet(q) = {} => IsInjective(p \o q)
<1>. DEFINE r == p \o q
<1>1. /\ Len(p) \in Nat /\ DOMAIN p = 1..Len(p)
      /\ Len(q) \in Nat /\ DOMAIN q = 1..Len(q)
  BY LenProperties
<1>2. /\ r \in Seq(S) /\ Len(r) = Len(p) + Len(q)
      /\ \A i \in 1..(Len(p) + Len(q)) : r[i] = IF i <= Len(p) THEN p[i] ELSE q[i - Len(p)]
  BY ConcatProperties
<1>. HIDE DEF r
<1>3. DOMAIN r = 1..(Len(p) + Len(q))
  BY <1>2, LenProperties
<1>4. \A i \in DOMAIN r : \/ i \in DOMAIN p /\ r[i] = p[i]
                          \/ i - Len(p) \in DOMAIN q /\ r[i] = q[i - Len(p)]
  <2>1. \A i \in 1..(Len(p) + Len(q)) :
          IF i <= Len(p) THEN i \in 1..Len(p) ELSE i - Len(p) \in 1..Len(q)
    BY <1>1
  <2>. QED  BY <1>1, <1>2, <1>3, <2>1
<1>5. ToSet(p) \subseteq ToSet(r)
  <2>1. \A i \in 1..Len(p) : i \in 1..(Len(p) + Len(q)) /\ i <= Len(p)
    BY <1>1
  <2>. QED  BY <1>1, <1>2, <1>3, <2>1 DEF ToSet
<1>6. ToSet(q) \subseteq ToSet(r)
  <2>1. \A i \in 1..Len(q) : /\ i + Len(p) \in 1..(Len(p) + Len(q))
                              /\ ~(i + Len(p) <= Len(p)) /\ (i + Len(p)) - Len(p) = i
    BY <1>1
  <2>2. \A i \in 1..Len(q) : r[i + Len(p)] = q[i]
    BY <1>2, <2>1
  <2>. QED  BY <1>1, <1>3, <2>1, <2>2 DEF ToSet
<1>7. ToSet(r) = ToSet(p) \cup ToSet(q)
  BY <1>4, <1>5, <1>6 DEF ToSet
<1>8. ASSUME IsInjective(p), IsInjective(q), ToSet(p) \cap ToSet(q) = {}
      PROVE  IsInjective(r)
  <2>1. SUFFICES ASSUME NEW i \in DOMAIN r, NEW j \in DOMAIN r, r[i] = r[j] PROVE i = j
    BY DEF IsInjective
  <2>2. i \in Int /\ j \in Int
    BY <1>1, <1>3
  <2>3. \/ i \in DOMAIN p /\ j \in DOMAIN p /\ p[i] = p[j]
        \/ i - Len(p) \in DOMAIN q /\ j - Len(p) \in DOMAIN q /\ q[i - Len(p)] = q[j - Len(p)]
    BY <1>4, <1>8, <2>1 DEF ToSet
  <2>4. i = j \/ i - Len(p) = j - Len(p)
    BY <1>8, <2>3 DEF IsInjective
  <2>. QED  BY <1>1, <2>2, <2>4
<1>. QED  BY <1>2, <1>7, <1>8 DEF r

(* Flattening loses and invents nothing; sequences without repetition and  *)
(* without common elements give one without repetition.                    *)
LEMMA FlattenProperties ==
  ASSUME NEW S, NEW N \in Nat, NEW q \in [1..N -> Seq(S)]
  PROVE  /\ FlattenSeq(q) \in Seq(S)
         /\ ToSet(FlattenSeq(q)) = UNION {ToSet(q[i]) : i \in 1..N}
         /\ /\ \A i \in 1..N : IsInjective(q[i])
            /\ \A i, j \in 1..N : i # j => ToSet(q[i]) \cap ToSet(q[j]) = {}
            => IsInjective(FlattenSeq(q))
<1>1. q \in Seq(Seq(S)) /\ Len(q) = N
  BY SeqDef
<1>2. CASE N = 0
  <2>1. FlattenSeq(q) = q /\ q = <<>>
    BY <1>1, <1>2 DEF FlattenSeq
  <2>2. ToSet(q) = {} /\ IsInjective(q) /\ UNION {ToSet(q[i]) : i \in 1..N} = {}
    BY <1>2, <2>1 DEF ToSet, IsInjective
  <2>. QED  BY <2>1, <2>2, EmptySeq
<1>3. CASE N # 0
  <2>1. PICK f : IsFlat(f, q, N) /\ FlattenSeq(q) = f[N]
    BY <1>1, <1>3, FlatIsLast
  <2>. DEFINE Apart == /\ \A i \in 1..N : IsInjective(q[i])
                      /\ \A i, j \in 1..N : i # j => ToSet(q[i]) \cap ToSet(q[j]) = {}
              Good(m) == /\ f[m] \in Seq(S)
                         /\ ToSet(f[m]) = UNION {ToSet(q[i]) : i \in 1..m}
                         /\ Apart => IsInjective(f[m])
              Bad == {m \in Nat : m + 1 <= N /\ ~Good(m + 1)}
  <2>2. Good(1)
    <3>1. 1 \in 1..N /\ f[1] = q[1]
      BY <1>3, <2>1 DEF IsFlat
    <3>2. UNION {ToSet(q[i]) : i \in 1..1} = ToSet(q[1])
      OBVIOUS
    <3>. QED  BY <3>1, <3>2
  <2>3. ASSUME NEW m \in Nat, m \notin Bad PROVE m + 1 \notin Bad
    <3>1. SUFFICES ASSUME (m + 1) + 1 <= N PROVE Good((m + 1) + 1)
      OBVIOUS
    <3>. DEFINE n == m + 1
    <3>2. n \in 1..N /\ n + 1 \in 1..N /\ n + 1 # 1 /\ (n + 1) - 1 = n /\ n <= N
      BY <3>1
    <3>3. Good(n)
      BY <2>3, <3>2
    <3>4. \A i \in 1..n : i \in 1..N /\ i # n + 1
      BY <3>1
    <3>5. 1..(n + 1) = (1..n) \cup {n + 1}
      OBVIOUS
    <3>. HIDE DEF n
    <3>6. f[n + 1] = f[n] \o q[n + 1]
      BY <2>1, <3>2 DEF IsFlat
    <3>7. q[n + 1] \in Seq(S)
      BY <3>2
    <3>8. /\ f[n] \o q[n + 1] \in Seq(S)
          /\ ToSet(f[n] \o q[n + 1]) = ToSet(f[n]) \cup ToSet(q[n + 1])
          /\ IsInjective(f[n]) /\ IsInjective(q[n + 1]) /\ ToSet(f[n]) \cap ToSet(q[n + 1]) = {}
               => IsInjective(f[n] \o q[n + 1])
      BY <3>3, <3>7, ConcatInjective
    <3>9. UNION {ToSet(q[i]) : i \in 1..(n + 1)} = ToSet(f[n]) \cup ToSet(q[n + 1])
      BY <3>3, <3>5
    <3>10. ASSUME Apart PROVE IsInjective(f[n]) /\ IsInjective(q[n + 1]) /\ ToSet(f[n]) \cap ToSet(q[n + 1]) = {}
      <4>1. \A i \in 1..n : ToSet(q[i]) \cap ToSet(q[n + 1]) = {}
        BY <3>2, <3>4, <3>10
      <4>. QED  BY <3>2, <3>3, <3>10, <4>1
    <3>11. Good(n + 1)
      BY <3>6, <3>8, <3>9, <3>10
    <3>. QED  BY <3>11 DEF n
  <2>4. Bad \subseteq Nat /\ 0 \notin Bad
    BY <2>2
  <2>5. Bad = {}
    <3>. HIDE DEF Bad
    <3>. QED  BY <2>3, <2>4, LeastStep
  <2>6. N - 1 \in Nat /\ (N - 1) + 1 = N /\ N <= N
    BY <1>3
  <2>7. Good(N)
    <3>1. N - 1 \notin Bad
      BY <2>5
    <3>. QED  BY <2>6, <3>1
  <2>. QED  BY <2>1, <2>7
<1>. QED  BY <1>2, <1>3
(* A stack of calls, innermost first, that grows and shrinks at its head.  *)
LEMMA StackPush ==
  ASSUME NEW S, NEW s \in Seq(S), NEW x \in S
  PROVE  /\ <<x>> \o s \in Seq(S) /\ Len(<<x>> \o s) = Len(s) + 1
         /\ (<<x>> \o s)[1] = x
         /\ \A i \in 1..Len(s) : (<<x>> \o s)[i + 1] = s[i]
<1>. DEFINE r == <<x>> \o s
<1>1. Len(s) \in Nat
  BY LenProperties
<1>2. <<x>> \in Seq(S) /\ Len(<<x>>) = 1 /\ <<x>>[1] = x
  OBVIOUS
<1>3. /\ r \in Seq(S) /\ Len(r) = 1 + Len(s)
      /\ \A i \in 1..(1 + Len(s)) : r[i] = IF i <= 1 THEN <<x>>[i] ELSE s[i - 1]
  BY <1>2, ConcatProperties
<1>. HIDE DEF r
<1>4. r[1] = x /\ Len(r) = Len(s) + 1
  BY <1>1, <1>2, <1>3
<1>5. \A i \in 1..Len(s) : i + 1 \in 1..(1 + Len(s)) /\ ~(i + 1 <= 1) /\ (i + 1) - 1 = i
  BY <1>1
<1>6. \A i \in 1..Len(s) : r[i + 1] = s[i]
  BY <1>3, <1>5
<1>. QED  BY <1>3, <1>4, <1>6 DEF r

(* A stack is its top and the calls below.                                 *)
LEMMA StackSplit ==
  ASSUME NEW S, NEW s \in Seq(S), s # <<>>
  PROVE  /\ Head(s) = s[1] /\ Head(s) \in S /\ Tail(s) \in Seq(S)
         /\ Len(s) \in Nat \ {0} /\ Len(Tail(s)) = Len(s) - 1
         /\ \A i \in 1..(Len(s) - 1) : Tail(s)[i] = s[i + 1]
         /\ s = <<Head(s)>> \o Tail(s)
<1>1. /\ Head(s) = s[1] /\ Head(s) \in S /\ Tail(s) \in Seq(S)
      /\ Len(s) \in Nat \ {0} /\ Len(Tail(s)) = Len(s) - 1
      /\ \A i \in 1..(Len(s) - 1) : Tail(s)[i] = s[i + 1]
  BY HeadTailProperties, EmptySeq, ElementOfSeq
<1>. DEFINE r == <<Head(s)>> \o Tail(s)
            t == Tail(s)
<1>2. /\ r \in Seq(S) /\ Len(r) = Len(t) + 1 /\ r[1] = Head(s)
      /\ \A i \in 1..Len(t) : r[i + 1] = t[i]
  BY <1>1, StackPush
<1>. HIDE DEF r, t
<1>3. Len(t) = Len(s) - 1 /\ \A i \in 1..(Len(s) - 1) : t[i] = s[i + 1]
  BY <1>1 DEF t
<1>4. Len(r) = Len(s)
  BY <1>1, <1>2, <1>3
<1>5. ASSUME NEW i \in 1..Len(s) PROVE r[i] = s[i]
  <2>1. i = 1 \/ (i - 1 \in 1..(Len(s) - 1) /\ (i - 1) + 1 = i)
    BY <1>1
  <2>. QED  BY <1>1, <1>2, <1>3, <2>1
<1>6. r = s
  BY <1>2, <1>4, <1>5, SeqEqual
<1>. QED  BY <1>1, <1>6 DEF r, t

-----------------------------------------------------------------------------
(* The sum of a function over a finite set. MapThenSumSet is a recursive   *)
(* function over the subsets that takes the elements away in the order of  *)
(* a CHOOSE; what it returns does not depend on that order.                *)
SumOf(f, D) == MapThenSumSet(LAMBDA x : f[x], D)

Chosen(T) == CHOOSE x \in T : TRUE

IsSum(f, g, D) ==
  g = [T \in SUBSET D |-> IF T = {} THEN 0 ELSE f[Chosen(T)] + g[T \ {Chosen(T)}]]

(* A finite set without any of its elements is smaller.                    *)
LEMMA ChosenRemoved ==
  ASSUME NEW D, IsFiniteSet(D), NEW T \in SUBSET D
  PROVE  /\ IsFiniteSet(T) /\ Cardinality(T) \in Nat
         /\ Cardinality(T) = 0 <=> T = {}
         /\ T # {} => Chosen(T) \in T
         /\ \A x \in T : T \ {x} \in SUBSET D /\ Cardinality(T \ {x}) = Cardinality(T) - 1
BY FS_Subset, FS_CardinalityType, FS_EmptySet, FS_RemoveElement DEF Chosen

(* So a sum over a finite set is defined,                                  *)
LEMMA SumExists ==
  ASSUME NEW f, NEW D, IsFiniteSet(D)
  PROVE  \E g : IsSum(f, g, D)
<1>. DEFINE UpTo(g, n) == \A T \in SUBSET D : Cardinality(T) <= n =>
                            g[T] = IF T = {} THEN 0 ELSE f[Chosen(T)] + g[T \ {Chosen(T)}]
            Bad == {n \in Nat : ~ \E g : UpTo(g, n)}
<1>1. Bad \subseteq Nat
  OBVIOUS
<1>2. 0 \notin Bad
  <2>. DEFINE g == [T \in SUBSET D |-> 0]
  <2>1. ASSUME NEW T \in SUBSET D, Cardinality(T) <= 0 PROVE T = {}
    <3>1. Cardinality(T) \in Nat /\ (Cardinality(T) = 0 => T = {})
      BY ChosenRemoved
    <3>. QED  BY <2>1, <3>1
  <2>2. UpTo(g, 0)
    BY <2>1
  <2>. QED  BY <2>2
<1>3. ASSUME NEW n \in Nat, n \notin Bad PROVE n + 1 \notin Bad
  <2>1. PICK g : UpTo(g, n)
    BY <1>3
  <2>. DEFINE h == [T \in SUBSET D |->
                      IF Cardinality(T) = n + 1 THEN f[Chosen(T)] + g[T \ {Chosen(T)}] ELSE g[T]]
  <2>2. ASSUME NEW T \in SUBSET D, Cardinality(T) <= n + 1
        PROVE  h[T] = IF T = {} THEN 0 ELSE f[Chosen(T)] + h[T \ {Chosen(T)}]
    <3>1. /\ Cardinality(T) \in Nat /\ (Cardinality(T) = 0 <=> T = {})
          /\ T # {} => /\ T \ {Chosen(T)} \in SUBSET D
                       /\ Cardinality(T \ {Chosen(T)}) = Cardinality(T) - 1
      BY ChosenRemoved
    <3>2. CASE Cardinality(T) = n + 1
      <4>1. T # {} /\ T \ {Chosen(T)} \in SUBSET D /\ Cardinality(T \ {Chosen(T)}) # n + 1
        BY <3>2, <3>1
      <4>2. h[T \ {Chosen(T)}] = g[T \ {Chosen(T)}]
        BY <4>1
      <4>. QED  BY <3>2, <4>1, <4>2
    <3>3. CASE Cardinality(T) # n + 1
      <4>1. Cardinality(T) <= n
        BY <2>2, <3>3, <3>1
      <4>2. h[T] = g[T]
        BY <3>3
      <4>3. CASE T = {}
        BY <2>1, <4>1, <4>2, <4>3
      <4>4. CASE T # {}
        <5>1. T \ {Chosen(T)} \in SUBSET D /\ Cardinality(T \ {Chosen(T)}) # n + 1
          BY <3>1, <4>1, <4>4
        <5>2. h[T \ {Chosen(T)}] = g[T \ {Chosen(T)}]
          BY <5>1
        <5>3. g[T] = f[Chosen(T)] + g[T \ {Chosen(T)}]
          BY <2>1, <4>1, <4>4
        <5>. QED  BY <4>2, <4>4, <5>2, <5>3
      <4>. QED  BY <4>3, <4>4
    <3>. QED  BY <3>2, <3>3
  <2>3. UpTo(h, n + 1)
    <3>. HIDE DEF h
    <3>. QED  BY <2>2
  <2>. QED  BY <2>3
<1>. HIDE DEF Bad
<1>4. Bad = {}
  BY <1>1, <1>2, <1>3, LeastStep
<1>5. Cardinality(D) \in Nat /\ \A T \in SUBSET D : Cardinality(T) <= Cardinality(D)
  BY FS_CardinalityType, FS_Subset
<1>6. PICK g : UpTo(g, Cardinality(D))
  BY <1>4, <1>5 DEF Bad
<1>. DEFINE r == [T \in SUBSET D |-> g[T]]
<1>7. ASSUME NEW T \in SUBSET D
      PROVE  r[T] = IF T = {} THEN 0 ELSE f[Chosen(T)] + r[T \ {Chosen(T)}]
  <2>1. g[T] = IF T = {} THEN 0 ELSE f[Chosen(T)] + g[T \ {Chosen(T)}]
    BY <1>5, <1>6
  <2>2. T \ {Chosen(T)} \in SUBSET D
    OBVIOUS
  <2>. QED  BY <2>1, <2>2
<1>8. r = [T \in SUBSET D |-> IF T = {} THEN 0 ELSE f[Chosen(T)] + r[T \ {Chosen(T)}]]
  <2>. HIDE DEF r
  <2>. QED  BY <1>7 DEF r
<1>. QED  BY <1>8 DEF IsSum

(* is what SumOf computes,                                                 *)
LEMMA SumUnfolds ==
  ASSUME NEW f, NEW D, IsFiniteSet(D)
  PROVE  \E g : IsSum(f, g, D) /\ SumOf(f, D) = g[D]
<1>. DEFINE g == CHOOSE h : h = [T \in SUBSET D |-> IF T = {} THEN 0
                                                    ELSE f[Chosen(T)] + h[T \ {Chosen(T)}]]
<1>1. IsSum(f, g, D)
  <2>1. \E h : h = [T \in SUBSET D |-> IF T = {} THEN 0 ELSE f[Chosen(T)] + h[T \ {Chosen(T)}]]
    <3>1. PICK w : IsSum(f, w, D)
      BY SumExists
    <3>2. w = [T \in SUBSET D |-> IF T = {} THEN 0 ELSE f[Chosen(T)] + w[T \ {Chosen(T)}]]
      BY <3>1 DEF IsSum
    <3>. QED  BY <3>2
  <2>2. g = [T \in SUBSET D |-> IF T = {} THEN 0 ELSE f[Chosen(T)] + g[T \ {Chosen(T)}]]
    BY <2>1
  <2>. QED  BY <2>2 DEF IsSum
<1>2. SumOf(f, D) = g[D]
  BY DEF SumOf, MapThenSumSet, MapThenFoldSet, Chosen
<1>. QED  BY <1>1, <1>2

(* Two such functions agree where their sets and their summands do.        *)
LEMMA SumsAgree ==
  ASSUME NEW D, IsFiniteSet(D), NEW E \in SUBSET D, NEW f, NEW k,
         \A x \in E : f[x] = k[x],
         NEW g, IsSum(f, g, D), NEW h, IsSum(k, h, E)
  PROVE  \A T \in SUBSET E : g[T] = h[T]
<1>. DEFINE Bad == {n \in Nat : \E T \in SUBSET E : Cardinality(T) = n /\ g[T] # h[T]}
<1>1. Bad \subseteq Nat
  OBVIOUS
<1>2. /\ \A T \in SUBSET E : T = {} => g[T] = 0 /\ h[T] = 0
      /\ \A T \in SUBSET E : T # {} => /\ g[T] = f[Chosen(T)] + g[T \ {Chosen(T)}]
                                       /\ h[T] = k[Chosen(T)] + h[T \ {Chosen(T)}]
  BY DEF IsSum
<1>3. 0 \notin Bad
  <2>1. \A T \in SUBSET E : Cardinality(T) = 0 => T = {}
    BY ChosenRemoved
  <2>. QED  BY <1>2, <2>1
<1>4. ASSUME NEW n \in Nat, n \notin Bad PROVE n + 1 \notin Bad
  <2>1. SUFFICES ASSUME NEW T \in SUBSET E, Cardinality(T) = n + 1 PROVE g[T] = h[T]
    OBVIOUS
  <2>2. /\ T # {} /\ Chosen(T) \in T /\ T \ {Chosen(T)} \in SUBSET E
        /\ Cardinality(T \ {Chosen(T)}) = n
    <3>1. T \in SUBSET D
      OBVIOUS
    <3>. QED  BY <2>1, <3>1, ChosenRemoved
  <2>3. g[T \ {Chosen(T)}] = h[T \ {Chosen(T)}]
    BY <1>4, <2>2
  <2>4. f[Chosen(T)] = k[Chosen(T)]
    BY <2>2
  <2>. QED  BY <1>2, <2>2, <2>3, <2>4
<1>5. Bad = {}
  <2>. HIDE DEF Bad
  <2>. QED  BY <1>1, <1>3, <1>4, LeastStep
<1>6. \A T \in SUBSET E : Cardinality(T) \in Nat
  BY ChosenRemoved
<1>. QED  BY <1>5, <1>6

(* is a number,                                                            *)
LEMMA SumNatural ==
  ASSUME NEW D, IsFiniteSet(D), NEW f, \A x \in D : f[x] \in Nat, NEW g, IsSum(f, g, D)
  PROVE  \A T \in SUBSET D : g[T] \in Nat
<1>. DEFINE Bad == {n \in Nat : \E T \in SUBSET D : Cardinality(T) = n /\ g[T] \notin Nat}
<1>1. Bad \subseteq Nat
  OBVIOUS
<1>2. /\ \A T \in SUBSET D : T = {} => g[T] = 0
      /\ \A T \in SUBSET D : T # {} => g[T] = f[Chosen(T)] + g[T \ {Chosen(T)}]
  BY DEF IsSum
<1>3. 0 \notin Bad
  <2>1. \A T \in SUBSET D : Cardinality(T) = 0 => T = {}
    BY ChosenRemoved
  <2>. QED  BY <1>2, <2>1
<1>4. ASSUME NEW n \in Nat, n \notin Bad PROVE n + 1 \notin Bad
  <2>1. SUFFICES ASSUME NEW T \in SUBSET D, Cardinality(T) = n + 1 PROVE g[T] \in Nat
    OBVIOUS
  <2>2. /\ T # {} /\ Chosen(T) \in T /\ T \ {Chosen(T)} \in SUBSET D
        /\ Cardinality(T \ {Chosen(T)}) = n
    BY <2>1, ChosenRemoved
  <2>3. g[T \ {Chosen(T)}] \in Nat /\ f[Chosen(T)] \in Nat
    BY <1>4, <2>2
  <2>4. g[T] = f[Chosen(T)] + g[T \ {Chosen(T)}]
    <3>1. T \in SUBSET D
      OBVIOUS
    <3>. QED  BY <1>2, <2>2, <3>1
  <2>. QED  BY <2>3, <2>4
<1>5. Bad = {}
  <2>. HIDE DEF Bad
  <2>. QED  BY <1>1, <1>3, <1>4, LeastStep
<1>6. \A T \in SUBSET D : Cardinality(T) \in Nat
  BY ChosenRemoved
<1>. QED  BY <1>5, <1>6

(* Any element may be taken away first.                                    *)
LEMMA SumAnyOrder ==
  ASSUME NEW D, IsFiniteSet(D), NEW f, \A x \in D : f[x] \in Nat, NEW g, IsSum(f, g, D)
  PROVE  \A T \in SUBSET D : \A x \in T : g[T] = f[x] + g[T \ {x}]
<1>. DEFINE Good(T) == \A x \in T : g[T] = f[x] + g[T \ {x}]
            Bad == {n \in Nat : \E T \in SUBSET D : Cardinality(T) = n /\ ~Good(T)}
<1>1. Bad \subseteq Nat
  OBVIOUS
<1>2. \A T \in SUBSET D : T # {} => g[T] = f[Chosen(T)] + g[T \ {Chosen(T)}]
  BY DEF IsSum
<1>3. 0 \notin Bad
  <2>1. \A T \in SUBSET D : Cardinality(T) = 0 => T = {}
    BY ChosenRemoved
  <2>. QED  BY <2>1
<1>4. ASSUME NEW n \in Nat, n \notin Bad PROVE n + 1 \notin Bad
  <2>1. SUFFICES ASSUME NEW T \in SUBSET D, Cardinality(T) = n + 1, NEW x \in T
                 PROVE g[T] = f[x] + g[T \ {x}]
    OBVIOUS
  <2>. DEFINE c == Chosen(T)
              r == g[(T \ {c}) \ {x}]
  <2>2. /\ c \in T /\ \A y \in T : T \ {y} \in SUBSET D /\ Cardinality(T \ {y}) = n
    BY SMTT(40), <2>1, ChosenRemoved
  <2>3. \A y \in T : \A z \in T \ {y} : g[T \ {y}] = f[z] + g[(T \ {y}) \ {z}]
    <3>1. ASSUME NEW y \in T PROVE Good(T \ {y})
      <4>1. T \ {y} \in SUBSET D /\ Cardinality(T \ {y}) = n
        BY <2>2
      <4>. HIDE DEF Good, c
      <4>. QED  BY <1>4, <4>1
    <3>. QED  BY <3>1
  <2>4. g[T] = f[c] + g[T \ {c}]
    BY <1>2, <2>2
  <2>5. r \in Nat /\ f[c] \in Nat /\ f[x] \in Nat
    <3>1. (T \ {c}) \ {x} \in SUBSET D
      OBVIOUS
    <3>2. r \in Nat
      BY <3>1, SumNatural
    <3>. QED  BY <2>2, <3>2
  <2>. HIDE DEF c
  <2>6. CASE x = c
    BY <2>4, <2>6
  <2>7. CASE x # c
    <3>1. x \in T \ {c} /\ c \in T \ {x} /\ (T \ {c}) \ {x} = (T \ {x}) \ {c}
      BY <2>2, <2>7
    <3>2. g[T \ {c}] = f[x] + r
      BY <2>2, <2>3, <3>1
    <3>3. g[T \ {x}] = f[c] + r
      BY <2>3, <3>1
    <3>. HIDE DEF r
    <3>. QED  BY <2>4, <2>5, <3>2, <3>3
  <2>. QED  BY <2>6, <2>7
<1>. HIDE DEF Good
<1>5. Bad = {}
  <2>. HIDE DEF Bad
  <2>. QED  BY <1>1, <1>3, <1>4, LeastStep
<1>6. \A T \in SUBSET D : Cardinality(T) \in Nat
  BY ChosenRemoved
<1>7. \A T \in SUBSET D : Good(T)
  BY <1>5, <1>6
<1>. QED  BY <1>7 DEF Good

(* and is the sum of one summand, whichever, and the others.               *)
LEMMA SumProperties ==
  ASSUME NEW D, IsFiniteSet(D), NEW f, \A x \in D : f[x] \in Nat
  PROVE  /\ SumOf(f, {}) = 0
         /\ SumOf(f, D) \in Nat
         /\ \A x \in D : SumOf(f, D) = f[x] + SumOf(f, D \ {x})
<1>1. SumOf(f, {}) = 0
  <2>1. PICK g : IsSum(f, g, {}) /\ SumOf(f, {}) = g[{}]
    BY SumUnfolds, FS_EmptySet
  <2>. QED  BY <2>1 DEF IsSum
<1>2. PICK g : IsSum(f, g, D) /\ SumOf(f, D) = g[D]
  BY SumUnfolds
<1>3. g[D] \in Nat /\ \A x \in D : g[D] = f[x] + g[D \ {x}]
  BY <1>2, SumNatural, SumAnyOrder
<1>4. ASSUME NEW x \in D PROVE SumOf(f, D \ {x}) = g[D \ {x}]
  <2>1. IsFiniteSet(D \ {x})
    BY FS_Subset
  <2>2. PICK h : IsSum(f, h, D \ {x}) /\ SumOf(f, D \ {x}) = h[D \ {x}]
    BY <2>1, SumUnfolds
  <2>3. D \ {x} \in SUBSET D
    OBVIOUS
  <2>4. \A T \in SUBSET (D \ {x}) : g[T] = h[T]
    BY <1>2, <2>2, <2>3, SumsAgree
  <2>. QED  BY <2>2, <2>4
<1>. QED  BY <1>1, <1>2, <1>3, <1>4

(* Equal summands have equal sums.                                         *)
LEMMA SumSameSummands ==
  ASSUME NEW D, IsFiniteSet(D), NEW f, NEW k, \A x \in D : f[x] = k[x]
  PROVE  SumOf(f, D) = SumOf(k, D)
<1>1. PICK g : IsSum(f, g, D) /\ SumOf(f, D) = g[D]
  BY SumUnfolds
<1>2. PICK h : IsSum(k, h, D) /\ SumOf(k, D) = h[D]
  BY SumUnfolds
<1>3. D \in SUBSET D
  OBVIOUS
<1>4. \A T \in SUBSET D : g[T] = h[T]
  BY <1>1, <1>2, <1>3, SumsAgree
<1>. QED  BY <1>1, <1>2, <1>4
(* The sum over the positions of a sequence that got a new head.           *)
LEMMA SumShifted ==
  ASSUME NEW f, NEW g, NEW n \in Nat, g[1] \in Nat,
         \A i \in 1..n : f[i] \in Nat /\ g[i + 1] = f[i]
  PROVE  SumOf(f, 1..n) \in Nat /\ SumOf(g, 1..(n + 1)) = g[1] + SumOf(f, 1..n)
<1>. DEFINE Bad == {m \in Nat : m <= n /\ SumOf(g, 1..(m + 1)) # g[1] + SumOf(f, 1..m)}
<1>1. Bad \subseteq Nat
  OBVIOUS
<1>2. \A m \in Nat : IsFiniteSet(1..m) /\ IsFiniteSet(1..(m + 1))
  BY FS_Interval
<1>3. \A i \in 1..(n + 1) : g[i] \in Nat
  <2>1. \A i \in 1..(n + 1) : i = 1 \/ (i - 1 \in 1..n /\ (i - 1) + 1 = i)
    OBVIOUS
  <2>. QED  BY <2>1
<1>4. ASSUME NEW m \in Nat, m <= n
      PROVE  /\ SumOf(f, 1..m) \in Nat
             /\ \A i \in 1..m : SumOf(f, 1..m) = f[i] + SumOf(f, (1..m) \ {i})
             /\ \A i \in 1..(m + 1) : SumOf(g, 1..(m + 1)) = g[i] + SumOf(g, (1..(m + 1)) \ {i})
  <2>1. (\A i \in 1..m : f[i] \in Nat) /\ (\A i \in 1..(m + 1) : g[i] \in Nat)
    BY <1>3, <1>4
  <2>. QED  BY <1>2, <2>1, SumProperties
<1>5. SumOf(f, {}) = 0 /\ SumOf(g, {}) = 0
  BY SumProperties, FS_EmptySet
<1>. HIDE DEF Bad
<1>6. 0 \notin Bad
  <2>1. 1..0 = {} /\ (1..(0 + 1)) \ {1} = {} /\ 1 \in 1..(0 + 1) /\ 0 \in Nat /\ 0 <= n
    OBVIOUS
  <2>2. \A i \in 1..(0 + 1) : SumOf(g, 1..(0 + 1)) = g[i] + SumOf(g, (1..(0 + 1)) \ {i})
    BY <1>4, <2>1
  <2>3. SumOf(g, 1..(0 + 1)) = g[1] + SumOf(g, {})
    BY <2>1, <2>2
  <2>. QED  BY <1>5, <2>1, <2>3 DEF Bad
<1>7. ASSUME NEW m \in Nat, m \notin Bad PROVE m + 1 \notin Bad
  <2>. DEFINE p == m + 1
  <2>1. SUFFICES ASSUME p <= n PROVE SumOf(g, 1..(p + 1)) = g[1] + SumOf(f, 1..p)
    BY DEF Bad
  <2>2. /\ m <= n /\ p \in Nat /\ p \in 1..n /\ p \in 1..p /\ p + 1 \in 1..(p + 1)
        /\ (1..p) \ {p} = 1..m /\ (1..(p + 1)) \ {p + 1} = 1..p /\ p = m + 1
    BY <2>1
  <2>. HIDE DEF p
  <2>3. SumOf(f, 1..m) \in Nat
    BY <1>4, <2>2
  <2>4. SumOf(g, 1..p) = g[1] + SumOf(f, 1..m)
    BY <1>7, <2>2 DEF Bad
  <2>5. \A i \in 1..p : SumOf(f, 1..p) = f[i] + SumOf(f, (1..p) \ {i})
    BY <1>4, <2>1, <2>2
  <2>6. SumOf(f, 1..p) = f[p] + SumOf(f, 1..m)
    BY <2>2, <2>5
  <2>7. \A i \in 1..(p + 1) : SumOf(g, 1..(p + 1)) = g[i] + SumOf(g, (1..(p + 1)) \ {i})
    BY <1>4, <2>1, <2>2
  <2>8. SumOf(g, 1..(p + 1)) = g[p + 1] + SumOf(g, 1..p)
    BY <2>2, <2>7
  <2>9. g[p + 1] = f[p] /\ f[p] \in Nat
    BY <2>2
  <2>. DEFINE x == SumOf(f, 1..m)
              y == SumOf(f, 1..p)
              z == SumOf(g, 1..(p + 1))
              w == SumOf(g, 1..p)
  <2>10. x \in Nat /\ w = g[1] + x /\ y = f[p] + x /\ z = f[p] + w
    BY <2>3, <2>4, <2>6, <2>8, <2>9
  <2>. HIDE DEF x, y, z, w
  <2>11. z = g[1] + y
    BY <2>9, <2>10
  <2>. QED  BY <2>11 DEF y, z
<1>8. Bad = {}
  BY <1>1, <1>6, <1>7, LeastStep
<1>9. n \in Nat /\ n <= n
  OBVIOUS
<1>10. SumOf(f, 1..n) \in Nat
  BY <1>4, <1>9
<1>. QED  BY <1>8, <1>9, <1>10 DEF Bad
=============================================================================
