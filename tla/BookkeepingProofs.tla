--------------------------- MODULE BookkeepingProofs ---------------------------
(***************************************************************************)
(* Three components that keep two records of one thing and must keep them  *)
(* in step: the blob pool (its free lists and the bytes it retains), the   *)
(* request tracker (the deadline of an id and its slot in the wheel) and   *)
(* the watchers of the registry (what is true and what each was told).     *)
(***************************************************************************)
EXTENDS BlobPool, RequestTracker, ServiceWatch, CollectionLemmas

-----------------------------------------------------------------------------
(***************************************************************************)
(* The pool with any threads, blocks, sizes and budget: a block is in one  *)
(* place, the retained bytes are those of the parked blocks and within the *)
(* budget, and a block is as large as its holder needs.                    *)
(***************************************************************************)

(* The powers of two. Shift is a recursive function: there is one ...      *)
ShiftsUpTo(g, n) == \A e \in 0..n : g[e] = IF e = 0 THEN 1 ELSE 2 * g[e - 1]

(* There is one up to any n ...                                            *)
LEMMA ShiftsExist == \A n \in Nat : \E g : ShiftsUpTo(g, n)
<1>. DEFINE Bad == {n \in Nat : ~ \E g : ShiftsUpTo(g, n)}
<1>1. Bad \subseteq Nat
  OBVIOUS
<1>2. 0 \notin Bad
  <2>. DEFINE g == [e \in {0} |-> 1]
  <2>1. \A e \in 0..0 : e = 0 /\ g[e] = 1
    OBVIOUS
  <2>2. ShiftsUpTo(g, 0)
    BY <2>1 DEF ShiftsUpTo
  <2>. QED  BY <2>2
<1>3. ASSUME NEW n \in Nat, n \notin Bad PROVE n + 1 \notin Bad
  <2>1. PICK g : ShiftsUpTo(g, n)
    BY <1>3
  <2>. DEFINE h == [e \in Nat |-> IF e = n + 1 THEN 2 * g[n] ELSE g[e]]
  <2>2. ASSUME NEW e \in 0..(n + 1) PROVE h[e] = IF e = 0 THEN 1 ELSE 2 * h[e - 1]
    <3>1. CASE e = n + 1
      <4>1. e # 0 /\ e - 1 = n /\ n # n + 1
        BY <3>1
      <4>. QED  BY <3>1, <4>1
    <3>2. CASE e # n + 1
      <4>1. e \in 0..n /\ e \in Nat /\ e - 1 # n + 1 /\ (e # 0 => e - 1 \in Nat)
        BY <3>2
      <4>2. h[e] = g[e] /\ (e # 0 => h[e - 1] = g[e - 1])
        BY <3>2, <4>1
      <4>3. g[e] = IF e = 0 THEN 1 ELSE 2 * g[e - 1]
        BY <2>1, <4>1 DEF ShiftsUpTo
      <4>. QED  BY <4>2, <4>3
    <3>. QED  BY <3>1, <3>2
  <2>. HIDE DEF h
  <2>3. ShiftsUpTo(h, n + 1)
    BY <2>2 DEF ShiftsUpTo
  <2>. QED  BY <2>3
<1>4. Bad = {}
  <2>. HIDE DEF Bad
  <2>. QED  BY <1>1, <1>2, <1>3, LeastStep
<1>. QED  BY <1>4

(* ... a longer one extends a shorter one ...                              *)
LEMMA ShiftsAgree ==
  ASSUME NEW n \in Nat, NEW m \in Nat, n <= m,
         NEW g, ShiftsUpTo(g, n), NEW h, ShiftsUpTo(h, m)
  PROVE  \A e \in 0..n : g[e] = h[e]
<1>. DEFINE Bad == {e \in Nat : e <= n /\ g[e] # h[e]}
<1>1. Bad \subseteq Nat
  OBVIOUS
<1>2. 0 \notin Bad
  <2>1. 0 \in 0..n /\ 0 \in 0..m
    OBVIOUS
  <2>2. g[0] = 1 /\ h[0] = 1
    BY <2>1 DEF ShiftsUpTo
  <2>. QED  BY <2>2
<1>3. ASSUME NEW e \in Nat, e \notin Bad PROVE e + 1 \notin Bad
  <2>1. SUFFICES ASSUME e + 1 <= n PROVE g[e + 1] = h[e + 1]
    OBVIOUS
  <2>2. e + 1 \in 0..n /\ e + 1 \in 0..m /\ e + 1 # 0 /\ (e + 1) - 1 = e /\ e <= n
    BY <2>1
  <2>3. g[e + 1] = 2 * g[e] /\ h[e + 1] = 2 * h[e]
    BY <2>2 DEF ShiftsUpTo
  <2>4. g[e] = h[e]
    BY <1>3, <2>2
  <2>. QED  BY <2>3, <2>4
<1>4. Bad = {}
  <2>. HIDE DEF Bad
  <2>. QED  BY <1>1, <1>2, <1>3, LeastStep
<1>5. \A e \in 0..n : e \in Nat /\ e <= n
  OBVIOUS
<1>. QED  BY <1>4, <1>5

(* ... and it doubles.                                                     *)
LEMMA ShiftDoubles == \A e \in Nat : Shift[e] = IF e = 0 THEN 1 ELSE 2 * Shift[e - 1]
<1>. DEFINE G(n) == CHOOSE g : ShiftsUpTo(g, n)
            r == [n \in Nat |-> G(n)[n]]
<1>1. \A n \in Nat : ShiftsUpTo(G(n), n)
  BY ShiftsExist
<1>. HIDE DEF G
<1>2. ASSUME NEW e \in Nat PROVE r[e] = IF e = 0 THEN 1 ELSE 2 * r[e - 1]
  <2>1. e \in 0..e
    OBVIOUS
  <2>2. G(e)[e] = IF e = 0 THEN 1 ELSE 2 * G(e)[e - 1]
    BY <1>1, <2>1 DEF ShiftsUpTo
  <2>3. ASSUME e # 0 PROVE G(e)[e - 1] = G(e - 1)[e - 1] /\ e - 1 \in Nat
    <3>1. e - 1 \in Nat /\ e - 1 <= e /\ e - 1 \in 0..(e - 1)
      BY <2>3
    <3>2. ShiftsUpTo(G(e), e) /\ ShiftsUpTo(G(e - 1), e - 1)
      BY <1>1, <3>1
    <3>. QED  BY <3>1, <3>2, ShiftsAgree
  <2>. QED  BY <2>2, <2>3
<1>3. r = [e \in Nat |-> IF e = 0 THEN 1 ELSE 2 * r[e - 1]]
  <2>. HIDE DEF r
  <2>. QED  BY <1>2 DEF r
<1>. HIDE DEF r
<1>4. \E s : s = [e \in Nat |-> IF e = 0 THEN 1 ELSE 2 * s[e - 1]]
  BY <1>3
<1>5. Shift = [e \in Nat |-> IF e = 0 THEN 1 ELSE 2 * Shift[e - 1]]
  BY <1>4 DEF Shift
<1>. HIDE DEF Shift
<1>. QED  BY <1>5

(* ... so that the powers are positive numbers ...                         *)
LEMMA ShiftNatural == \A e \in Nat : Shift[e] \in Nat /\ Shift[e] >= 1
<1>. DEFINE Bad == {e \in Nat : ~(Shift[e] \in Nat /\ Shift[e] >= 1)}
<1>1. Bad \subseteq Nat
  OBVIOUS
<1>2. 0 \notin Bad
  BY ShiftDoubles
<1>3. ASSUME NEW e \in Nat, e \notin Bad PROVE e + 1 \notin Bad
  <2>1. e + 1 \in Nat /\ e + 1 # 0 /\ (e + 1) - 1 = e
    OBVIOUS
  <2>2. Shift[e + 1] = 2 * Shift[e]
    BY <2>1, ShiftDoubles
  <2>3. Shift[e] \in Nat /\ Shift[e] >= 1
    BY <1>3
  <2>. QED  BY <2>2, <2>3
<1>4. Bad = {}
  <2>. HIDE DEF Bad
  <2>. QED  BY <1>1, <1>2, <1>3, LeastStep
<1>. QED  BY <1>4

(* ... that grow with the exponent.                                        *)
LEMMA ShiftGrows == \A e, f \in Nat : e < f => Shift[e] < Shift[f]
<1>1. SUFFICES ASSUME NEW e \in Nat PROVE \A f \in Nat : e < f => Shift[e] < Shift[f]
  OBVIOUS
<1>. DEFINE Bad == {d \in Nat : ~(Shift[e] < Shift[e + d + 1])}
<1>2. Bad \subseteq Nat
  OBVIOUS
<1>3. \A d \in Nat : /\ e + d \in Nat /\ e + d + 1 \in Nat /\ e + d + 1 # 0
                     /\ (e + d + 1) - 1 = e + d /\ e + (d + 1) = e + d + 1
  OBVIOUS
<1>4. \A d \in Nat : /\ Shift[e + d + 1] = 2 * Shift[e + d]
                     /\ Shift[e + d] \in Nat /\ Shift[e + d] >= 1
  BY <1>3, ShiftDoubles, ShiftNatural
<1>5. 0 \notin Bad
  <2>1. e + 0 = e
    OBVIOUS
  <2>. QED  BY <1>4, <2>1
<1>6. ASSUME NEW d \in Nat, d \notin Bad PROVE d + 1 \notin Bad
  <2>1. Shift[e] < Shift[e + d + 1] /\ Shift[e] \in Nat
    BY <1>6, ShiftNatural
  <2>2. /\ Shift[e + (d + 1) + 1] = 2 * Shift[e + d + 1]
        /\ Shift[e + d + 1] \in Nat
    <3>1. d + 1 \in Nat /\ e + (d + 1) = e + d + 1
      OBVIOUS
    <3>2. Shift[e + (d + 1) + 1] = 2 * Shift[e + (d + 1)] /\ Shift[e + (d + 1)] \in Nat
      BY <1>4, <3>1
    <3>. QED  BY <3>1, <3>2
  <2>. QED  BY <2>1, <2>2
<1>7. Bad = {}
  <2>. HIDE DEF Bad
  <2>. QED  BY <1>2, <1>5, <1>6, LeastStep
<1>8. ASSUME NEW f \in Nat, e < f PROVE Shift[e] < Shift[f]
  <2>1. f - e - 1 \in Nat /\ e + (f - e - 1) + 1 = f
    BY <1>8
  <2>2. Shift[e] < Shift[e + (f - e - 1) + 1]
    BY <1>7, <2>1
  <2>. QED  BY <2>1, <2>2
<1>. QED  BY <1>8

-----------------------------------------------------------------------------
(* bucketExpFor() returns the smallest bucket that is large enough, and    *)
(* for a capacity the bucket it was allocated for.                         *)
LEMMA BucketFits ==
  ASSUME NEW size \in Nat, size <= Shift[MaxExp]
  PROVE  /\ BucketExp(size) \in Exps
         /\ size <= Shift[BucketExp(size)]
         /\ \A e \in Exps : Shift[e] >= size => BucketExp(size) <= e
<1>. DEFINE fit == {e \in Exps : Shift[e] >= size}
<1>1. Exps \subseteq Nat /\ MaxExp \in Exps
  BY PoolAssumption DEF Exps
<1>2. fit \subseteq Nat /\ fit # {}
  BY <1>1, ShiftNatural
<1>3. BucketExp(size) = Min(fit)
  BY <1>2 DEF BucketExp
<1>4. PICK k \in fit : \A e \in fit : k <= e
  BY <1>2, LeastNumber
<1>5. Min(fit) \in fit /\ \A e \in fit : Min(fit) <= e
  BY <1>4 DEF Min
<1>. QED  BY <1>3, <1>5

(* bucketExpFor() of a bucket's own capacity is that bucket.               *)
LEMMA BucketOfCapacity == \A e \in Exps : BucketExp(Shift[e]) = e
<1>1. SUFFICES ASSUME NEW e \in Exps PROVE BucketExp(Shift[e]) = e
  OBVIOUS
<1>2. e \in Nat /\ MaxExp \in Nat /\ e <= MaxExp /\ Exps \subseteq Nat
  BY PoolAssumption DEF Exps
<1>3. Shift[e] \in Nat /\ Shift[MaxExp] \in Nat /\ (e < MaxExp => Shift[e] < Shift[MaxExp])
  BY <1>2, ShiftNatural, ShiftGrows
<1>4. Shift[e] <= Shift[MaxExp]
  <2>1. e = MaxExp \/ e < MaxExp
    BY <1>2
  <2>. QED  BY <1>3, <2>1
<1>. DEFINE k == BucketExp(Shift[e])
<1>5. k \in Exps /\ Shift[e] <= Shift[k] /\ k <= e
  <2>1. Shift[e] >= Shift[e]
    BY <1>3
  <2>. QED  BY <1>3, <1>4, <2>1, BucketFits
<1>. HIDE DEF k
<1>6. k \in Nat /\ Shift[k] \in Nat /\ (k < e => Shift[k] < Shift[e])
  BY <1>2, <1>5, ShiftNatural, ShiftGrows
<1>7. k = e
  BY <1>2, <1>3, <1>5, <1>6
<1>. QED  BY <1>7 DEF k

(* The bucket chosen for a request is large enough.                        *)
LEMMA RequestFits ==
  ASSUME NEW size \in Sizes
  PROVE  /\ size \in Nat /\ BucketExp(AtLeastOne(size)) \in Exps
         /\ size <= Shift[BucketExp(AtLeastOne(size))]
<1>1. MaxExp \in Nat /\ Shift[MaxExp] \in Nat /\ Shift[MaxExp] >= 1 /\ size \in 0..Shift[MaxExp]
  BY PoolAssumption, ShiftNatural
<1>2. AtLeastOne(size) \in Nat /\ AtLeastOne(size) <= Shift[MaxExp] /\ size <= AtLeastOne(size)
  BY <1>1 DEF AtLeastOne
<1>3. /\ BucketExp(AtLeastOne(size)) \in Exps
      /\ AtLeastOne(size) <= Shift[BucketExp(AtLeastOne(size))]
  BY <1>2, BucketFits
<1>4. Shift[BucketExp(AtLeastOne(size))] \in Nat
  BY <1>3, PoolAssumption, ShiftNatural DEF Exps
<1>. QED  BY <1>1, <1>2, <1>3, <1>4

-----------------------------------------------------------------------------
(* The inductive invariant. A parked block lies in the bucket of its       *)
(* capacity, once; ...                                                     *)
ListsRight ==
  \A e \in Exps :
    IsInjective(freelist[e]) /\ \A b \in ToSet(freelist[e]) : capacity[b] = Shift[e]

(* ... parked, referenced and held blocks are different blocks of the      *)
(* heap, and all of it; ...                                                *)
Holds(t) == thread[t].block # NoBlock

PlacesRight ==
  /\ IsFiniteSet(heap) /\ Parked \subseteq heap
  /\ \A b \in Blocks : refs[b] > 0 => b \in heap \ Parked
  /\ \A t \in Threads : Holds(t) => thread[t].block \in heap \ Parked /\ refs[thread[t].block] = 0
  /\ \A t, u \in Threads : Holds(t) /\ thread[t].block = thread[u].block => t = u
  /\ \A b \in heap : b \in Parked \/ refs[b] > 0 \/ \E t \in Threads : thread[t].block = b

(* ... a thread holds a block while its deleter runs, and allocates for a  *)
(* size that was asked for; ...                                            *)
DoingRight ==
  \A t \in Threads :
    /\ Holds(t) <=> thread[t].doing \in {"parking", "freeing"}
    /\ thread[t].doing = "allocating" => thread[t].size \in Sizes

(* ... and a capacity is that of a bucket, and large enough.               *)
SizesRight ==
  /\ \A b \in heap : \E e \in Exps : capacity[b] = Shift[e]
  /\ FitsRequest

PoolInv ==
  TypeOK /\ ListsRight /\ PlacesRight /\ DoingRight /\ SizesRight /\ RetainedExact

(* A block is parked if some free list has it.                             *)
LEMMA ParkedMember == \A b : b \in Parked <=> \E e \in Exps : b \in ToSet(freelist[e])
BY DEF Parked

(* No block is in two buckets, since their capacities differ.              *)
LEMMA OneBucket ==
  ASSUME ListsRight, NEW e \in Exps, NEW f \in Exps, NEW b \in ToSet(freelist[e]),
         b \in ToSet(freelist[f])
  PROVE  e = f
<1>1. e \in Nat /\ f \in Nat /\ Shift[e] = Shift[f] /\ Shift[e] \in Nat
  BY PoolAssumption, ShiftNatural DEF ListsRight, Exps
<1>2. ~(e < f) /\ ~(f < e)
  BY <1>1, ShiftGrows
<1>. QED  BY <1>1, <1>2

(* acquire() takes the head of a free list: that block and no other        *)
(* leaves.                                                                 *)
LEMMA BlockTaken ==
  ASSUME TypeOK, ListsRight, NEW e \in Exps, freelist[e] # <<>>, freelist' = Taken(e)
  PROVE  /\ freelist' \in [Exps -> Seq(Blocks)]
         /\ \A f \in Exps : /\ IsInjective(freelist'[f])
                            /\ ToSet(freelist'[f]) \subseteq ToSet(freelist[f])
         /\ Head(freelist[e]) \in Parked /\ Head(freelist[e]) \in Blocks
         /\ capacity[Head(freelist[e])] = Shift[e]
         /\ Parked' = Parked \ {Head(freelist[e])}
<1>. DEFINE q == freelist[e]
            b == Head(q)
<1>1. q \in Seq(Blocks) /\ q # <<>> /\ IsInjective(q) /\ freelist \in [Exps -> Seq(Blocks)]
  BY DEF TypeOK, ListsRight
<1>2. /\ Tail(q) \in Seq(Blocks) /\ IsInjective(Tail(q))
      /\ ToSet(Tail(q)) = ToSet(q) \ {b} /\ b \in ToSet(q) /\ b \in Blocks
  BY <1>1, TailInjectiveSequence, HeadTailProperties
<1>3. \A f \in Exps : freelist'[f] = IF f = e THEN Tail(q) ELSE freelist[f]
  BY <1>1 DEF Taken
<1>4. freelist' \in [Exps -> Seq(Blocks)]
  BY <1>1, <1>2 DEF Taken
<1>. HIDE DEF q, b
<1>5. \A f \in Exps : /\ IsInjective(freelist'[f])
                      /\ ToSet(freelist'[f]) \subseteq ToSet(freelist[f])
  BY <1>2, <1>3 DEF ListsRight, q
<1>6. b \in ToSet(freelist[e]) /\ capacity[b] = Shift[e] /\ b \in Parked
  BY <1>2, ParkedMember DEF ListsRight, q
<1>7. Parked' = Parked \ {b}
  <2>1. \A f \in Exps : f # e => b \notin ToSet(freelist[f])
    BY <1>6, OneBucket
  <2>2. \A f \in Exps : ToSet(freelist'[f]) = ToSet(freelist[f]) \ {b}
    BY <1>2, <1>3, <2>1 DEF q
  <2>3. \A c : c \in Parked' <=> \E f \in Exps : c \in ToSet(freelist'[f])
    BY DEF Parked
  <2>. QED  BY <2>2, <2>3, ParkedMember
<1>. QED  BY <1>2, <1>4, <1>5, <1>6, <1>7 DEF b, q

(* The deleter appends to a free list: that block and no other comes.      *)
LEMMA BlockParked ==
  ASSUME TypeOK, ListsRight, NEW e \in Exps, NEW b \in Blocks, b \notin Parked,
         freelist' = [freelist EXCEPT ![e] = Append(@, b)]
  PROVE  /\ freelist' \in [Exps -> Seq(Blocks)]
         /\ \A f \in Exps : /\ IsInjective(freelist'[f])
                            /\ ToSet(freelist'[f]) = IF f = e THEN ToSet(freelist[f]) \cup {b}
                                                     ELSE ToSet(freelist[f])
         /\ Parked' = Parked \cup {b}
<1>. DEFINE q == freelist[e]
<1>1. q \in Seq(Blocks) /\ IsInjective(q) /\ freelist \in [Exps -> Seq(Blocks)]
  BY DEF TypeOK, ListsRight
<1>2. b \notin ToSet(q)
  BY ParkedMember
<1>3. /\ Append(q, b) \in Seq(Blocks) /\ IsInjective(Append(q, b))
      /\ ToSet(Append(q, b)) = ToSet(q) \cup {b}
  BY <1>1, <1>2, AppendInjectiveSequence
<1>4. \A f \in Exps : freelist'[f] = IF f = e THEN Append(q, b) ELSE freelist[f]
  BY <1>1
<1>5. freelist' \in [Exps -> Seq(Blocks)]
  BY <1>1, <1>3
<1>. HIDE DEF q
<1>6. ASSUME NEW f \in Exps
      PROVE  /\ IsInjective(freelist'[f])
             /\ ToSet(freelist'[f]) = IF f = e THEN ToSet(freelist[f]) \cup {b}
                                      ELSE ToSet(freelist[f])
  <2>1. CASE f = e
    BY <1>3, <1>4, <2>1 DEF q
  <2>2. CASE f # e
    BY <1>4, <2>2 DEF ListsRight
  <2>. QED  BY <2>1, <2>2
<1>7. \A c : c \in Parked' <=> \E f \in Exps : c \in ToSet(freelist'[f])
  BY DEF Parked
<1>8. ASSUME NEW c PROVE c \in Parked' <=> c \in Parked \/ c = b
  <2>1. c \in Parked' <=> \E f \in Exps : c \in ToSet(freelist'[f])
    BY <1>7
  <2>2. c \in Parked <=> \E f \in Exps : c \in ToSet(freelist[f])
    BY ParkedMember
  <2>3. ASSUME NEW f \in Exps
        PROVE  c \in ToSet(freelist'[f]) <=> c \in ToSet(freelist[f]) \/ (f = e /\ c = b)
    <3>1. CASE f = e
      <4>1. ToSet(freelist'[f]) = ToSet(freelist[f]) \cup {b}
        BY <1>6, <3>1
      <4>. QED  BY <3>1, <4>1
    <3>2. CASE f # e
      <4>1. ToSet(freelist'[f]) = ToSet(freelist[f])
        BY <1>6, <3>2
      <4>. QED  BY <3>2, <4>1
    <3>. QED  BY <3>1, <3>2
  <2>. QED  BY <2>1, <2>2, <2>3
<1>9. Parked' = Parked \cup {b}
  <2>. HIDE DEF Parked
  <2>. QED  BY <1>8
<1>. QED  BY <1>5, <1>6, <1>9

-----------------------------------------------------------------------------
(* The retained bytes, as SumOf has them.                                  *)
LEMMA RetainedSum ==
  RetainedExact <=> /\ retainedBytes = SumOf(capacity, Parked)
                    /\ retainedBytes <= MaxRetained
                    /\ dead => Parked = {}
BY DEF RetainedExact, SumOf

(* The same after a step.                                                  *)
BytesRight == retainedBytes = SumOf(capacity, Parked)

(* The bytes retained, in the next state.                                  *)
LEMMA RetainedSumNext ==
  RetainedExact' <=> /\ retainedBytes' = SumOf(capacity', Parked')
                     /\ retainedBytes' <= MaxRetained
                     /\ dead' => Parked' = {}
<1>1. RetainedExact <=> BytesRight /\ retainedBytes <= MaxRetained /\ (dead => Parked = {})
  BY RetainedSum DEF BytesRight
<1>2. (RetainedExact <=> BytesRight /\ retainedBytes <= MaxRetained /\ (dead => Parked = {}))'
  BY <1>1, PTL
<1>. QED  BY <1>2 DEF BytesRight

(* What an invariant state offers of threads.                              *)
LEMMA ThreadFacts ==
  /\ Idle \in Activity /\ Idle.block = NoBlock /\ Idle.doing = "idle"
  /\ \A a \in Activity : /\ a.doing \in {"idle", "allocating", "parking", "freeing"}
                         /\ a.block \in Blocks \cup {NoBlock} /\ a.size \in Nat
  /\ \A n \in Nat : LET a == [Idle EXCEPT !.doing = "allocating", !.size = n]
                    IN  a \in Activity /\ a.doing = "allocating" /\ a.size = n /\ a.block = NoBlock
  /\ \A b \in Blocks : LET a == [Idle EXCEPT !.doing = "parking", !.block = b]
                       IN  a \in Activity /\ a.doing = "parking" /\ a.block = b
  /\ \A a \in Activity : LET c == [a EXCEPT !.doing = "freeing"]
                         IN  c \in Activity /\ c.doing = "freeing" /\ c.block = a.block
BY DEF Idle, Activity

(* A step of one thread that leaves the lists and the heap alone: what it  *)
(* must show of blocks and threads.                                        *)
LEMMA ThreadTurns ==
  ASSUME TypeOK, NEW t \in Threads, NEW a \in Activity, thread' = [thread EXCEPT ![t] = a]
  PROVE  /\ thread' \in [Threads -> Activity] /\ thread'[t] = a
         /\ \A u \in Threads : u # t => thread'[u] = thread[u]
BY DEF TypeOK

(* A step outside the mutex keeps lists and sum.                           *)
LEMMA KeepLists ==
  ASSUME PoolInv, UNCHANGED <<freelist, retainedBytes, dead, capacity>>
  PROVE  ListsRight' /\ RetainedExact' /\ Parked' = Parked
<1>1. ListsRight' /\ Parked' = Parked
  BY DEF PoolInv, ListsRight, Parked
<1>2. RetainedExact'
  <2>1. RetainedExact
    BY DEF PoolInv
  <2>. HIDE DEF Parked, RetainedExact
  <2>. QED  BY <1>1, <2>1, RetainedSum, RetainedSumNext
<1>. QED  BY <1>1, <1>2

(* acquire() from a free list ...                                          *)
LEMMA AcquireParkedKeeps ==
  ASSUME PoolInv, NEW t \in Threads, NEW size \in Sizes, AcquireParked(t, size)
  PROVE  PoolInv'
<1>. DEFINE e == BucketExp(AtLeastOne(size))
            b == Head(freelist[e])
<1>1. TypeOK /\ ListsRight /\ PlacesRight /\ DoingRight /\ SizesRight /\ RetainedExact
  BY DEF PoolInv
<1>2. size \in Nat /\ e \in Exps /\ size <= Shift[e]
  BY RequestFits
<1>3. /\ thread[t] = Idle /\ ~dead /\ freelist[e] # <<>> /\ freelist' = Taken(e)
      /\ retainedBytes' = retainedBytes - Shift[e] /\ reuseHits' = reuseHits + 1
      /\ refs' = [refs EXCEPT ![b] = 1] /\ need' = [need EXCEPT ![b] = size]
      /\ thread' = [thread EXCEPT ![t] = Idle]
      /\ UNCHANGED <<allocations, dead, heap, capacity>>
  BY DEF AcquireParked, HandOut
<1>. HIDE DEF e, b
<1>4. /\ freelist' \in [Exps -> Seq(Blocks)] /\ b \in Parked /\ b \in Blocks
      /\ \A f \in Exps : /\ IsInjective(freelist'[f])
                         /\ ToSet(freelist'[f]) \subseteq ToSet(freelist[f])
      /\ capacity[b] = Shift[e] /\ Parked' = Parked \ {b}
  BY <1>1, <1>2, <1>3, BlockTaken DEF b
<1>5. thread' = thread
  BY <1>1, <1>3 DEF TypeOK
<1>6. retainedBytes' = SumOf(capacity', Parked') /\ retainedBytes' \in Nat
      /\ retainedBytes' <= MaxRetained
  <2>1. IsFiniteSet(Parked) /\ \A c \in Parked : capacity[c] \in Nat
    BY <1>1, FS_Subset DEF PlacesRight, TypeOK
  <2>2. IsFiniteSet(Parked \ {b}) /\ \A c \in Parked \ {b} : capacity[c] \in Nat
    BY <2>1, FS_Subset
  <2>3. /\ SumOf(capacity, Parked \ {b}) \in Nat
        /\ SumOf(capacity, Parked) = capacity[b] + SumOf(capacity, Parked \ {b})
    BY <1>4, <2>1, <2>2, SumProperties
  <2>4. retainedBytes = SumOf(capacity, Parked) /\ retainedBytes <= MaxRetained
    BY <1>1, RetainedSum
  <2>5. capacity[b] \in Nat /\ retainedBytes \in Nat /\ MaxRetained \in Nat
    BY <1>1, <1>4, PoolAssumption DEF TypeOK
  <2>6. retainedBytes' = retainedBytes - capacity[b] /\ capacity' = capacity
    BY <1>3, <1>4
  <2>. DEFINE rest == SumOf(capacity, Parked \ {b})
  <2>7. rest \in Nat /\ retainedBytes = capacity[b] + rest
    BY <2>3, <2>4
  <2>8. SumOf(capacity', Parked') = rest
    BY <1>4, <2>6
  <2>. HIDE DEF rest
  <2>. QED  BY <2>4, <2>5, <2>6, <2>7, <2>8
<1>7. RetainedExact'
  <2>1. retainedBytes' = SumOf(capacity', Parked') /\ retainedBytes' <= MaxRetained /\ ~dead'
    BY <1>3, <1>6
  <2>. QED  BY <2>1, RetainedSumNext
<1>8. ListsRight'
  BY <1>1, <1>3, <1>4 DEF ListsRight
<1>9. refs[b] = 0 /\ b \in heap /\ \A u \in Threads : thread[u].block # b
  BY <1>1, <1>4, PoolAssumption DEF PlacesRight, Holds, TypeOK
<1>10. \A c \in Blocks : refs'[c] = IF c = b THEN 1 ELSE refs[c]
  BY <1>1, <1>3 DEF TypeOK
<1>11. TypeOK'
  BY SMTT(40), <1>1, <1>2, <1>3, <1>4, <1>5, <1>6 DEF TypeOK
<1>12. PlacesRight'
  <2>1. Parked' \subseteq heap' /\ IsFiniteSet(heap') /\ heap' = heap /\ heap \subseteq Blocks
    BY <1>1, <1>3, <1>4 DEF PlacesRight, TypeOK
  <2>2. \A c \in Blocks : refs'[c] > 0 => c \in heap' \ Parked'
    BY <1>1, <1>4, <1>9, <1>10, <2>1 DEF PlacesRight
  <2>3. \A u \in Threads : Holds(u)' => thread'[u].block \in heap' \ Parked' /\ refs'[thread'[u].block] = 0
    BY <1>1, <1>4, <1>5, <1>9, <1>10, <2>1 DEF PlacesRight, Holds
  <2>4. \A c \in heap' : c \in Parked' \/ refs'[c] > 0 \/ \E u \in Threads : thread'[u].block = c
    BY <1>1, <1>4, <1>5, <1>10, <2>1 DEF PlacesRight
  <2>. QED  BY <1>1, <1>5, <2>1, <2>2, <2>3, <2>4 DEF PlacesRight, Holds
<1>13. DoingRight'
  BY <1>1, <1>5 DEF DoingRight, Holds
<1>14. SizesRight'
  <2>1. \A c \in Blocks : need'[c] = IF c = b THEN size ELSE need[c]
    BY <1>1, <1>3 DEF TypeOK
  <2>2. capacity' = capacity /\ heap' = heap /\ capacity[b] >= size
    BY <1>1, <1>2, <1>3, <1>4 DEF TypeOK
  <2>3. FitsRequest'
    BY <1>1, <1>10, <2>1, <2>2 DEF SizesRight, FitsRequest
  <2>. QED  BY <1>1, <2>2, <2>3 DEF SizesRight
<1>. QED  BY <1>7, <1>8, <1>11, <1>12, <1>13, <1>14 DEF PoolInv

(* The steps around an allocation that take no block yet.                  *)
LEMMA IdleTurnKeeps ==
  ASSUME PoolInv, NEW t \in Threads, NEW a \in Activity, thread' = [thread EXCEPT ![t] = a],
         ~Holds(t), a.block = NoBlock, a.doing \notin {"parking", "freeing"},
         a.doing = "allocating" => a.size \in Sizes,
         UNCHANGED <<freelist, retainedBytes, allocations, reuseHits, dead, heap, capacity, need, refs>>
  PROVE  PoolInv'
<1>1. TypeOK /\ PlacesRight /\ DoingRight /\ SizesRight
  BY DEF PoolInv
<1>2. ListsRight' /\ RetainedExact' /\ Parked' = Parked
  BY KeepLists
<1>3. /\ thread' \in [Threads -> Activity] /\ thread'[t] = a
      /\ \A u \in Threads : u # t => thread'[u] = thread[u]
  BY <1>1, ThreadTurns
<1>4. TypeOK'
  BY <1>1, <1>3 DEF TypeOK
<1>5. \A u \in Threads : thread'[u].block = thread[u].block
  BY <1>3 DEF Holds
<1>6. PlacesRight'
  BY <1>1, <1>2, <1>5 DEF PlacesRight, Holds
<1>7. DoingRight'
  BY <1>1, <1>3, <1>5 DEF DoingRight, Holds
<1>8. SizesRight'
  BY <1>1 DEF SizesRight, FitsRequest
<1>. QED  BY <1>2, <1>4, <1>6, <1>7, <1>8 DEF PoolInv

(* ... or without one ...                                                  *)
LEMMA AcquireMissesKeeps ==
  ASSUME PoolInv, NEW t \in Threads, NEW size \in Sizes, AcquireMisses(t, size)
  PROVE  PoolInv'
<1>. DEFINE a == [Idle EXCEPT !.doing = "allocating", !.size = size]
<1>1. size \in Nat
  BY RequestFits
<1>2. a \in Activity /\ a.doing = "allocating" /\ a.size = size /\ a.block = NoBlock
  BY <1>1, ThreadFacts
<1>3. /\ thread' = [thread EXCEPT ![t] = a] /\ thread[t] = Idle
      /\ UNCHANGED <<freelist, retainedBytes, allocations, reuseHits, dead, heap, capacity, need, refs>>
  BY DEF AcquireMisses
<1>4. ~Holds(t)
  BY <1>3, ThreadFacts DEF Holds
<1>. HIDE DEF a
<1>. QED  BY <1>2, <1>3, <1>4, IdleTurnKeeps

(* ... whose allocation fails ...                                          *)
LEMMA AllocateFailsKeeps ==
  ASSUME PoolInv, NEW t \in Threads, AllocateFails(t)
  PROVE  PoolInv'
<1>1. /\ thread' = [thread EXCEPT ![t] = Idle] /\ thread[t].doing = "allocating"
      /\ UNCHANGED <<freelist, retainedBytes, allocations, reuseHits, dead, heap, capacity, need, refs>>
  BY DEF AllocateFails
<1>2. ~Holds(t)
  BY <1>1 DEF PoolInv, DoingRight
<1>. QED  BY <1>1, <1>2, IdleTurnKeeps, ThreadFacts

(* ... or gives a new block,                                               *)
LEMMA AllocateKeeps ==
  ASSUME PoolInv, NEW t \in Threads, Allocate(t)
  PROVE  PoolInv'
<1>1. TypeOK /\ ListsRight /\ PlacesRight /\ DoingRight /\ SizesRight /\ RetainedExact
  BY DEF PoolInv
<1>. DEFINE size == thread[t].size
            e == BucketExp(AtLeastOne(size))
<1>2. thread[t].doing = "allocating" /\ size \in Sizes /\ ~Holds(t)
  BY <1>1 DEF Allocate, DoingRight
<1>3. size \in Nat /\ e \in Exps /\ size <= Shift[e] /\ Shift[e] \in Nat
  <2>1. size \in Nat /\ e \in Exps /\ size <= Shift[e]
    BY <1>2, RequestFits
  <2>. QED  BY <2>1, PoolAssumption, ShiftNatural DEF Exps
<1>4. PICK b \in Blocks \ heap :
        /\ heap' = heap \cup {b} /\ capacity' = [capacity EXCEPT ![b] = Shift[e]]
        /\ refs' = [refs EXCEPT ![b] = 1] /\ need' = [need EXCEPT ![b] = size]
        /\ thread' = [thread EXCEPT ![t] = Idle]
  BY DEF Allocate, HandOut
<1>5. allocations' = allocations + 1 /\ UNCHANGED <<freelist, retainedBytes, reuseHits, dead>>
  BY DEF Allocate
<1>. HIDE DEF size, e
<1>6. \A c \in Blocks : /\ capacity'[c] = IF c = b THEN Shift[e] ELSE capacity[c]
                        /\ refs'[c] = IF c = b THEN 1 ELSE refs[c]
                        /\ need'[c] = IF c = b THEN size ELSE need[c]
  BY <1>1, <1>4 DEF TypeOK
<1>7. Parked' = Parked /\ Parked \subseteq heap /\ b \notin Parked /\ heap \subseteq Blocks
  BY <1>1, <1>4, <1>5 DEF PlacesRight, TypeOK, Parked
<1>8. \A c \in Parked : c # b /\ c \in Blocks /\ capacity'[c] = capacity[c]
  BY <1>6, <1>7
<1>9. ListsRight'
  <2>1. \A f \in Exps : \A c \in ToSet(freelist[f]) : c \in Parked
    BY ParkedMember
  <2>. QED  BY <1>1, <1>5, <1>8, <2>1 DEF ListsRight
<1>10. RetainedExact'
  <2>1. IsFiniteSet(Parked)
    BY <1>1, FS_Subset DEF PlacesRight
  <2>2. SumOf(capacity', Parked) = SumOf(capacity, Parked)
    BY <1>8, <2>1, SumSameSummands
  <2>. QED  BY <1>1, <1>5, <1>7, <2>2, RetainedSum, RetainedSumNext
<1>11. /\ thread' \in [Threads -> Activity]
       /\ \A u \in Threads : thread'[u].block = thread[u].block
       /\ thread'[t].doing = "idle" /\ \A u \in Threads : u # t => thread'[u] = thread[u]
  <2>1. Idle \in Activity /\ Idle.block = NoBlock /\ Idle.doing = "idle"
    BY ThreadFacts
  <2>2. /\ thread' \in [Threads -> Activity] /\ thread'[t] = Idle
        /\ \A u \in Threads : u # t => thread'[u] = thread[u]
    BY <1>1, <1>4, <2>1, ThreadTurns
  <2>. QED  BY <1>2, <2>1, <2>2 DEF Holds
<1>12. TypeOK'
  BY <1>1, <1>3, <1>4, <1>5, <1>11 DEF TypeOK
<1>13. PlacesRight'
  <2>1. IsFiniteSet(heap')
    BY <1>1, <1>4, FS_AddElement DEF PlacesRight
  <2>2. \A u \in Threads : Holds(u) => thread[u].block \in Blocks /\ thread[u].block # b
    BY <1>1, <1>4, <1>7 DEF PlacesRight
  <2>3. \A c \in Blocks : refs'[c] > 0 => c \in heap' \ Parked'
    BY <1>1, <1>4, <1>6, <1>7 DEF PlacesRight
  <2>4. \A u \in Threads : Holds(u) => thread[u].block \in heap' \ Parked' /\ refs'[thread[u].block] = 0
    BY <1>1, <1>4, <1>6, <1>7, <2>2 DEF PlacesRight
  <2>5. \A c \in heap' : c \in Parked' \/ refs'[c] > 0 \/ \E u \in Threads : thread[u].block = c
    BY <1>1, <1>4, <1>6, <1>7 DEF PlacesRight
  <2>. QED  BY <1>1, <1>4, <1>7, <1>11, <2>1, <2>3, <2>4, <2>5 DEF PlacesRight, Holds
<1>14. DoingRight'
  BY <1>1, <1>2, <1>11 DEF DoingRight, Holds
<1>15. SizesRight'
  <2>1. \A c \in heap' : \E f \in Exps : capacity'[c] = Shift[f]
    BY <1>1, <1>3, <1>4, <1>6, <1>7 DEF SizesRight
  <2>2. \A c \in Blocks : refs'[c] > 0 => capacity'[c] >= need'[c]
    BY <1>1, <1>3, <1>6 DEF SizesRight, FitsRequest
  <2>. QED  BY <2>1, <2>2 DEF SizesRight, FitsRequest
<1>. QED  BY <1>9, <1>10, <1>12, <1>13, <1>14, <1>15 DEF PoolInv

(* References come and go. The thread that drops the last one holds the    *)
(* block then.                                                             *)
LEMMA CopyKeeps ==
  ASSUME PoolInv, NEW b \in Blocks, Copy(b)
  PROVE  PoolInv'
<1>1. TypeOK /\ PlacesRight /\ DoingRight /\ SizesRight
  BY DEF PoolInv
<1>2. /\ refs[b] > 0 /\ refs' = [refs EXCEPT ![b] = refs[b] + 1]
      /\ UNCHANGED <<freelist, retainedBytes, allocations, reuseHits, dead, heap, capacity, need, thread>>
  BY <1>1, PoolAssumption DEF Copy, TypeOK
<1>3. ListsRight' /\ RetainedExact' /\ Parked' = Parked
  BY <1>2, KeepLists
<1>4. /\ refs' \in [Blocks -> Nat]
      /\ \A c \in Blocks : (refs'[c] > 0 <=> refs[c] > 0) /\ (refs'[c] = 0 <=> refs[c] = 0)
  BY <1>1, <1>2 DEF TypeOK
<1>5. TypeOK'
  BY <1>1, <1>2, <1>4 DEF TypeOK
<1>6. PlacesRight'
  <2>1. \A u \in Threads : Holds(u) => thread[u].block \in Blocks
    BY <1>1 DEF PlacesRight, TypeOK
  <2>. QED  BY <1>1, <1>2, <1>3, <1>4, <2>1 DEF PlacesRight, Holds, TypeOK
<1>7. DoingRight' /\ SizesRight'
  BY <1>1, <1>2, <1>4 DEF DoingRight, Holds, SizesRight, FitsRequest
<1>. QED  BY <1>3, <1>5, <1>6, <1>7 DEF PoolInv

(* a copy of a Blob that is dropped,                                       *)
LEMMA DropKeeps ==
  ASSUME PoolInv, NEW t \in Threads, NEW b \in Blocks, Drop(t, b)
  PROVE  PoolInv'
<1>1. TypeOK /\ PlacesRight /\ DoingRight /\ SizesRight
  BY DEF PoolInv
<1>. DEFINE a == [Idle EXCEPT !.doing = "parking", !.block = b]
<1>2. /\ thread[t] = Idle /\ refs[b] > 0 /\ refs' = [refs EXCEPT ![b] = refs[b] - 1]
      /\ thread' = IF refs[b] > 1 THEN thread ELSE [thread EXCEPT ![t] = a]
      /\ UNCHANGED <<freelist, retainedBytes, allocations, reuseHits, dead, heap, capacity, need>>
  BY DEF Drop
<1>3. a \in Activity /\ a.doing = "parking" /\ a.block = b
  BY ThreadFacts
<1>. HIDE DEF a
<1>4. ListsRight' /\ RetainedExact' /\ Parked' = Parked
  BY <1>2, KeepLists
<1>5. /\ refs' \in [Blocks -> Nat] /\ refs[b] \in Nat /\ refs'[b] = refs[b] - 1
      /\ \A c \in Blocks : c # b => refs'[c] = refs[c]
  BY <1>1, <1>2 DEF TypeOK
<1>6. b # NoBlock /\ ~Holds(t) /\ b \in heap \ Parked
      /\ \A u \in Threads : thread[u].block # b
  <2>1. b # NoBlock /\ ~Holds(t)
    BY <1>2, PoolAssumption, ThreadFacts DEF Holds
  <2>2. b \in heap \ Parked
    BY <1>1, <1>2 DEF PlacesRight
  <2>3. ASSUME NEW u \in Threads, thread[u].block = b PROVE FALSE
    <3>1. refs[b] = 0
      BY <1>1, <2>1, <2>3 DEF Holds, PlacesRight
    <3>. QED  BY <1>2, <3>1
  <2>. QED  BY <2>1, <2>2, <2>3
<1>7. SizesRight'
  BY <1>1, <1>2, <1>5 DEF SizesRight, FitsRequest
<1>8. CASE refs[b] > 1
  <2>1. thread' = thread /\ refs'[b] > 0
    BY <1>2, <1>5, <1>8
  <2>2. TypeOK' /\ DoingRight'
    BY <1>1, <1>2, <1>5, <2>1 DEF TypeOK, DoingRight, Holds
  <2>3. \A u \in Threads : Holds(u) => refs'[thread[u].block] = 0
    BY <1>1, <1>5, <1>6 DEF PlacesRight, TypeOK
  <2>4. PlacesRight'
    BY <1>1, <1>2, <1>4, <1>5, <1>6, <2>1, <2>3 DEF PlacesRight, Holds, TypeOK
  <2>. QED  BY <1>4, <1>7, <2>2, <2>4 DEF PoolInv
<1>9. CASE ~(refs[b] > 1)
  <2>1. thread' = [thread EXCEPT ![t] = a] /\ refs'[b] = 0
    BY <1>2, <1>5, <1>9
  <2>2. /\ thread' \in [Threads -> Activity] /\ thread'[t] = a
        /\ \A u \in Threads : u # t => thread'[u] = thread[u]
    BY <1>1, <1>3, <2>1, ThreadTurns
  <2>3. TypeOK'
    BY <1>1, <1>2, <1>5, <2>2 DEF TypeOK
  <2>4. DoingRight'
    BY <1>1, <1>3, <1>6, <2>2 DEF DoingRight, Holds
  <2>5. \A c \in Blocks : refs'[c] > 0 => c \in heap' \ Parked'
    BY <1>1, <1>2, <1>4, <1>5, <2>1 DEF PlacesRight
  <2>6. ASSUME NEW u \in Threads, Holds(u)'
        PROVE  thread'[u].block \in heap' \ Parked' /\ refs'[thread'[u].block] = 0
    <3>1. CASE u = t
      BY <1>2, <1>3, <1>4, <1>6, <2>1, <2>2, <3>1
    <3>2. CASE u # t
      <4>1. thread'[u] = thread[u] /\ Holds(u)
        BY <2>2, <2>6, <3>2 DEF Holds
      <4>2. thread[u].block \in heap \ Parked /\ refs[thread[u].block] = 0 /\ thread[u].block # b
            /\ thread[u].block \in Blocks
        BY <1>1, <1>6, <4>1 DEF PlacesRight, TypeOK
      <4>. QED  BY <1>2, <1>4, <1>5, <4>1, <4>2
    <3>. QED  BY <3>1, <3>2
  <2>7. \A u, v \in Threads : Holds(u)' /\ thread'[u].block = thread'[v].block => u = v
    BY <1>1, <1>3, <1>6, <2>2 DEF PlacesRight, Holds
  <2>8. \A c \in heap' : c \in Parked' \/ refs'[c] > 0 \/ \E u \in Threads : thread'[u].block = c
    <3>1. \A u \in Threads : thread[u].block \in Blocks => u # t
      BY <1>6, PoolAssumption DEF Holds
    <3>2. heap \subseteq Blocks
      BY <1>1 DEF TypeOK
    <3>. QED  BY <1>1, <1>2, <1>3, <1>4, <1>5, <2>2, <3>1, <3>2 DEF PlacesRight
  <2>9. PlacesRight'
    BY <1>1, <1>2, <1>4, <2>5, <2>6, <2>7, <2>8 DEF PlacesRight
  <2>. QED  BY <1>4, <1>7, <2>3, <2>4, <2>9 DEF PoolInv
<1>. QED  BY <1>8, <1>9

(* The deleter: park() takes the block or leaves it to be freed.           *)
LEMMA ParkKeeps ==
  ASSUME PoolInv, NEW t \in Threads, Park(t)
  PROVE  PoolInv'
<1>1. TypeOK /\ ListsRight /\ PlacesRight /\ DoingRight /\ SizesRight /\ RetainedExact
  BY DEF PoolInv
<1>. DEFINE b == thread[t].block
            c == capacity[b]
            e == BucketExp(c)
<1>2. /\ thread[t].doing = "parking"
      /\ UNCHANGED <<allocations, reuseHits, dead, heap, capacity, need, refs>>
      /\ \/ /\ HasRoom(c) /\ freelist' = [freelist EXCEPT ![e] = Append(@, b)]
            /\ retainedBytes' = retainedBytes + c /\ thread' = [thread EXCEPT ![t] = Idle]
         \/ /\ thread' = [thread EXCEPT ![t].doing = "freeing"]
            /\ UNCHANGED <<freelist, retainedBytes>>
  BY DEF Park
<1>3. /\ Holds(t) /\ b \in heap /\ b \notin Parked /\ refs[b] = 0 /\ b \in Blocks /\ b # NoBlock
      /\ \A u \in Threads : thread[u].block = b => u = t
  <2>1. Holds(t)
    BY <1>1, <1>2 DEF DoingRight
  <2>. QED  BY <1>1, <2>1 DEF PlacesRight, TypeOK, Holds
<1>4. e \in Exps /\ c = Shift[e] /\ c \in Nat
  <2>1. PICK f \in Exps : c = Shift[f]
    BY <1>1, <1>3 DEF SizesRight
  <2>2. f \in Nat /\ Shift[f] \in Nat
    BY PoolAssumption, ShiftNatural DEF Exps
  <2>3. e = f
    BY <2>1, BucketOfCapacity
  <2>. QED  BY <2>1, <2>2, <2>3
<1>. HIDE DEF b, c, e
<1>5. SizesRight'
  BY <1>1, <1>2 DEF SizesRight, FitsRequest
<1>6. CASE /\ HasRoom(c) /\ freelist' = [freelist EXCEPT ![e] = Append(@, b)]
           /\ retainedBytes' = retainedBytes + c /\ thread' = [thread EXCEPT ![t] = Idle]
  <2>1. /\ freelist' \in [Exps -> Seq(Blocks)]
        /\ \A f \in Exps : /\ IsInjective(freelist'[f])
                           /\ ToSet(freelist'[f]) = IF f = e THEN ToSet(freelist[f]) \cup {b}
                                                    ELSE ToSet(freelist[f])
        /\ Parked' = Parked \cup {b}
    BY <1>1, <1>3, <1>4, <1>6, BlockParked
  <2>2. Idle \in Activity /\ Idle.block = NoBlock /\ Idle.doing = "idle"
    BY ThreadFacts
  <2>3. /\ thread' \in [Threads -> Activity] /\ thread'[t] = Idle
        /\ \A u \in Threads : u # t => thread'[u] = thread[u]
    BY <1>1, <1>6, <2>2, ThreadTurns
  <2>4. ListsRight'
    <3>1. ASSUME NEW f \in Exps, NEW d \in ToSet(freelist'[f]) PROVE capacity[d] = Shift[f]
      <4>1. CASE f = e
        BY <1>1, <1>4, <2>1, <3>1, <4>1 DEF ListsRight, c
      <4>2. CASE f # e
        BY <1>1, <2>1, <3>1, <4>2 DEF ListsRight
      <4>. QED  BY <4>1, <4>2
    <3>. QED  BY <1>2, <2>1, <3>1 DEF ListsRight
  <2>5. retainedBytes' \in Nat /\ RetainedExact'
    <3>1. retainedBytes \in Nat /\ retainedBytes = SumOf(capacity, Parked)
          /\ ~dead /\ retainedBytes + c <= MaxRetained
      BY <1>1, <1>6, RetainedSum DEF TypeOK, HasRoom
    <3>2. IsFiniteSet(Parked') /\ \A d \in Parked' : capacity[d] \in Nat
      <4>1. IsFiniteSet(Parked) /\ Parked \subseteq Blocks
        BY <1>1, FS_Subset DEF PlacesRight, TypeOK
      <4>. QED  BY <1>1, <1>3, <2>1, <4>1, FS_AddElement DEF TypeOK
    <3>3. b \in Parked' /\ Parked' \ {b} = Parked
      BY <1>3, <2>1
    <3>4. SumOf(capacity, Parked') = capacity[b] + SumOf(capacity, Parked' \ {b})
      BY <3>2, <3>3, SumProperties
    <3>5. SumOf(capacity', Parked') = c + retainedBytes
      BY <1>2, <3>1, <3>3, <3>4 DEF c
    <3>6. retainedBytes' \in Nat /\ retainedBytes' = SumOf(capacity', Parked')
      BY <1>4, <1>6, <3>1, <3>5
    <3>. QED  BY <1>2, <1>6, <3>1, <3>6, RetainedSumNext
  <2>6. TypeOK'
    BY <1>1, <1>2, <2>1, <2>3, <2>5 DEF TypeOK
  <2>7. DoingRight'
    BY <1>1, <2>2, <2>3 DEF DoingRight, Holds
  <2>8. \A u \in Threads : Holds(u)' => u # t /\ Holds(u) /\ thread'[u] = thread[u] /\ thread[u].block # b
    BY <1>3, <2>2, <2>3 DEF Holds
  <2>9. \A u, v \in Threads : Holds(u)' /\ thread'[u].block = thread'[v].block => u = v
    BY <1>1, <2>2, <2>3, <2>8 DEF PlacesRight, Holds
  <2>10. \A d \in heap : d \in Parked' \/ refs[d] > 0 \/ \E u \in Threads : thread'[u].block = d
    <3>1. SUFFICES ASSUME NEW d \in heap, d \notin Parked', ~(refs[d] > 0)
                   PROVE  \E u \in Threads : thread'[u].block = d
      OBVIOUS
    <3>2. d # b /\ d \notin Parked
      BY <2>1, <3>1
    <3>3. PICK u \in Threads : thread[u].block = d
      BY <1>1, <3>1, <3>2 DEF PlacesRight
    <3>4. u # t
      BY <3>2, <3>3 DEF b
    <3>. QED  BY <2>3, <3>3, <3>4
  <2>11. PlacesRight'
    <3>1. Parked' \subseteq heap /\ \A d \in Blocks : refs[d] > 0 => d \in heap \ Parked'
      BY <1>1, <1>3, <2>1 DEF PlacesRight
    <3>2. \A u \in Threads : Holds(u)' => thread'[u].block \in heap \ Parked' /\ refs[thread'[u].block] = 0
      BY <1>1, <2>1, <2>8 DEF PlacesRight
    <3>. QED  BY <1>1, <1>2, <2>9, <2>10, <3>1, <3>2 DEF PlacesRight
  <2>. QED  BY <1>5, <2>4, <2>5, <2>6, <2>7, <2>11 DEF PoolInv
<1>7. CASE thread' = [thread EXCEPT ![t].doing = "freeing"] /\ UNCHANGED <<freelist, retainedBytes>>
  <2>. DEFINE a == [thread[t] EXCEPT !.doing = "freeing"]
  <2>1. thread[t] \in Activity
    BY <1>1 DEF TypeOK
  <2>2. a \in Activity /\ a.doing = "freeing" /\ a.block = b
    BY <2>1, ThreadFacts DEF b
  <2>3. thread' = [thread EXCEPT ![t] = a]
    BY <1>7
  <2>. HIDE DEF a
  <2>4. /\ thread' \in [Threads -> Activity] /\ thread'[t] = a
        /\ \A u \in Threads : u # t => thread'[u] = thread[u]
    BY <1>1, <2>2, <2>3, ThreadTurns
  <2>5. \A u \in Threads : thread'[u].block = thread[u].block
    BY <2>2, <2>4 DEF b
  <2>6. ListsRight' /\ RetainedExact' /\ Parked' = Parked
    BY <1>2, <1>7, KeepLists
  <2>7. TypeOK'
    BY <1>1, <1>2, <1>7, <2>4 DEF TypeOK
  <2>8. DoingRight'
    BY <1>1, <1>3, <2>2, <2>4, <2>5 DEF DoingRight, Holds
  <2>9. PlacesRight'
    BY <1>1, <1>2, <2>5, <2>6 DEF PlacesRight, Holds
  <2>. QED  BY <1>5, <2>6, <2>7, <2>8, <2>9 DEF PoolInv
<1>. QED  BY <1>2, <1>6, <1>7

(* a deleter that gives the block back to the heap,                        *)
LEMMA FreeKeeps ==
  ASSUME PoolInv, NEW t \in Threads, Free(t)
  PROVE  PoolInv'
<1>1. TypeOK /\ PlacesRight /\ DoingRight /\ SizesRight
  BY DEF PoolInv
<1>. DEFINE b == thread[t].block
<1>2. /\ thread[t].doing = "freeing" /\ heap' = heap \ {b} /\ thread' = [thread EXCEPT ![t] = Idle]
      /\ UNCHANGED <<freelist, retainedBytes, allocations, reuseHits, dead, capacity, need, refs>>
  BY DEF Free
<1>3. /\ Holds(t) /\ b \in heap /\ b \notin Parked /\ refs[b] = 0 /\ b \in Blocks
      /\ \A u \in Threads : thread[u].block = b => u = t
  <2>1. Holds(t)
    BY <1>1, <1>2 DEF DoingRight
  <2>. QED  BY <1>1, <2>1 DEF PlacesRight, TypeOK, Holds
<1>. HIDE DEF b
<1>4. ListsRight' /\ RetainedExact' /\ Parked' = Parked
  BY <1>2, KeepLists
<1>5. Idle \in Activity /\ Idle.block = NoBlock /\ Idle.doing = "idle"
  BY ThreadFacts
<1>6. /\ thread' \in [Threads -> Activity] /\ thread'[t] = Idle
      /\ \A u \in Threads : u # t => thread'[u] = thread[u]
  BY <1>1, <1>2, <1>5, ThreadTurns
<1>7. TypeOK'
  BY <1>1, <1>2, <1>6 DEF TypeOK
<1>8. DoingRight' /\ SizesRight'
  BY <1>1, <1>2, <1>5, <1>6 DEF DoingRight, Holds, SizesRight, FitsRequest
<1>9. \A u \in Threads : Holds(u)' => u # t /\ Holds(u) /\ thread'[u] = thread[u] /\ thread[u].block # b
  BY <1>3, <1>5, <1>6 DEF Holds
<1>10. PlacesRight'
  <2>1. IsFiniteSet(heap') /\ Parked \subseteq heap'
    BY <1>1, <1>2, <1>3, FS_Subset DEF PlacesRight
  <2>2. \A d \in Blocks : refs[d] > 0 => d \in heap' \ Parked
    BY <1>1, <1>2, <1>3 DEF PlacesRight
  <2>3. \A u \in Threads : Holds(u)' => thread'[u].block \in heap' \ Parked /\ refs[thread'[u].block] = 0
    BY <1>1, <1>2, <1>9 DEF PlacesRight
  <2>4. \A u, v \in Threads : Holds(u)' /\ thread'[u].block = thread'[v].block => u = v
    BY <1>1, <1>5, <1>6, <1>9 DEF PlacesRight, Holds
  <2>5. \A d \in heap' : d \in Parked \/ refs[d] > 0 \/ \E u \in Threads : thread'[u].block = d
    <3>1. SUFFICES ASSUME NEW d \in heap', d \notin Parked, ~(refs[d] > 0)
                   PROVE  \E u \in Threads : thread'[u].block = d
      OBVIOUS
    <3>2. d # b /\ d \in heap
      BY <1>2, <3>1
    <3>3. PICK u \in Threads : thread[u].block = d
      BY <1>1, <3>1, <3>2 DEF PlacesRight
    <3>4. u # t
      BY <3>2, <3>3 DEF b
    <3>. QED  BY <1>6, <3>3, <3>4
  <2>. QED  BY <1>2, <1>4, <2>1, <2>2, <2>3, <2>4, <2>5 DEF PlacesRight
<1>. QED  BY <1>4, <1>7, <1>8, <1>10 DEF PoolInv

(* and ~BlobPool, which empties the free lists: each keeps the invariant.  *)
LEMMA DestroyKeeps ==
  ASSUME PoolInv, Destroy
  PROVE  PoolInv'
<1>1. TypeOK /\ PlacesRight /\ DoingRight /\ SizesRight
  BY DEF PoolInv
<1>2. /\ heap' = heap \ Parked /\ freelist' = [e \in Exps |-> <<>>]
      /\ retainedBytes' = 0 /\ dead' = TRUE
      /\ UNCHANGED <<allocations, reuseHits, capacity, need, refs, thread>>
  BY DEF Destroy
<1>3. \A e \in Exps : freelist'[e] = <<>> /\ ToSet(freelist'[e]) = {} /\ IsInjective(freelist'[e])
  BY <1>2 DEF ToSet, IsInjective
<1>4. Parked' = {}
  BY <1>3 DEF Parked
<1>5. ListsRight'
  BY <1>3 DEF ListsRight
<1>6. RetainedExact'
  <2>1. SumOf(capacity', {}) = 0
    BY SumProperties, FS_EmptySet
  <2>. QED  BY <1>2, <1>4, <2>1, PoolAssumption, RetainedSumNext
<1>7. TypeOK'
  BY <1>1, <1>2 DEF TypeOK
<1>8. DoingRight' /\ SizesRight'
  BY <1>1, <1>2 DEF DoingRight, Holds, SizesRight, FitsRequest
<1>9. PlacesRight'
  <2>1. IsFiniteSet(heap')
    BY <1>1, <1>2, FS_Subset DEF PlacesRight
  <2>. QED  BY <1>1, <1>2, <1>4, <2>1 DEF PlacesRight, Holds
<1>. QED  BY <1>5, <1>6, <1>7, <1>8, <1>9 DEF PoolInv

(* A new pool is empty.                                                    *)
LEMMA PoolInitially == Init => PoolInv
<1>. SUFFICES ASSUME Init PROVE PoolInv
  OBVIOUS
<1>1. \A e \in Exps : freelist[e] = <<>> /\ ToSet(freelist[e]) = {} /\ IsInjective(freelist[e])
  BY DEF Init, ToSet, IsInjective
<1>2. Parked = {}
  BY <1>1 DEF Parked
<1>3. ListsRight
  BY <1>1 DEF ListsRight
<1>4. RetainedExact
  <2>1. SumOf(capacity, {}) = 0
    BY SumProperties, FS_EmptySet
  <2>. QED  BY <1>2, <2>1, PoolAssumption, RetainedSum DEF Init
<1>5. TypeOK
  <2>1. freelist \in [Exps -> Seq(Blocks)]
    BY DEF Init
  <2>2. thread \in [Threads -> Activity]
    <3>1. Idle \in Activity
      BY ThreadFacts
    <3>. QED  BY <3>1 DEF Init
  <2>. QED  BY <2>1, <2>2 DEF Init, TypeOK
<1>6. \A t \in Threads : ~Holds(t) /\ thread[t].doing = "idle" /\ thread[t].block = NoBlock
  BY ThreadFacts DEF Init, Holds
<1>7. PlacesRight /\ DoingRight /\ SizesRight
  BY <1>2, <1>6, FS_EmptySet DEF Init, PlacesRight, DoingRight, SizesRight, FitsRequest
<1>. QED  BY <1>3, <1>4, <1>5, <1>7 DEF PoolInv

(* Every step of any thread keeps the invariant ...                        *)
LEMMA PoolStep == PoolInv /\ [Next]_vars => PoolInv'
<1>. SUFFICES ASSUME PoolInv, [Next]_vars PROVE PoolInv'
  OBVIOUS
<1>1. CASE UNCHANGED vars
  <2>1. ListsRight' /\ RetainedExact' /\ Parked' = Parked
    BY <1>1, KeepLists DEF vars
  <2>2. TypeOK' /\ PlacesRight' /\ DoingRight' /\ SizesRight'
    BY <1>1, <2>1 DEF PoolInv, vars, TypeOK, PlacesRight, DoingRight, SizesRight, FitsRequest, Holds
  <2>. QED  BY <2>1, <2>2 DEF PoolInv
<1>2. CASE Next
  BY <1>1, <1>2, AcquireParkedKeeps, AcquireMissesKeeps, AllocateKeeps, AllocateFailsKeeps, ParkKeeps,
     FreeKeeps, DropKeeps, CopyKeeps, DestroyKeeps DEF Next, AllDropped
<1>. QED  BY <1>1, <1>2

(* ... so it always holds.                                                 *)
LEMMA PoolInvariant == Spec => []PoolInv
BY PoolInitially, PoolStep, PTL DEF Spec

-----------------------------------------------------------------------------
(* A parked block is at one position of one bucket.                        *)
LEMMA ParkingsCounted ==
  ASSUME PoolInv, NEW b \in Blocks
  PROVE  Cardinality(Parkings(b)) = IF b \in Parked THEN 1 ELSE 0
<1>1. TypeOK /\ ListsRight
  BY DEF PoolInv
<1>2. \A p : p \in Parkings(b) <=>
        \E e \in Exps : \E i \in DOMAIN freelist[e] : p = <<e, i>> /\ freelist[e][i] = b
  BY DEF Parkings
<1>3. CASE b \notin Parked
  <2>1. \A e \in Exps : \A i \in DOMAIN freelist[e] : freelist[e][i] # b
    BY <1>3, ParkedMember DEF ToSet
  <2>2. Parkings(b) = {}
    BY <1>2, <2>1
  <2>. QED  BY <1>3, <2>2, FS_EmptySet
<1>4. CASE b \in Parked
  <2>1. PICK e \in Exps : b \in ToSet(freelist[e])
    BY <1>4, ParkedMember
  <2>2. PICK i \in DOMAIN freelist[e] : freelist[e][i] = b
    BY <2>1 DEF ToSet
  <2>3. ASSUME NEW f \in Exps, NEW j \in DOMAIN freelist[f], freelist[f][j] = b
        PROVE  f = e /\ j = i
    <3>1. b \in ToSet(freelist[f])
      BY <2>3 DEF ToSet
    <3>2. f = e
      BY <1>1, <2>1, <3>1, OneBucket
    <3>. QED  BY <1>1, <2>2, <2>3, <3>2 DEF ListsRight, IsInjective
  <2>4. Parkings(b) = {<<e, i>>}
    BY <1>2, <2>2, <2>3
  <2>. QED  BY <1>4, <2>4, FS_Singleton
<1>. QED  BY <1>3, <1>4

(* The threads that hold a block are at most one ...                       *)
LEMMA HoldersCounted ==
  ASSUME PoolInv, NEW b \in Blocks
  PROVE  Cardinality(Holders(b)) = IF \E t \in Threads : thread[t].block = b THEN 1 ELSE 0
<1>1. CASE \A t \in Threads : thread[t].block # b
  <2>1. Holders(b) = {}
    BY <1>1 DEF Holders
  <2>. QED  BY <1>1, <2>1, FS_EmptySet
<1>2. CASE \E t \in Threads : thread[t].block = b
  <2>1. PICK t \in Threads : thread[t].block = b
    BY <1>2
  <2>2. Holds(t)
    BY <2>1, PoolAssumption DEF Holds
  <2>3. Holders(b) = {t}
    BY <2>1, <2>2 DEF Holders, PoolInv, PlacesRight
  <2>. QED  BY <1>2, <2>3, FS_Singleton
<1>. QED  BY <1>1, <1>2

(* ... which makes the three places of OnePlace one.                       *)
LEMMA CountedOnce == PoolInv => OnePlace
<1>. SUFFICES ASSUME PoolInv, NEW b \in Blocks PROVE Places(b) = IF b \in heap THEN 1 ELSE 0
  BY DEF OnePlace, PoolInv
<1>1. TypeOK /\ PlacesRight
  BY DEF PoolInv
<1>2. Places(b) = (IF b \in Parked THEN 1 ELSE 0) + (IF refs[b] > 0 THEN 1 ELSE 0)
                  + (IF \E t \in Threads : thread[t].block = b THEN 1 ELSE 0)
  BY ParkingsCounted, HoldersCounted DEF Places
<1>3. ASSUME NEW t \in Threads, thread[t].block = b PROVE b \in heap /\ b \notin Parked /\ ~(refs[b] > 0)
  <2>1. Holds(t)
    BY <1>3, PoolAssumption DEF Holds
  <2>2. b \in heap \ Parked /\ refs[b] = 0
    BY <1>1, <1>3, <2>1 DEF PlacesRight
  <2>. QED  BY <2>2
<1>4. refs[b] > 0 => b \in heap /\ b \notin Parked
  BY <1>1 DEF PlacesRight
<1>5. b \in Parked => b \in heap
  BY <1>1 DEF PlacesRight
<1>6. b \in heap => b \in Parked \/ refs[b] > 0 \/ \E t \in Threads : thread[t].block = b
  BY <1>1 DEF PlacesRight
<1>7. CASE b \in Parked
  <2>1. ~(refs[b] > 0) /\ ~ \E t \in Threads : thread[t].block = b
    BY <1>3, <1>4, <1>7
  <2>. QED  BY <1>2, <1>5, <1>7, <2>1
<1>8. CASE b \notin Parked /\ refs[b] > 0
  <2>1. ~ \E t \in Threads : thread[t].block = b
    BY <1>3, <1>8
  <2>. QED  BY <1>2, <1>4, <1>8, <2>1
<1>9. CASE b \notin Parked /\ ~(refs[b] > 0)
  <2>1. b \in heap <=> \E t \in Threads : thread[t].block = b
    BY <1>3, <1>6, <1>9
  <2>. QED  BY <1>2, <1>9, <2>1
<1>. QED  BY <1>7, <1>8, <1>9

(* No block is leaked, parked twice, used and parked, or freed while       *)
(* somebody has it, whatever threads acquire, copy, drop, park and free in *)
(* whatever order, and whenever the pool dies.                             *)
THEOREM BlocksInOnePlace == Spec => []OnePlace
BY PoolInvariant, CountedOnce, PTL

(* retainedBytes is the sum of the parked capacities in every              *)
(* interleaving of acquire() and park(), never exceeds the budget, and a   *)
(* dead pool parks nothing. That park() puts a block into the bucket that  *)
(* acquire() will take it from with the same capacity is part of the       *)
(* invariant.                                                              *)
THEOREM RetainedIsSum == Spec => []RetainedExact
BY PoolInvariant, PTL DEF PoolInv

(* A holder has the room it asked for, in a new block and in a reused one. *)
THEOREM HoldersHaveRoom == Spec => []FitsRequest
BY PoolInvariant, PTL DEF PoolInv, SizesRight

-----------------------------------------------------------------------------
(***************************************************************************)
(* The request tracker, for any ids, timeouts, length of the history and   *)
(* order of calls: the two indices agree, the statistics add up, and a     *)
(* request is classified once when the host does not track again an id     *)
(* whose timeout the tracker still remembers.                              *)
(***************************************************************************)

(* WheelMatches without counting: no slot repeats an id, and a slot holds  *)
(* the ids that are due at its time.                                       *)
WheelInv ==
  /\ TrackerTypeOK
  /\ \A d \in Times : IsInjective(wheel[d])
  /\ \A id \in Ids, d \in Times : id \in ToSet(wheel[d]) <=> inFlight[id] = d

(* Without repetition, counting gives one.                                 *)
LEMMA WheelInvCounts == WheelInv => WheelMatches
<1>1. SUFFICES ASSUME WheelInv, NEW id \in Ids, NEW d \in Times
               PROVE  Occurrences(id, d) = IF inFlight[id] = d THEN 1 ELSE 0
  BY DEF WheelInv, WheelMatches
<1>. DEFINE At == {i \in DOMAIN wheel[d] : wheel[d][i] = id}
<1>2. CASE inFlight[id] = d
  <2>1. PICK i \in DOMAIN wheel[d] : wheel[d][i] = id
    BY <1>1, <1>2 DEF WheelInv, ToSet
  <2>2. At = {i}
    BY <1>1, <2>1 DEF WheelInv, IsInjective
  <2>. QED  BY <1>2, <2>2, FS_Singleton DEF Occurrences
<1>3. CASE inFlight[id] # d
  <2>1. At = {}
    BY <1>1, <1>3 DEF WheelInv, ToSet
  <2>. QED  BY <1>3, <2>1, FS_EmptySet DEF Occurrences
<1>. QED  BY <1>2, <1>3

(* An id is pending if it has a deadline.                                  *)
LEMMA PendingDeadline ==
  ASSUME TrackerTypeOK, NEW id \in Ids
  PROVE  Pending(id) <=> inFlight[id] \in Times
BY TrackerAssumption DEF TrackerTypeOK, Pending, Times

-----------------------------------------------------------------------------
(* A pending id is taken out of its slot and out of no other.              *)
LEMMA UnslottedWheel ==
  ASSUME WheelInv, NEW id \in Ids
  PROVE  /\ Unslotted(id) \in [Times -> Seq(Ids)]
         /\ \A d \in Times : IsInjective(Unslotted(id)[d])
         /\ \A k \in Ids, d \in Times :
              k \in ToSet(Unslotted(id)[d]) <=> k # id /\ inFlight[k] = d
<1>1. CASE ~Pending(id)
  <2>1. Unslotted(id) = wheel
    BY <1>1 DEF Unslotted
  <2>2. \A d \in Times : inFlight[id] # d
    BY <1>1, PendingDeadline DEF WheelInv
  <2>. QED  BY <2>1, <2>2 DEF WheelInv, TrackerTypeOK
<1>2. CASE Pending(id)
  <2>. DEFINE slot == inFlight[id]
  <2>1. slot \in Times /\ wheel \in [Times -> Seq(Ids)]
    BY <1>2, PendingDeadline DEF WheelInv, TrackerTypeOK
  <2>2. Unslotted(id) = [wheel EXCEPT ![slot] = RemoveFirst(wheel[slot], id)]
    BY <1>2 DEF Unslotted
  <2>3. wheel[slot] \in Seq(Ids) /\ IsInjective(wheel[slot])
    BY <2>1 DEF WheelInv
  <2>4. /\ RemoveFirst(wheel[slot], id) \in Seq(Ids) /\ IsInjective(RemoveFirst(wheel[slot], id))
        /\ ToSet(RemoveFirst(wheel[slot], id)) = ToSet(wheel[slot]) \ {id}
    BY <2>3, RemoveFirstInjective
  <2>5. ASSUME NEW d \in Times
        PROVE  /\ IsInjective(Unslotted(id)[d])
               /\ \A k \in Ids : k \in ToSet(Unslotted(id)[d]) <=> k # id /\ inFlight[k] = d
    <3>1. CASE d = slot
      BY <2>1, <2>2, <2>4, <3>1 DEF WheelInv
    <3>2. CASE d # slot
      BY <2>1, <2>2, <3>2 DEF WheelInv
    <3>. QED  BY <3>1, <3>2
  <2>. QED  BY <2>1, <2>2, <2>4, <2>5
<1>. QED  BY <1>1, <1>2

(* What a tick expires: the pending ids that are due, each once.           *)
DueIds(now) == {id \in Ids : Pending(id) /\ Due(inFlight[id], now)}

(* What tick() expires is every due id, once.                              *)
LEMMA ExpiredIds ==
  ASSUME WheelInv, NEW now
  PROVE  /\ Expired(now) \in Seq(Ids) /\ IsInjective(Expired(now))
         /\ ToSet(Expired(now)) = DueIds(now)
<1>. DEFINE slots == [d \in Times |-> IF Due(d, now) THEN wheel[d] ELSE <<>>]
<1>1. Horizon \in Nat /\ Times = 1..Horizon
  BY TrackerAssumption DEF Times
<1>2. slots \in [1..Horizon -> Seq(Ids)]
  BY <1>1 DEF WheelInv, TrackerTypeOK
<1>3. ToSet(<<>>) = {} /\ IsInjective(<<>>)
  BY DEF ToSet, IsInjective
<1>4. \A d \in Times : IsInjective(slots[d])
  BY <1>3 DEF WheelInv
<1>5. \A d \in Times : ToSet(slots[d]) = {id \in Ids : inFlight[id] = d /\ Due(d, now)}
  <2>1. SUFFICES ASSUME NEW d \in Times
                 PROVE  ToSet(slots[d]) = {id \in Ids : inFlight[id] = d /\ Due(d, now)}
    OBVIOUS
  <2>2. ToSet(wheel[d]) = {id \in Ids : inFlight[id] = d}
    <3>1. wheel[d] \in Seq(Ids)
      BY DEF WheelInv, TrackerTypeOK
    <3>2. ToSet(wheel[d]) \subseteq Ids
      BY <3>1, LenProperties, ElementOfSeq DEF ToSet
    <3>. QED  BY <3>2 DEF WheelInv
  <2>. QED  BY <1>3, <2>2
<1>6. \A i, j \in Times : i # j => ToSet(slots[i]) \cap ToSet(slots[j]) = {}
  BY <1>5
<1>. HIDE DEF slots
<1>7. /\ FlattenSeq(slots) \in Seq(Ids) /\ IsInjective(FlattenSeq(slots))
      /\ ToSet(FlattenSeq(slots)) = UNION {ToSet(slots[d]) : d \in Times}
  BY <1>1, <1>2, <1>4, <1>6, FlattenProperties
<1>8. UNION {ToSet(slots[d]) : d \in Times} = DueIds(now)
  <2>1. \A id \in Ids : Pending(id) <=> inFlight[id] \in Times
    BY PendingDeadline DEF WheelInv
  <2>. QED  BY <1>5, <2>1 DEF DueIds
<1>. QED  BY <1>7, <1>8 DEF Expired, slots

(* The history keeps the end of what it is given.                          *)
LEMMA NewestIsSuffix ==
  ASSUME NEW s \in Seq(Ids)
  PROVE  /\ Newest(s) \in Seq(Ids) /\ Len(Newest(s)) <= KHistory /\ Len(Newest(s)) <= Len(s)
         /\ ToSet(Newest(s)) \subseteq ToSet(s)
         /\ IsInjective(s) => IsInjective(Newest(s))
<1>1. Len(s) \in Nat /\ DOMAIN s = 1..Len(s) /\ KHistory \in Nat /\ \A i \in 1..Len(s) : s[i] \in Ids
  BY LenProperties, ElementOfSeq, TrackerAssumption
<1>2. CASE ~(Len(s) > KHistory)
  BY <1>1, <1>2 DEF Newest
<1>3. CASE Len(s) > KHistory
  <2>. DEFINE cut == Len(s) - KHistory
              r == SubSeq(s, cut + 1, Len(s))
  <2>1. /\ cut \in Nat /\ cut + 1 \in Int /\ Len(s) \in Int
        /\ Len(s) - (cut + 1) + 1 = KHistory
        /\ \A i \in (cut + 1)..Len(s) : i \in 1..Len(s)
        /\ \A i \in 1..KHistory : (cut + 1) + i - 1 = cut + i /\ cut + i \in 1..Len(s)
    BY <1>1, <1>3
  <2>2. KHistory = IF cut + 1 <= Len(s) THEN Len(s) - (cut + 1) + 1 ELSE 0
    <3>1. KHistory = 0 \/ cut + 1 <= Len(s)
      BY <1>1, <1>3
    <3>2. KHistory = 0 => ~(cut + 1 <= Len(s))
      BY <1>1, <1>3
    <3>. QED  BY <2>1, <3>1, <3>2
  <2>3. Newest(s) = r
    BY <1>1, <1>3 DEF Newest
  <2>. HIDE DEF cut
  <2>4. \A i \in (cut + 1)..Len(s) : s[i] \in Ids
    BY <1>1, <2>1
  <2>5. r \in Seq(Ids) /\ Len(r) = KHistory /\ \A i \in 1..KHistory : r[i] = s[cut + i]
    BY <2>1, <2>2, <2>4, SubSeqProperties
  <2>. HIDE DEF r
  <2>6. DOMAIN r = 1..KHistory
    BY <2>5, LenProperties
  <2>7. ToSet(r) \subseteq ToSet(s)
    BY <1>1, <2>1, <2>5, <2>6 DEF ToSet
  <2>8. ASSUME IsInjective(s) PROVE IsInjective(r)
    <3>1. \A i, j \in 1..KHistory : cut + i = cut + j => i = j
      BY <1>1, <2>1
    <3>. QED  BY SMTT(40), <1>1, <2>1, <2>5, <2>6, <2>8, <3>1 DEF IsInjective
  <2>. QED  BY <1>1, <1>3, <2>3, <2>5, <2>7, <2>8
<1>. QED  BY <1>2, <1>3

-----------------------------------------------------------------------------
(* An expiry, of tick() or of expireAll(): the slots up to a time are      *)
(* emptied and their ids moved.                                            *)
Expires(now, how) ==
  /\ wheel' = [d \in Times |-> IF Due(d, now) THEN <<>> ELSE wheel[d]]
  /\ MoveTimedOut(Expired(now), how)
  /\ UNCHANGED <<clock, registered, forgotten>>

(* tick() expires up to the clock ...                                      *)
LEMMA TickExpires == Tick => Expires(clock, "timedOut")
BY DEF Tick, Expires

(* ... and expireAll() everything.                                         *)
LEMMA ExpireAllExpires == ExpireAll => Expires(Horizon, "lost")
<1>1. \A d \in Times : Due(d, Horizon)
  BY TrackerAssumption DEF Times, Due
<1>. QED  BY <1>1 DEF ExpireAll, Expires

Stats == [acked : Nat, timedOut : Nat, lateAcks : Nat]

(* The counters, and each of them set.                                     *)
LEMMA StatsRecord ==
  ASSUME TrackerTypeOK
  PROVE  /\ stats.acked \in Nat /\ stats.timedOut \in Nat /\ stats.lateAcks \in Nat
         /\ \A n \in Nat :
              /\ [stats EXCEPT !.acked = n] \in Stats
              /\ [stats EXCEPT !.timedOut = n] \in Stats
              /\ [stats EXCEPT !.lateAcks = n] \in Stats
              /\ [stats EXCEPT !.acked = n] =
                   [acked |-> n, timedOut |-> stats.timedOut, lateAcks |-> stats.lateAcks]
              /\ [stats EXCEPT !.timedOut = n] =
                   [acked |-> stats.acked, timedOut |-> n, lateAcks |-> stats.lateAcks]
              /\ [stats EXCEPT !.lateAcks = n] =
                   [acked |-> stats.acked, timedOut |-> stats.timedOut, lateAcks |-> n]
BY DEF TrackerTypeOK, Stats

(* A new tracker has nothing in flight.                                    *)
LEMMA TrackerStarts == TrackerInit => WheelInv
<1>1. ASSUME TrackerInit PROVE WheelInv
  <2>1. 1 \in Times
    BY TrackerAssumption DEF Times
  <2>2. IsInjective(<<>>) /\ ToSet(<<>>) = {} /\ <<>> \in Seq(Ids) /\ Len(<<>>) = 0
    BY DEF IsInjective, ToSet
  <2>3. TrackerTypeOK
    BY <1>1, <2>1, <2>2, TrackerAssumption DEF TrackerInit, TrackerTypeOK, Fates
  <2>4. \A d \in Times : NoDeadline # d
    BY TrackerAssumption DEF Times
  <2>. QED  BY <1>1, <2>2, <2>3, <2>4 DEF TrackerInit, WheelInv
<1>. QED  BY <1>1

(* track() files the id in the slot of its deadline and nowhere else.      *)
LEMMA WheelTrack ==
  ASSUME WheelInv, NEW id \in Ids, NEW timeout \in Timeouts, Track(id, timeout)
  PROVE  WheelInv'
<1>. DEFINE deadline == clock + timeout
            without == Unslotted(id)
<1>1. deadline \in Times
  BY TrackerAssumption DEF Track, WheelInv, TrackerTypeOK, Times
<1>2. /\ without \in [Times -> Seq(Ids)]
      /\ \A d \in Times : IsInjective(without[d])
      /\ \A k \in Ids, d \in Times : k \in ToSet(without[d]) <=> k # id /\ inFlight[k] = d
  BY UnslottedWheel
<1>3. /\ inFlight' = [inFlight EXCEPT ![id] = deadline]
      /\ wheel' = [without EXCEPT ![deadline] = Append(without[deadline], id)]
  BY DEF Track
<1>. HIDE DEF deadline, without
<1>4. without[deadline] \in Seq(Ids) /\ id \notin ToSet(without[deadline])
  BY <1>1, <1>2
<1>5. /\ Append(without[deadline], id) \in Seq(Ids)
      /\ IsInjective(Append(without[deadline], id))
      /\ ToSet(Append(without[deadline], id)) = ToSet(without[deadline]) \cup {id}
  <2>1. IsInjective(without[deadline])
    BY <1>1, <1>2
  <2>. QED  BY <1>4, <2>1, AppendInjectiveSequence
<1>6. TrackerTypeOK'
  <2>1. inFlight' \in [Ids -> Times \cup {NoDeadline}] /\ wheel' \in [Times -> Seq(Ids)]
    BY <1>1, <1>2, <1>3, <1>5 DEF WheelInv, TrackerTypeOK
  <2>2. fate' \in [Ids -> Fates] /\ registered' \in Nat
    BY DEF Track, WheelInv, TrackerTypeOK, Fates
  <2>. QED  BY <2>1, <2>2 DEF Track, WheelInv, TrackerTypeOK
<1>7. ASSUME NEW d \in Times
      PROVE  /\ IsInjective(wheel'[d])
             /\ \A k \in Ids : k \in ToSet(wheel'[d]) <=> inFlight'[k] = d
  <2>1. \A k \in Ids : inFlight'[k] = IF k = id THEN deadline ELSE inFlight[k]
    BY <1>3 DEF WheelInv, TrackerTypeOK
  <2>2. CASE d = deadline
    BY <1>1, <1>2, <1>3, <1>5, <2>1, <2>2
  <2>3. CASE d # deadline
    <3>1. wheel'[d] = without[d]
      BY <1>2, <1>3, <2>3
    <3>. QED  BY <1>2, <2>1, <2>3, <3>1
  <2>. QED  BY <2>2, <2>3
<1>. QED  BY <1>6, <1>7 DEF WheelInv

(* complete() and forget() of a pending id take it out of both indices.    *)
LEMMA WheelWithout ==
  ASSUME WheelInv, NEW id \in Ids, TrackerTypeOK',
         wheel' = Unslotted(id), inFlight' = [inFlight EXCEPT ![id] = NoDeadline]
  PROVE  WheelInv'
<1>1. \A k \in Ids : inFlight'[k] = IF k = id THEN NoDeadline ELSE inFlight[k]
  BY DEF WheelInv, TrackerTypeOK
<1>2. \A d \in Times : NoDeadline # d
  BY TrackerAssumption DEF Times
<1>3. /\ \A d \in Times : IsInjective(wheel'[d])
      /\ \A k \in Ids, d \in Times : k \in ToSet(wheel'[d]) <=> k # id /\ inFlight[k] = d
  BY UnslottedWheel
<1>4. \A k \in Ids, d \in Times : k \in ToSet(wheel'[d]) <=> inFlight'[k] = d
  BY <1>1, <1>2, <1>3
<1>. QED  BY <1>3, <1>4 DEF WheelInv

(* Expiry removes slots whole.                                             *)
LEMMA WheelExpires ==
  ASSUME WheelInv, NEW now, NEW how \in Fates, Expires(now, how)
  PROVE  WheelInv'
<1>. DEFINE X == Expired(now)
<1>1. X \in Seq(Ids) /\ IsInjective(X) /\ ToSet(X) = DueIds(now)
  BY ExpiredIds
<1>2. Len(X) \in Nat
  BY <1>1, LenProperties
<1>3. /\ inFlight' = [id \in Ids |-> IF id \in ToSet(X) THEN NoDeadline ELSE inFlight[id]]
      /\ history' = Newest(history \o X)
      /\ stats' = [stats EXCEPT !.timedOut = @ + Len(X)]
      /\ fate' = [id \in Ids |-> IF id \in ToSet(X) THEN how ELSE fate[id]]
      /\ wheel' = [d \in Times |-> IF Due(d, now) THEN <<>> ELSE wheel[d]]
  BY DEF Expires, MoveTimedOut
<1>. HIDE DEF X
<1>4. TrackerTypeOK'
  <2>1. history \o X \in Seq(Ids)
    BY <1>1, ConcatProperties DEF WheelInv, TrackerTypeOK
  <2>2. history' \in Seq(Ids) /\ Len(history') <= KHistory
    BY <1>3, <2>1, NewestIsSuffix
  <2>3. stats' \in [acked : Nat, timedOut : Nat, lateAcks : Nat]
    <3>1. stats.timedOut + Len(X) \in Nat
      BY <1>2, StatsRecord DEF WheelInv
    <3>. QED  BY <1>3, <3>1, StatsRecord DEF WheelInv, Stats
  <2>4. wheel' \in [Times -> Seq(Ids)]
    BY <1>3 DEF WheelInv, TrackerTypeOK
  <2>5. inFlight' \in [Ids -> Times \cup {NoDeadline}] /\ fate' \in [Ids -> Fates]
    BY <1>3 DEF WheelInv, TrackerTypeOK
  <2>. QED  BY <2>2, <2>3, <2>4, <2>5 DEF Expires, WheelInv, TrackerTypeOK
<1>5. ToSet(<<>>) = {} /\ IsInjective(<<>>)
  BY DEF ToSet, IsInjective
<1>6. ASSUME NEW id \in Ids, NEW d \in Times
      PROVE  id \in ToSet(wheel'[d]) <=> inFlight'[id] = d
  <2>1. NoDeadline # d /\ (inFlight[id] = d => Pending(id))
    BY TrackerAssumption DEF Times, Pending
  <2>2. inFlight'[id] = d <=> inFlight[id] = d /\ ~Due(d, now)
    BY <1>1, <1>3, <2>1 DEF DueIds
  <2>. QED  BY <1>3, <1>5, <2>2 DEF WheelInv
<1>. QED  BY <1>3, <1>4, <1>5, <1>6 DEF WheelInv

(* Every call keeps the wheel in step with the ids in flight.              *)
LEMMA WheelStep ==
  ASSUME WheelInv, [TrackerNext]_trackerVars
  PROVE  WheelInv'
<1>1. CASE \E id \in Ids, d \in Timeouts : Track(id, d)
  BY <1>1, WheelTrack
<1>2. ASSUME NEW id \in Ids, CompletePending(id), UNCHANGED <<clock, registered, forgotten>>
      PROVE  WheelInv'
  <2>1. stats' \in [acked : Nat, timedOut : Nat, lateAcks : Nat]
    <3>1. stats.acked + 1 \in Nat /\ stats' = [stats EXCEPT !.acked = stats.acked + 1]
      BY <1>2, StatsRecord DEF CompletePending, WheelInv
    <3>. QED  BY <3>1, StatsRecord DEF WheelInv, Stats
  <2>2. TrackerTypeOK'
    BY <1>2, <2>1, UnslottedWheel DEF CompletePending, WheelInv, TrackerTypeOK, Fates
  <2>. QED  BY <1>2, <2>2, WheelWithout DEF CompletePending
<1>3. ASSUME NEW id \in Ids, CompleteLate(id), UNCHANGED <<clock, registered, forgotten>>
      PROVE  WheelInv'
  <2>1. stats' \in [acked : Nat, timedOut : Nat, lateAcks : Nat]
    <3>1. stats.lateAcks + 1 \in Nat /\ stats' = [stats EXCEPT !.lateAcks = stats.lateAcks + 1]
      BY <1>3, StatsRecord DEF CompleteLate, WheelInv
    <3>. QED  BY <3>1, StatsRecord DEF WheelInv, Stats
  <2>2. history' \in Seq(Ids) /\ Len(history') = Len(history) - 1
    BY <1>3, RemoveFirstPosition DEF CompleteLate, Remembered, Classified, WheelInv, TrackerTypeOK
  <2>3. Len(history') <= KHistory
    BY <2>2, LenProperties, TrackerAssumption DEF WheelInv, TrackerTypeOK
  <2>. QED  BY <1>3, <2>1, <2>2, <2>3 DEF CompleteLate, WheelInv, TrackerTypeOK, Fates
<1>4. ASSUME NEW id \in Ids, CompleteUnknown(id), UNCHANGED <<clock, registered, forgotten>>
      PROVE  WheelInv'
  BY <1>4 DEF CompleteUnknown, WheelInv, TrackerTypeOK
<1>5. ASSUME NEW id \in Ids, Forget(id) PROVE WheelInv'
  <2>1. TrackerTypeOK'
    BY <1>5, UnslottedWheel DEF Forget, WheelInv, TrackerTypeOK, Fates
  <2>. QED  BY <1>5, <2>1, WheelWithout DEF Forget
<1>6. CASE Tick
  BY <1>6, TickExpires, WheelExpires DEF Fates
<1>7. CASE ExpireAll
  BY <1>7, ExpireAllExpires, WheelExpires DEF Fates
<1>8. CASE Advance
  <2>1. clock' \in Times
    BY <1>8, TrackerAssumption DEF Advance, WheelInv, TrackerTypeOK, Times
  <2>. QED  BY <1>8, <2>1 DEF Advance, WheelInv, TrackerTypeOK
<1>9. CASE UNCHANGED trackerVars
  BY <1>9 DEF trackerVars, WheelInv, TrackerTypeOK
<1>. QED  BY <1>1, <1>2, <1>3, <1>4, <1>5, <1>6, <1>7, <1>8, <1>9 DEF TrackerNext, Complete

(* The two indices of the tracker agree, whatever is tracked, refreshed,   *)
(* answered, forgotten or expired in whatever order (m_inFlight and        *)
(* m_wheel of RequestTracker.cpp).                                         *)
THEOREM IndicesAgree == TrackerSpec => []WheelMatches
<1>1. TrackerSpec => []WheelInv
  BY TrackerStarts, WheelStep, PTL DEF TrackerSpec
<1>. QED  BY <1>1, WheelInvCounts, PTL

-----------------------------------------------------------------------------
(* The statistics speak of the number of pending ids, so there must be one *)
(* at any time.                                                            *)
PendingIds == {id \in Ids : Pending(id)}
StatsInv == IsFiniteSet(PendingIds) /\ StatsTruthful

(* The counters are numbers.                                               *)
LEMMA StatsTyped ==
  ASSUME WheelInv, StatsInv
  PROVE  /\ Cardinality(PendingIds) \in Nat /\ registered \in Nat /\ forgotten \in Nat
         /\ stats.acked \in Nat /\ stats.timedOut \in Nat /\ stats.lateAcks \in Nat
         /\ Len(history) \in Nat
         /\ registered = Cardinality(PendingIds) + stats.acked + stats.timedOut + forgotten
         /\ stats.lateAcks + Len(history) <= stats.timedOut
<1>1. registered \in Nat /\ forgotten \in Nat /\ Len(history) \in Nat
  BY LenProperties DEF WheelInv, TrackerTypeOK
<1>. QED  BY <1>1, StatsRecord, FS_CardinalityType DEF WheelInv, StatsInv, StatsTruthful, PendingIds

(* One id more, or one less, is pending.                                   *)
LEMMA PendingAdded ==
  ASSUME WheelInv, StatsInv, NEW id \in Ids, NEW deadline \in Times,
         inFlight' = [inFlight EXCEPT ![id] = deadline]
  PROVE  /\ IsFiniteSet(PendingIds')
         /\ Cardinality(PendingIds') =
              IF Pending(id) THEN Cardinality(PendingIds) ELSE Cardinality(PendingIds) + 1
<1>1. deadline # NoDeadline
  BY TrackerAssumption DEF Times
<1>2. PendingIds' = PendingIds \cup {id} /\ (id \in PendingIds <=> Pending(id))
  BY <1>1 DEF PendingIds, Pending, WheelInv, TrackerTypeOK
<1>. QED  BY <1>2, FS_AddElement DEF StatsInv

(* An id that is removed is one less in flight.                            *)
LEMMA PendingRemoved ==
  ASSUME WheelInv, StatsInv, NEW id \in Ids,
         inFlight' = [inFlight EXCEPT ![id] = NoDeadline]
  PROVE  /\ IsFiniteSet(PendingIds')
         /\ Cardinality(PendingIds') =
              IF Pending(id) THEN Cardinality(PendingIds) - 1 ELSE Cardinality(PendingIds)
<1>1. PendingIds' = PendingIds \ {id} /\ (id \in PendingIds <=> Pending(id))
  BY DEF PendingIds, Pending, WheelInv, TrackerTypeOK
<1>. QED  BY <1>1, FS_RemoveElement DEF StatsInv

(* Expiry counts each id it removes once ...                               *)
LEMMA StatsExpires ==
  ASSUME WheelInv, StatsInv, NEW now, NEW how, Expires(now, how)
  PROVE  StatsInv'
<1>. DEFINE X == Expired(now)
<1>1. X \in Seq(Ids) /\ IsInjective(X) /\ ToSet(X) = DueIds(now)
  BY ExpiredIds
<1>2. /\ inFlight' = [id \in Ids |-> IF id \in ToSet(X) THEN NoDeadline ELSE inFlight[id]]
      /\ history' = Newest(history \o X)
      /\ stats' = [stats EXCEPT !.timedOut = stats.timedOut + Len(X)]
      /\ UNCHANGED <<registered, forgotten>>
  BY DEF Expires, MoveTimedOut
<1>. HIDE DEF X
<1>3. PendingIds' = PendingIds \ DueIds(now) /\ PendingIds \cap DueIds(now) = DueIds(now)
  BY <1>1, <1>2 DEF PendingIds, DueIds, Pending
<1>4. Cardinality(DueIds(now)) = Len(X) /\ Len(X) \in Nat
  BY <1>1, InjectiveSequence, LenProperties
<1>5. IsFiniteSet(PendingIds') /\ Cardinality(PendingIds') = Cardinality(PendingIds) - Len(X)
  <2>1. /\ IsFiniteSet(PendingIds \ DueIds(now))
        /\ Cardinality(PendingIds \ DueIds(now)) =
             Cardinality(PendingIds) - Cardinality(PendingIds \cap DueIds(now))
    BY FS_Difference DEF StatsInv
  <2>. QED  BY <1>3, <1>4, <2>1
<1>6. /\ stats'.acked = stats.acked /\ stats'.lateAcks = stats.lateAcks
      /\ stats'.timedOut = stats.timedOut + Len(X)
  <2>1. stats.timedOut + Len(X) \in Nat
    BY <1>4, StatsTyped
  <2>. QED  BY <1>2, <2>1, StatsRecord DEF WheelInv
<1>7. Len(history') \in Nat /\ Len(history') <= Len(history) + Len(X)
  <2>1. history \in Seq(Ids)
    BY DEF WheelInv, TrackerTypeOK
  <2>2. history \o X \in Seq(Ids) /\ Len(history \o X) = Len(history) + Len(X)
    BY <1>1, <2>1, ConcatProperties
  <2>. QED  BY <1>2, <2>2, NewestIsSuffix, LenProperties
<1>8. registered' = Cardinality(PendingIds') + stats'.acked + stats'.timedOut + forgotten'
  BY <1>2, <1>4, <1>5, <1>6, StatsTyped
<1>9. stats'.lateAcks + Len(history') <= stats'.timedOut
  BY <1>4, <1>6, <1>7, StatsTyped
<1>. QED  BY <1>5, <1>8, <1>9 DEF StatsInv, StatsTruthful, PendingIds

(* ... from nothing ...                                                    *)
LEMMA StatsInit == TrackerInit => StatsInv
<1>1. ASSUME TrackerInit PROVE StatsInv
  <2>1. PendingIds = {}
    BY <1>1 DEF TrackerInit, PendingIds, Pending
  <2>2. IsFiniteSet(PendingIds) /\ Cardinality(PendingIds) = 0
    BY <2>1, FS_EmptySet
  <2>3. /\ registered = 0 /\ forgotten = 0 /\ Len(history) = 0
        /\ stats.acked = 0 /\ stats.timedOut = 0 /\ stats.lateAcks = 0
    BY <1>1 DEF TrackerInit
  <2>4. StatsTruthful
    BY <2>2, <2>3 DEF StatsTruthful, PendingIds
  <2>. QED  BY <2>2, <2>4 DEF StatsInv
<1>. QED  BY <1>1

(* ... and every call keeps the counters exact.                            *)
LEMMA StatsStep ==
  ASSUME WheelInv, StatsInv, [TrackerNext]_trackerVars
  PROVE  StatsInv'
<1>1. ASSUME NEW id \in Ids, NEW timeout \in Timeouts, Track(id, timeout) PROVE StatsInv'
  <2>1. clock + timeout \in Times
    BY <1>1, TrackerAssumption DEF Track, WheelInv, TrackerTypeOK, Times
  <2>2. /\ IsFiniteSet(PendingIds')
        /\ Cardinality(PendingIds') =
             IF Pending(id) THEN Cardinality(PendingIds) ELSE Cardinality(PendingIds) + 1
    BY <1>1, <2>1, PendingAdded DEF Track
  <2>3. /\ registered' = IF Pending(id) THEN registered ELSE registered + 1
        /\ UNCHANGED <<history, stats, forgotten>>
    BY <1>1 DEF Track
  <2>4. registered' = Cardinality(PendingIds') + stats'.acked + stats'.timedOut + forgotten'
    <3>1. stats' = stats /\ forgotten' = forgotten
      BY <2>3
    <3>2. \/ registered' = registered /\ Cardinality(PendingIds') = Cardinality(PendingIds)
          \/ registered' = registered + 1 /\ Cardinality(PendingIds') = Cardinality(PendingIds) + 1
      BY <2>2, <2>3
    <3>3. \A r, c, n, t, f \in Nat : r = c + n + t + f => r + 1 = (c + 1) + n + t + f
      OBVIOUS
    <3>4. registered + 1 = (Cardinality(PendingIds) + 1) + stats.acked + stats.timedOut + forgotten
      <4>. DEFINE c == Cardinality(PendingIds)
                  n == stats.acked
                  t == stats.timedOut
      <4>1. /\ registered \in Nat /\ c \in Nat /\ n \in Nat /\ t \in Nat /\ forgotten \in Nat
            /\ registered = c + n + t + forgotten
        BY StatsTyped
      <4>. HIDE DEF c, n, t
      <4>2. registered + 1 = (c + 1) + n + t + forgotten
        BY <3>3, <4>1
      <4>. QED  BY <4>2 DEF c, n, t
    <3>. QED  BY <3>1, <3>2, <3>4, StatsTyped
  <2>. QED  BY <2>2, <2>3, <2>4, StatsTyped DEF StatsInv, StatsTruthful, PendingIds
<1>2. ASSUME NEW id \in Ids, CompletePending(id), UNCHANGED <<clock, registered, forgotten>>
      PROVE  StatsInv'
  <2>1. IsFiniteSet(PendingIds') /\ Cardinality(PendingIds') = Cardinality(PendingIds) - 1
    BY <1>2, PendingRemoved DEF CompletePending
  <2>2. /\ stats'.acked = stats.acked + 1 /\ stats'.lateAcks = stats.lateAcks
        /\ stats'.timedOut = stats.timedOut
    <3>1. stats.acked + 1 \in Nat /\ stats' = [stats EXCEPT !.acked = stats.acked + 1]
      BY <1>2, StatsTyped DEF CompletePending
    <3>. QED  BY <3>1, StatsRecord DEF WheelInv
  <2>3. registered' = Cardinality(PendingIds') + stats'.acked + stats'.timedOut + forgotten'
    BY SMTT(40), <1>2, <2>1, <2>2, StatsTyped
  <2>4. stats'.lateAcks + Len(history') <= stats'.timedOut
    BY <1>2, <2>2, StatsTyped DEF CompletePending
  <2>. QED  BY <2>1, <2>3, <2>4 DEF StatsInv, StatsTruthful, PendingIds
<1>3. ASSUME NEW id \in Ids, CompleteLate(id), UNCHANGED <<clock, registered, forgotten>>
      PROVE  StatsInv'
  <2>1. PendingIds' = PendingIds
    BY <1>3 DEF CompleteLate, PendingIds, Pending
  <2>2. /\ stats'.acked = stats.acked /\ stats'.lateAcks = stats.lateAcks + 1
        /\ stats'.timedOut = stats.timedOut
    <3>1. stats.lateAcks + 1 \in Nat /\ stats' = [stats EXCEPT !.lateAcks = stats.lateAcks + 1]
      BY <1>3, StatsTyped DEF CompleteLate
    <3>. QED  BY <3>1, StatsRecord DEF WheelInv
  <2>3. Len(history') = Len(history) - 1
    BY <1>3, RemoveFirstPosition DEF CompleteLate, Remembered, Classified, WheelInv, TrackerTypeOK
  <2>4. stats'.lateAcks + Len(history') <= stats'.timedOut
    BY <2>2, <2>3, StatsTyped
  <2>5. registered' = Cardinality(PendingIds') + stats'.acked + stats'.timedOut + forgotten'
    BY <1>3, <2>1, <2>2, StatsTyped
  <2>6. IsFiniteSet(PendingIds')
    BY <2>1 DEF StatsInv
  <2>. QED  BY <2>4, <2>5, <2>6 DEF StatsInv, StatsTruthful, PendingIds
<1>4. ASSUME NEW id \in Ids, Forget(id) PROVE StatsInv'
  <2>1. /\ IsFiniteSet(PendingIds')
        /\ Cardinality(PendingIds') =
             IF Pending(id) THEN Cardinality(PendingIds) - 1 ELSE Cardinality(PendingIds)
    BY <1>4, PendingRemoved DEF Forget
  <2>2. /\ forgotten' = IF Pending(id) THEN forgotten + 1 ELSE forgotten
        /\ UNCHANGED <<history, stats, registered>>
    BY <1>4 DEF Forget
  <2>3. registered' = Cardinality(PendingIds') + stats'.acked + stats'.timedOut + forgotten'
    <3>1. stats' = stats /\ registered' = registered
      BY <2>2
    <3>2. \/ forgotten' = forgotten /\ Cardinality(PendingIds') = Cardinality(PendingIds)
          \/ forgotten' = forgotten + 1 /\ Cardinality(PendingIds') = Cardinality(PendingIds) - 1
      BY <2>1, <2>2
    <3>. QED  BY SMTT(40), <3>1, <3>2, StatsTyped
  <2>. QED  BY <2>1, <2>2, <2>3, StatsTyped DEF StatsInv, StatsTruthful, PendingIds
<1>5. CASE Tick
  BY <1>5, TickExpires, StatsExpires
<1>6. CASE ExpireAll
  BY <1>6, ExpireAllExpires, StatsExpires
<1>7. CASE UNCHANGED <<inFlight, history, stats, registered, forgotten>>
  BY <1>7 DEF StatsInv, StatsTruthful, PendingIds, Pending
<1>. QED  BY <1>1, <1>2, <1>3, <1>4, <1>5, <1>6, <1>7
          DEF TrackerNext, Complete, CompleteUnknown, Advance, trackerVars

(* "Stats stay truthful about outcomes": every request registered by       *)
(* track() is pending, or was counted once when it was answered or timed   *)
(* out, or was forgotten.                                                  *)
THEOREM StatisticsAddUp == TrackerSpec => []StatsTruthful
<1>1. TrackerSpec => []WheelInv
  BY TrackerStarts, WheelStep, PTL DEF TrackerSpec
<1>2. TrackerSpec => []StatsInv
  BY <1>1, StatsInit, StatsStep, PTL DEF TrackerSpec
<1>3. StatsInv => StatsTruthful
  BY DEF StatsInv
<1>. QED  BY <1>2, <1>3, PTL

-----------------------------------------------------------------------------
(* Nothing has been classified yet.                                        *)
LEMMA ClassifiedInit == TrackerInit => ClassifiedOnce
BY DEF TrackerInit, ClassifiedOnce, ToSet

(* The expired ids were pending, so none of them stood in the history.     *)
LEMMA ClassifiedExpires ==
  ASSUME WheelInv, ClassifiedOnce, NEW now, NEW how \in {"timedOut", "lost"}, Expires(now, how)
  PROVE  ClassifiedOnce'
<1>. DEFINE X == Expired(now)
            h == history \o X
<1>1. X \in Seq(Ids) /\ IsInjective(X) /\ ToSet(X) = DueIds(now)
  BY ExpiredIds
<1>2. history \in Seq(Ids) /\ IsInjective(history) /\ ToSet(history) \cap ToSet(X) = {}
  BY <1>1 DEF WheelInv, TrackerTypeOK, ClassifiedOnce, IsInjective, DueIds
<1>3. h \in Seq(Ids) /\ ToSet(h) = ToSet(history) \cup ToSet(X) /\ IsInjective(h)
  <2>. HIDE DEF X
  <2>. QED  BY <1>1, <1>2, ConcatInjective
<1>4. /\ inFlight' = [id \in Ids |-> IF id \in ToSet(X) THEN NoDeadline ELSE inFlight[id]]
      /\ fate' = [id \in Ids |-> IF id \in ToSet(X) THEN how ELSE fate[id]]
      /\ history' = Newest(h)
  BY DEF Expires, MoveTimedOut
<1>. HIDE DEF X, h
<1>5. IsInjective(history') /\ ToSet(history') \subseteq ToSet(history) \cup ToSet(X)
  BY <1>3, <1>4, NewestIsSuffix
<1>6. ToSet(history) \subseteq Ids /\ ToSet(X) \subseteq Ids
  BY <1>1, <1>2, LenProperties, ElementOfSeq DEF ToSet
<1>7. \A id \in ToSet(history) \cup ToSet(X) :
        ~Pending(id)' /\ fate'[id] \notin {"none", "acked", "late"}
  BY <1>4, <1>6 DEF Pending, ClassifiedOnce
<1>. QED  BY <1>5, <1>7 DEF ClassifiedOnce, IsInjective

(* No call gives an id a second outcome, if ids are not used again.        *)
LEMMA ClassifiedStep ==
  ASSUME ~Reuse, WheelInv, ClassifiedOnce, [TrackerNext]_trackerVars
  PROVE  ClassifiedOnce'
<1>1. history \in Seq(Ids) /\ ToSet(history) \subseteq Ids /\ IsInjective(history)
  <2>1. history \in Seq(Ids)
    BY DEF WheelInv, TrackerTypeOK
  <2>. QED  BY <2>1, LenProperties, ElementOfSeq DEF ToSet, ClassifiedOnce, IsInjective
<1>2. ASSUME NEW id \in Ids, NEW timeout \in Timeouts, Track(id, timeout) PROVE ClassifiedOnce'
  <2>1. id \notin ToSet(history) /\ history' = history
    BY <1>2 DEF Track, Remembered, ClassifiedOnce, Pending
  <2>2. \A k \in ToSet(history) : inFlight'[k] = inFlight[k] /\ fate'[k] = fate[k]
    BY <1>1, <1>2, <2>1 DEF Track, WheelInv, TrackerTypeOK
  <2>. QED  BY <2>1, <2>2 DEF ClassifiedOnce, Pending
<1>3. ASSUME NEW id \in Ids, CompletePending(id) PROVE ClassifiedOnce'
  <2>1. id \notin ToSet(history) /\ history' = history
    BY <1>3 DEF CompletePending, ClassifiedOnce
  <2>2. \A k \in ToSet(history) : inFlight'[k] = inFlight[k] /\ fate'[k] = fate[k]
    BY <1>1, <1>3, <2>1 DEF CompletePending, WheelInv, TrackerTypeOK
  <2>. QED  BY <2>1, <2>2 DEF ClassifiedOnce, Pending
<1>4. ASSUME NEW id \in Ids, CompleteLate(id) PROVE ClassifiedOnce'
  <2>1. history' = RemoveFirst(history, id)
    BY <1>4 DEF CompleteLate, Classified
  <2>2. ToSet(history') = ToSet(history) \ {id} /\ IsInjective(history')
    BY <1>1, <2>1, RemoveFirstInjective
  <2>3. \A k \in ToSet(history') : inFlight'[k] = inFlight[k] /\ fate'[k] = fate[k]
    BY <1>1, <1>4, <2>2 DEF CompleteLate, WheelInv, TrackerTypeOK
  <2>. QED  BY <2>2, <2>3 DEF ClassifiedOnce, Pending, IsInjective
<1>5. ASSUME NEW id \in Ids, Forget(id) PROVE ClassifiedOnce'
  <2>1. history' = history
    BY <1>5 DEF Forget
  <2>2. \A k \in ToSet(history) :
          ~Pending(k)' /\ fate'[k] \notin {"none", "acked", "late"}
    BY <1>1, <1>5 DEF Forget, Pending, ClassifiedOnce, WheelInv, TrackerTypeOK
  <2>. QED  BY <2>1, <2>2 DEF ClassifiedOnce
<1>6. CASE Tick
  BY <1>6, TickExpires, ClassifiedExpires
<1>7. CASE ExpireAll
  BY <1>7, ExpireAllExpires, ClassifiedExpires
<1>8. CASE UNCHANGED <<inFlight, history, fate>>
  BY <1>8 DEF ClassifiedOnce, Pending
<1>. QED  BY <1>2, <1>3, <1>4, <1>5, <1>6, <1>7, <1>8
          DEF TrackerNext, Complete, CompleteUnknown, Advance, trackerVars

(* "Single classification" (complete() in RequestTracker.cpp): as long as  *)
(* the host does not track again an id the history remembers, an answered  *)
(* request is in neither index nor in the history.                         *)
THEOREM SingleClassification == ~Reuse => (TrackerSpec => []ClassifiedOnce)
<1>1. TrackerSpec => []WheelInv
  BY TrackerStarts, WheelStep, PTL DEF TrackerSpec
<1>2. ASSUME ~Reuse PROVE TrackerSpec => []ClassifiedOnce
  <2>1. WheelInv /\ ClassifiedOnce /\ [TrackerNext]_trackerVars => ClassifiedOnce'
    BY <1>2, ClassifiedStep
  <2>. QED  BY <1>1, <2>1, ClassifiedInit, PTL DEF TrackerSpec
<1>. QED  BY <1>2

-----------------------------------------------------------------------------
(***************************************************************************)
(* What a watcher is told, for every number of services, scopes and        *)
(* watchers, every depth of nested fireWatchers() loops and every call a   *)
(* callback may make.                                                      *)
(*                                                                         *)
(* StaleIsPending is not inductive: that a loop still carries the right    *)
(* value for a watcher rests on the value being true for all watchers of   *)
(* the loop that have not been overtaken, that no other loop overwrites it *)
(* on no such watcher waiting in two loops, and that a delivery corrects   *)
(* one watcher only on tokens being unique among the watchers registered   *)
(* and those that loops still hold.                                        *)
(***************************************************************************)

Loops(s) == {s[i] : i \in 1..Len(s)}
Waiting(s) == UNION {s[i].todo : i \in 1..Len(s)}
Apart(s, X) == \A i, j \in 1..Len(s) : i # j => s[i].todo \cap s[j].todo \subseteq X

(* A loop holds watchers of its id, and carries what is true of it for     *)
(* those that are not in X.                                                *)
Fits(f, X) ==
  /\ \A w \in f.todo : w.svc = f.svc
  /\ \A w \in f.todo \ X : f.val = Available(f.svc)

LoopsFit == \A f \in Loops(stack) : Fits(f, overtaken)
OneToken == \A u, v \in watchers \cup Waiting(stack) : u.tok = v.tok => u = v
Told ==
  \A w \in watchers \ overtaken :
    seen[w.tok] # Available(w.svc) => w \in Waiting(stack)

WatchInv == WatchTypeOK /\ LoopsFit /\ Apart(stack, overtaken) /\ OneToken /\ Told

(* A loop that starts: the watchers it adds to those waiting.              *)
LEMMA PendingPush ==
  ASSUME NEW s \in Seq(Frame), NEW x \in Frame, NEW X
  PROVE  /\ Waiting(<<x>> \o s) = x.todo \cup Waiting(s)
         /\ Apart(<<x>> \o s, X) <=> Apart(s, X) /\ x.todo \cap Waiting(s) \subseteq X
<1>. DEFINE r == <<x>> \o s
            n == Len(s)
<1>1. /\ r \in Seq(Frame) /\ Len(r) = n + 1 /\ r[1] = x /\ \A i \in 1..n : r[i + 1] = s[i]
  BY StackPush
<1>2. n \in Nat
  OBVIOUS
<1>. HIDE DEF r
<1>. HIDE DEF n
<1>3. /\ 1 \in 1..(n + 1)
      /\ \A i \in 1..(n + 1) : i = 1 \/ (i - 1 \in 1..n /\ (i - 1) + 1 = i)
      /\ \A i \in 1..n : i + 1 \in 1..(n + 1) /\ i + 1 # 1
      /\ \A i, j \in 1..n : i # j => i + 1 # j + 1
  BY <1>2
<1>4. \A i \in 1..(n + 1) : i = 1 \/ (i - 1 \in 1..n /\ r[i] = s[i - 1])
  BY <1>1, <1>3
<1>5. Waiting(r) = x.todo \cup Waiting(s)
  <2>1. ASSUME NEW w PROVE w \in Waiting(r) <=> \E i \in 1..(n + 1) : w \in r[i].todo
    BY <1>1 DEF Waiting
  <2>2. ASSUME NEW w PROVE w \in Waiting(s) <=> \E i \in 1..n : w \in s[i].todo
    BY DEF Waiting, n
  <2>3. ASSUME NEW w, w \in Waiting(r) PROVE w \in x.todo \cup Waiting(s)
    BY <1>1, <1>4, <2>1, <2>2, <2>3
  <2>4. ASSUME NEW w, w \in x.todo PROVE w \in Waiting(r)
    BY <1>1, <1>3, <2>1, <2>4
  <2>5. ASSUME NEW w, w \in Waiting(s) PROVE w \in Waiting(r)
    <3>1. PICK i \in 1..n : w \in s[i].todo
      BY <2>2, <2>5
    <3>2. i + 1 \in 1..(n + 1) /\ r[i + 1] = s[i]
      BY <1>1, <1>3
    <3>. QED  BY <2>1, <3>1, <3>2
  <2>. QED  BY <2>3, <2>4, <2>5
<1>6. ASSUME Apart(r, X) PROVE Apart(s, X) /\ x.todo \cap Waiting(s) \subseteq X
  <2>1. \A i, j \in 1..(n + 1) : i # j => r[i].todo \cap r[j].todo \subseteq X
    BY <1>1, <1>6 DEF Apart
  <2>2. ASSUME NEW i \in 1..n, NEW j \in 1..n, i # j PROVE s[i].todo \cap s[j].todo \subseteq X
    <3>1. i + 1 \in 1..(n + 1) /\ j + 1 \in 1..(n + 1) /\ i + 1 # j + 1
      BY <1>3, <2>2
    <3>2. r[i + 1].todo \cap r[j + 1].todo \subseteq X
      BY <2>1, <3>1
    <3>. QED  BY <1>1, <3>2
  <2>3. ASSUME NEW i \in 1..n PROVE x.todo \cap s[i].todo \subseteq X
    <3>1. r[1].todo \cap r[i + 1].todo \subseteq X
      BY <1>3, <2>1
    <3>. QED  BY <1>1, <3>1
  <2>. QED  BY <2>2, <2>3 DEF Apart, Waiting, n
<1>7. ASSUME Apart(s, X), x.todo \cap Waiting(s) \subseteq X PROVE Apart(r, X)
  <2>1. \A i, j \in 1..n : i # j => s[i].todo \cap s[j].todo \subseteq X
    BY <1>7 DEF Apart, n
  <2>2. \A i \in 1..n : x.todo \cap s[i].todo \subseteq X
    BY <1>7 DEF Waiting, n
  <2>3. ASSUME NEW i \in 1..(n + 1), NEW j \in 1..(n + 1), i # j PROVE r[i].todo \cap r[j].todo \subseteq X
    <3>1. CASE i = 1
      BY <1>1, <1>4, <2>2, <2>3, <3>1
    <3>2. CASE j = 1
      BY <1>1, <1>4, <2>2, <2>3, <3>2
    <3>3. CASE i # 1 /\ j # 1
      <4>1. i - 1 \in 1..n /\ r[i] = s[i - 1] /\ j - 1 \in 1..n /\ r[j] = s[j - 1]
        BY <1>4, <3>3
      <4>2. i - 1 # j - 1
        BY <1>2, <2>3
      <4>. QED  BY <2>1, <4>1, <4>2
    <3>. QED  BY <3>1, <3>2, <3>3
  <2>. QED  BY <1>1, <2>3 DEF Apart
<1>. QED  BY <1>5, <1>6, <1>7 DEF r

(* The loops in progress when one starts.                                  *)
LEMMA LoopsPush ==
  ASSUME NEW s \in Seq(Frame), NEW x \in Frame
  PROVE  Loops(<<x>> \o s) = {x} \cup Loops(s)
<1>. DEFINE r == <<x>> \o s
            n == Len(s)
<1>1. /\ Len(r) = n + 1 /\ r[1] = x /\ \A i \in 1..n : r[i + 1] = s[i]
  BY StackPush
<1>2. n \in Nat
  OBVIOUS
<1>. HIDE DEF r
<1>3. /\ 1 \in 1..(n + 1) /\ \A i \in 1..n : i + 1 \in 1..(n + 1)
      /\ \A i \in 1..(n + 1) : i = 1 \/ (i - 1 \in 1..n /\ (i - 1) + 1 = i)
  BY <1>2
<1>4. \A i \in 1..(n + 1) : i = 1 \/ (i - 1 \in 1..n /\ r[i] = s[i - 1])
  BY <1>1, <1>3
<1>5. Loops(r) \subseteq {x} \cup Loops(s)
  BY <1>1, <1>4 DEF Loops
<1>6. {x} \cup Loops(s) \subseteq Loops(r)
  BY <1>1, <1>3 DEF Loops
<1>. QED  BY <1>5, <1>6 DEF r

(* What does not wait need not be counted among the exceptions.            *)
LEMMA ApartKept ==
  ASSUME NEW s, NEW X, NEW Y, Apart(s, X), X \cap Waiting(s) \subseteq Y
  PROVE  Apart(s, Y)
<1>1. SUFFICES ASSUME NEW i \in 1..Len(s), NEW j \in 1..Len(s), i # j,
                      NEW w \in s[i].todo \cap s[j].todo
               PROVE  w \in Y
  BY DEF Apart
<1>2. w \in X
  BY <1>1 DEF Apart
<1>3. w \in Waiting(s)
  BY <1>1 DEF Waiting
<1>. QED  BY <1>2, <1>3

(* The innermost loop, and what the others hold.                           *)
LEMMA TopLoop ==
  ASSUME WatchTypeOK, stack # <<>>, NEW X, Apart(stack, X)
  PROVE  /\ Head(stack) \in Frame /\ Tail(stack) \in Seq(Frame)
         /\ Loops(stack) = {Head(stack)} \cup Loops(Tail(stack))
         /\ Waiting(stack) = Head(stack).todo \cup Waiting(Tail(stack))
         /\ Apart(Tail(stack), X) /\ Head(stack).todo \cap Waiting(Tail(stack)) \subseteq X
<1>1. /\ Head(stack) \in Frame /\ Tail(stack) \in Seq(Frame)
      /\ stack = <<Head(stack)>> \o Tail(stack)
  BY StackSplit DEF WatchTypeOK
<1>. DEFINE h == Head(stack)
            q == Tail(stack)
<1>. HIDE DEF h, q
<1>2. h \in Frame /\ q \in Seq(Frame) /\ stack = <<h>> \o q
  BY <1>1 DEF h, q
<1>3. Loops(<<h>> \o q) = {h} \cup Loops(q)
  BY <1>2, LoopsPush
<1>4. /\ Waiting(<<h>> \o q) = h.todo \cup Waiting(q)
      /\ Apart(<<h>> \o q, X) <=> Apart(q, X) /\ h.todo \cap Waiting(q) \subseteq X
  BY <1>2, PendingPush
<1>5. h \in Frame /\ q \in Seq(Frame) /\ Loops(stack) = {h} \cup Loops(q) /\ Waiting(stack) = h.todo \cup Waiting(q)
  BY <1>2, <1>3, <1>4, Zenon
<1>6. Apart(q, X) /\ h.todo \cap Waiting(q) \subseteq X
  BY <1>2, <1>4, Zenon
<1>. QED  BY <1>5, <1>6, Zenon DEF h, q

(* The loops in progress are frames, and hold those still to be called.    *)
LEMMA LoopServices ==
  ASSUME WatchTypeOK
  PROVE  /\ \A f \in Loops(stack) : f \in Frame
         /\ \A w : w \in Waiting(stack) <=> \E f \in Loops(stack) : w \in f.todo
         /\ Waiting(stack) = StillToCall /\ Waiting(stack) \subseteq Watcher
<1>1. DOMAIN stack = 1..Len(stack) /\ \A i \in 1..Len(stack) : stack[i] \in Frame
  BY DEF WatchTypeOK
<1>2. \A f \in Frame : f.todo \subseteq Watcher
  BY DEF Frame
<1>3. Waiting(stack) = StillToCall
  BY <1>1 DEF Waiting, StillToCall
<1>4. Waiting(stack) \subseteq Watcher
  BY <1>1, <1>2 DEF Waiting
<1>5. \A f \in Loops(stack) : f \in Frame
  BY <1>1 DEF Loops
<1>6. ASSUME NEW w PROVE w \in Waiting(stack) <=> \E f \in Loops(stack) : w \in f.todo
  <2>1. w \in Waiting(stack) <=> \E i \in 1..Len(stack) : w \in stack[i].todo
    BY Zenon DEF Waiting
  <2>2. \A f : f \in Loops(stack) <=> \E i \in 1..Len(stack) : f = stack[i]
    BY Zenon DEF Loops
  <2>. QED  BY <2>1, <2>2, Zenon
<1>. QED  BY <1>3, <1>4, <1>5, <1>6

(* The frames the host pushes, and the fields of the frames it changes.    *)
LEMMA FrameFacts ==
  ASSUME NEW f \in Frame
  PROVE  /\ f.svc \in Services /\ f.val \in BOOLEAN /\ f.todo \in SUBSET Watcher
         /\ LET g == [f EXCEPT !.calling = FALSE]
            IN  g \in Frame /\ g.svc = f.svc /\ g.val = f.val /\ g.todo = f.todo
         /\ \A w : LET g == [f EXCEPT !.todo = @ \ {w}, !.calling = TRUE]
                   IN  g \in Frame /\ g.svc = f.svc /\ g.val = f.val /\ g.todo = f.todo \ {w}
BY DEF Frame

(* Nothing waits and nothing is watched at first.                          *)
LEMMA WatchStarts == WatchInit => WatchInv
<1>1. SUFFICES ASSUME WatchInit PROVE WatchInv
  OBVIOUS
<1>2. Len(stack) = 0 /\ 1..0 = {} /\ stack \in Seq(Frame)
  BY <1>1 DEF WatchInit
<1>3. Loops(stack) = {} /\ Waiting(stack) = {} /\ Apart(stack, overtaken)
  BY <1>2 DEF Loops, Waiting, Apart
<1>4. WatchTypeOK
  BY <1>1, <1>2 DEF WatchInit, WatchTypeOK
<1>. QED  BY <1>1, <1>3, <1>4 DEF WatchInit, WatchInv, LoopsFit, OneToken, Told

(* When an id changes, the new loop over it holds all its watchers and the *)
(* right value; whoever waits in an older loop of it is overtaken.         *)
LEMMA ChangeWatch ==
  ASSUME WatchInv, NEW s \in Services, NEW o \in ScopeIds \cup {NoScope},
         services' = [services EXCEPT ![s] = o],
         NEW v \in BOOLEAN, v = (o # NoScope), FireWatchers(s, v),
         UNCHANGED <<watchers, seen>>
  PROVE  WatchInv'
<1>1. /\ WatchTypeOK /\ Apart(stack, overtaken) /\ stack \in Seq(Frame)
      /\ watchers \in SUBSET Watcher /\ overtaken \in SUBSET Watcher
  BY DEF WatchInv, WatchTypeOK
<1>. PICK f : f = Loop(s, v, Snapshot(s))
  OBVIOUS
<1>2. f \in Frame /\ f.svc = s /\ f.val = v /\ f.todo = {w \in watchers : w.svc = s}
  BY <1>1 DEF Loop, Snapshot, Frame
<1>3. Waiting(stack) = StillToCall /\ Waiting(stack) \subseteq Watcher
  BY <1>1, LoopServices
<1>4. /\ stack' = <<f>> \o stack
      /\ overtaken' = {w \in overtaken : w.svc # s} \cup {w \in Waiting(stack) : w.svc = s}
  BY <1>3 DEF FireWatchers
<1>5. /\ stack' \in Seq(Frame) /\ Loops(stack') = {f} \cup Loops(stack)
      /\ Waiting(stack') = f.todo \cup Waiting(stack)
      /\ Apart(stack', overtaken') <=>
           Apart(stack, overtaken') /\ f.todo \cap Waiting(stack) \subseteq overtaken'
  BY <1>1, <1>2, <1>4, StackPush, LoopsPush, PendingPush
<1>6. Apart(stack', overtaken')
  <2>1. overtaken \cap Waiting(stack) \subseteq overtaken'
    BY <1>4
  <2>2. Apart(stack, overtaken')
    BY <1>1, <2>1, ApartKept
  <2>3. f.todo \cap Waiting(stack) \subseteq overtaken'
    BY <1>2, <1>4
  <2>. QED  BY <1>5, <2>2, <2>3
<1>7. WatchTypeOK'
  <2>1. overtaken' \in SUBSET Watcher
    BY <1>1, <1>3, <1>4
  <2>. QED  BY <1>1, <1>5, <2>1 DEF WatchTypeOK
<1>8. Available(s)' = v /\ \A t \in Services : t # s => Available(t)' = Available(t)
  BY <1>1 DEF Available, WatchTypeOK
<1>9. LoopsFit'
  <2>1. Fits(f, overtaken)'
    BY <1>2, <1>8 DEF Fits
  <2>2. ASSUME NEW p \in Loops(stack) PROVE Fits(p, overtaken)'
    <3>1. /\ p \in Frame /\ p.svc \in Services /\ Fits(p, overtaken)
          /\ \A w \in p.todo : w.svc = p.svc /\ w \in Waiting(stack)
      BY <1>1, LoopServices, FrameFacts DEF WatchInv, LoopsFit, Fits
    <3>2. CASE p.svc = s
      <4>1. p.todo \subseteq overtaken'
        BY <1>4, <3>1, <3>2
      <4>. QED  BY <3>1, <4>1 DEF Fits
    <3>3. CASE p.svc # s
      <4>1. Available(p.svc)' = Available(p.svc)
        BY <1>8, <3>1, <3>3
      <4>2. p.todo \ overtaken' \subseteq p.todo \ overtaken
        BY <1>4, <3>1, <3>3
      <4>. QED  BY <3>1, <4>1, <4>2 DEF Fits
    <3>. QED  BY <3>2, <3>3
  <2>. QED  BY <1>5, <2>1, <2>2 DEF LoopsFit
<1>10. OneToken'
  <2>1. watchers' \cup Waiting(stack') = watchers \cup Waiting(stack)
    BY <1>2, <1>5
  <2>. QED  BY <2>1 DEF OneToken, WatchInv
<1>11. Told'
  <2>1. ASSUME NEW w \in watchers, w \notin overtaken', seen[w.tok] # Available(w.svc)'
        PROVE  w \in Waiting(stack')
    <3>1. CASE w.svc = s
      BY <1>2, <1>5, <3>1
    <3>2. CASE w.svc # s
      <4>1. w.svc \in Services /\ w \notin overtaken
        BY <1>1, <1>4, <2>1, <3>2 DEF Watcher
      <4>2. Available(w.svc)' = Available(w.svc)
        BY <1>8, <3>2, <4>1
      <4>. QED  BY <1>5, <2>1, <4>1, <4>2 DEF Told, WatchInv
    <3>. QED  BY <3>1, <3>2
  <2>. QED  BY <2>1 DEF Told
<1>. QED  BY <1>6, <1>7, <1>9, <1>10, <1>11 DEF WatchInv

(* A new watcher waits in a loop of its own, under a token nobody has.     *)
LEMMA WatchWatch ==
  ASSUME WatchInv, NEW s \in Services, Watch(s)
  PROVE  WatchInv'
<1>1. PICK t \in Tokens : /\ IsFreshToken(t, TokensInUse)
                          /\ Register([tok |-> t, svc |-> s])
                          /\ overtaken' = overtaken \ {[tok |-> t, svc |-> s]}
                          /\ stack' = <<Loop(s, Available(s), {[tok |-> t, svc |-> s]})>> \o stack
  BY DEF Watch
<1>. DEFINE n == [tok |-> t, svc |-> s]
<1>. PICK f : f = Loop(s, Available(s), {n})
  OBVIOUS
<1>2. /\ WatchTypeOK /\ Apart(stack, overtaken) /\ stack \in Seq(Frame)
      /\ watchers \in SUBSET Watcher /\ overtaken \in SUBSET Watcher
  BY DEF WatchInv, WatchTypeOK
<1>3. n \in Watcher /\ f \in Frame /\ f.svc = s /\ f.val = Available(s) /\ f.todo = {n}
  BY DEF Loop, Frame, Available, Watcher
<1>4. /\ stack' = <<f>> \o stack /\ watchers' = watchers \cup {n} /\ overtaken' = overtaken \ {n}
      /\ UNCHANGED <<services, seen>>
  BY <1>1 DEF Register, Watch
<1>5. \A w \in watchers \cup Waiting(stack) : w.tok # n.tok
  <2>1. \A w \in watchers \cup Waiting(stack) : w.tok \in TokensInUse
    BY <1>2, LoopServices DEF TokensInUse
  <2>2. \A u \in TokensInUse : u < t
    BY <1>1 DEF IsFreshToken
  <2>3. t \in Nat /\ ~(t < t)
    BY RegistryAssumption
  <2>. QED  BY <2>1, <2>2, <2>3
<1>. HIDE DEF n
<1>6. /\ stack' \in Seq(Frame) /\ Loops(stack') = {f} \cup Loops(stack)
      /\ Waiting(stack') = f.todo \cup Waiting(stack)
      /\ Apart(stack', overtaken') <=>
           Apart(stack, overtaken') /\ f.todo \cap Waiting(stack) \subseteq overtaken'
  BY <1>2, <1>3, <1>4, StackPush, LoopsPush, PendingPush
<1>7. Apart(stack', overtaken')
  <2>1. n \notin Waiting(stack)
    BY <1>5
  <2>2. Apart(stack, overtaken')
    BY <1>2, <1>4, <2>1, ApartKept
  <2>. QED  BY <1>3, <1>6, <2>1, <2>2
<1>8. WatchTypeOK'
  BY <1>2, <1>3, <1>4, <1>6 DEF WatchTypeOK
<1>9. LoopsFit'
  <2>1. /\ \A w \in f.todo : w.svc = f.svc
        /\ f.val = Available(f.svc)
    BY <1>3 DEF n
  <2>2. \A t1 : Available(t1)' = Available(t1)
    BY <1>4 DEF Available
  <2>3. Fits(f, overtaken)'
    BY <2>1, <2>2 DEF Fits
  <2>4. ASSUME NEW p \in Loops(stack) PROVE Fits(p, overtaken)'
    <3>1. Fits(p, overtaken)
      BY DEF WatchInv, LoopsFit
    <3>2. n \notin p.todo
      BY <1>2, <1>5, LoopServices
    <3>. QED  BY <1>4, <2>2, <3>1, <3>2 DEF Fits
  <2>. QED  BY <1>6, <2>3, <2>4 DEF LoopsFit
<1>10. OneToken'
  <2>1. watchers' \cup Waiting(stack') = watchers \cup Waiting(stack) \cup {n}
    BY <1>3, <1>4, <1>6
  <2>. QED  BY <1>5, <2>1 DEF OneToken, WatchInv
<1>11. Told'
  <2>1. \A w \in watchers' \ overtaken' : seen[w.tok] # Available(w.svc) => w \in Waiting(stack')
    BY <1>3, <1>4, <1>6 DEF Told, WatchInv
  <2>2. \A w \in watchers' : Available(w.svc)' = Available(w.svc) /\ seen'[w.tok] = seen[w.tok]
    BY <1>4 DEF Available
  <2>. QED  BY <2>1, <2>2 DEF Told
<1>. QED  BY <1>7, <1>8, <1>9, <1>10, <1>11 DEF WatchInv

(* A step that replaces the innermost loop, without its watcher w if it    *)
(* is told, by one over the same id with the same value.                   *)
LEMMA SameLoop ==
  ASSUME WatchInv, stack # <<>>, NEW g \in Frame, stack' = <<g>> \o Tail(stack),
         g.svc = Head(stack).svc, g.val = Head(stack).val, NEW w,
         g.todo = Head(stack).todo \ {w}, UNCHANGED <<services, watchers, overtaken>>
  PROVE  /\ stack' \in Seq(Frame) /\ Apart(stack', overtaken') /\ LoopsFit' /\ OneToken'
         /\ Waiting(stack) \ {w} \subseteq Waiting(stack')
         /\ w \notin Head(stack).todo => Waiting(stack') = Waiting(stack)
<1>. DEFINE f == Head(stack)
<1>1. WatchTypeOK /\ Apart(stack, overtaken)
  BY DEF WatchInv
<1>2. /\ f \in Frame /\ Tail(stack) \in Seq(Frame)
      /\ Loops(stack) = {f} \cup Loops(Tail(stack))
      /\ Waiting(stack) = f.todo \cup Waiting(Tail(stack))
      /\ Apart(Tail(stack), overtaken) /\ f.todo \cap Waiting(Tail(stack)) \subseteq overtaken
  BY <1>1, TopLoop
<1>3. /\ stack' \in Seq(Frame) /\ Loops(stack') = {g} \cup Loops(Tail(stack))
      /\ Waiting(stack') = g.todo \cup Waiting(Tail(stack))
      /\ Apart(stack', overtaken) <=>
           Apart(Tail(stack), overtaken) /\ g.todo \cap Waiting(Tail(stack)) \subseteq overtaken
  BY <1>2, StackPush, LoopsPush, PendingPush
<1>4. Fits(g, overtaken)
  <2>1. Fits(f, overtaken)
    BY <1>2 DEF WatchInv, LoopsFit
  <2>. QED  BY <2>1 DEF Fits
<1>5. LoopsFit'
  <2>1. \A p \in Loops(stack') : Fits(p, overtaken)
    BY <1>2, <1>3, <1>4 DEF WatchInv, LoopsFit
  <2>2. \A p : Fits(p, overtaken)' <=> Fits(p, overtaken)
    BY DEF Fits, Available
  <2>. QED  BY <2>1, <2>2 DEF LoopsFit
<1>6. OneToken'
  BY <1>2, <1>3 DEF OneToken, WatchInv
<1>. QED  BY <1>2, <1>3, <1>5, <1>6

(* A delivery tells its watcher what is true, and nobody else anything.    *)
LEMMA DeliverWatch ==
  ASSUME WatchInv, Deliver
  PROVE  WatchInv'
<1>. DEFINE f == Head(stack)
<1>1. stack # <<>>
  BY DEF Deliver, InClient
<1>2. PICK w \in f.todo :
        /\ seen' = [seen EXCEPT ![w.tok] = f.val]
        /\ stack' = <<[f EXCEPT !.todo = @ \ {w}, !.calling = TRUE]>> \o Tail(stack)
  BY DEF Deliver
<1>. DEFINE g == [f EXCEPT !.todo = @ \ {w}, !.calling = TRUE]
<1>3. WatchTypeOK /\ Apart(stack, overtaken) /\ UNCHANGED <<services, watchers, overtaken>>
  BY DEF WatchInv, Deliver
<1>4. f \in Frame /\ f \in Loops(stack) /\ f.todo \subseteq Waiting(stack)
  BY <1>1, <1>3, TopLoop
<1>5. g \in Frame /\ g.svc = f.svc /\ g.val = f.val /\ g.todo = f.todo \ {w}
  BY <1>4, FrameFacts
<1>. HIDE DEF g
<1>6. stack' = <<g>> \o Tail(stack)
  BY <1>2 DEF g
<1>7. /\ stack' \in Seq(Frame) /\ Apart(stack', overtaken') /\ LoopsFit' /\ OneToken'
      /\ Waiting(stack) \ {w} \subseteq Waiting(stack')
  BY <1>1, <1>2, <1>3, <1>5, <1>6, SameLoop
<1>8. /\ w \in Watcher /\ w.tok \in Tokens /\ f.val \in BOOLEAN
      /\ w \notin overtaken => f.val = Available(w.svc)
  <2>1. w \in Watcher /\ f.val \in BOOLEAN
    BY <1>4, FrameFacts
  <2>2. Fits(f, overtaken)
    BY <1>4 DEF WatchInv, LoopsFit
  <2>. QED  BY <2>1, <2>2 DEF Fits, Watcher
<1>9. WatchTypeOK'
  BY <1>2, <1>3, <1>7, <1>8 DEF WatchTypeOK
<1>10. Told'
  <2>1. ASSUME NEW v \in watchers, v \notin overtaken, seen'[v.tok] # Available(v.svc)
        PROVE  v \in Waiting(stack')
    <3>1. seen \in [Tokens -> BOOLEAN] /\ v.tok \in Tokens
      BY <1>3 DEF WatchTypeOK, Watcher
    <3>2. v # w
      BY <1>2, <1>8, <2>1, <3>1
    <3>3. v.tok # w.tok
      BY <1>2, <1>4, <3>2 DEF OneToken, WatchInv
    <3>4. seen'[v.tok] = seen[v.tok]
      BY <1>2, <3>1, <3>3
    <3>5. v \in Waiting(stack)
      BY <2>1, <3>4 DEF Told, WatchInv
    <3>. QED  BY <1>7, <3>2, <3>5
  <2>2. \A v \in watchers : Available(v.svc)' = Available(v.svc)
    BY <1>3 DEF Available
  <2>. QED  BY <1>3, <2>1, <2>2 DEF Told
<1>. QED  BY <1>7, <1>9, <1>10 DEF WatchInv

(* A callback that returns and a loop that ends tell nobody anything.      *)
LEMMA ReturnWatch ==
  ASSUME WatchInv, CallbackReturns \/ LoopEnds
  PROVE  WatchInv'
<1>. DEFINE f == Head(stack)
<1>1. stack # <<>> /\ UNCHANGED <<services, watchers, seen, overtaken>>
  BY DEF CallbackReturns, LoopEnds, InClient
<1>2. WatchTypeOK /\ Apart(stack, overtaken)
  BY DEF WatchInv
<1>3. /\ f \in Frame /\ Tail(stack) \in Seq(Frame)
      /\ Loops(stack) = {f} \cup Loops(Tail(stack))
      /\ Waiting(stack) = f.todo \cup Waiting(Tail(stack))
      /\ Apart(Tail(stack), overtaken)
  BY <1>1, <1>2, TopLoop
<1>4. SUFFICES /\ stack' \in Seq(Frame) /\ Apart(stack', overtaken') /\ LoopsFit' /\ OneToken'
               /\ Waiting(stack') = Waiting(stack)
  <2>1. ASSUME stack' \in Seq(Frame), Waiting(stack') = Waiting(stack) PROVE WatchTypeOK' /\ Told'
    <3>1. \A v : Available(v)' = Available(v)
      BY <1>1 DEF Available
    <3>. QED  BY <1>1, <1>2, <2>1, <3>1 DEF WatchTypeOK, Told, WatchInv
  <2>. QED  BY <2>1 DEF WatchInv
<1>5. CASE CallbackReturns
  <2>. DEFINE g == [f EXCEPT !.calling = FALSE]
  <2>1. stack' = <<g>> \o Tail(stack)
    BY <1>5 DEF CallbackReturns
  <2>2. g \in Frame /\ g.svc = f.svc /\ g.val = f.val /\ g.todo = f.todo
    BY <1>3, FrameFacts
  <2>. HIDE DEF g
  <2>3. PICK w : w \notin f.todo
    BY NoSetContainsEverything
  <2>4. g.todo = f.todo \ {w}
    BY <2>2, <2>3
  <2>. QED  BY <1>1, <2>1, <2>2, <2>3, <2>4, SameLoop
<1>6. CASE LoopEnds
  <2>1. stack' = Tail(stack) /\ f.todo = {}
    BY <1>6 DEF LoopEnds
  <2>2. Waiting(stack') = Waiting(stack)
    BY <1>3, <2>1
  <2>3. LoopsFit'
    <3>1. \A p \in Loops(stack') : Fits(p, overtaken)
      BY <1>3, <2>1 DEF WatchInv, LoopsFit
    <3>2. \A p : Fits(p, overtaken)' <=> Fits(p, overtaken)
      BY <1>1 DEF Fits, Available
    <3>. QED  BY <3>1, <3>2 DEF LoopsFit
  <2>4. OneToken'
    BY <1>1, <2>2 DEF OneToken, WatchInv
  <2>. QED  BY <1>1, <1>3, <2>1, <2>2, <2>3, <2>4
<1>. QED  BY <1>5, <1>6

(* Provide and revoke, when they change nothing and when they do.          *)
LEMMA StepWatch ==
  ASSUME WatchInv, [WatchNext]_watchVars
  PROVE  WatchInv'
<1>1. CASE UNCHANGED watchVars
  <2>1. UNCHANGED <<services, watchers, stack, seen, overtaken>>
    BY <1>1 DEF watchVars
  <2>2. (\A v : Available(v)' = Available(v)) /\ \A p : Fits(p, overtaken)' <=> Fits(p, overtaken)
    BY <2>1 DEF Fits, Available
  <2>. QED  BY <2>1, <2>2 DEF WatchInv, WatchTypeOK, LoopsFit, OneToken, Told
<1>2. ASSUME NEW s \in Services, NEW o \in ScopeIds, Provide(s, o)
      PROVE  WatchInv'
  <2>1. UNCHANGED <<watchers, seen>>
    BY <1>2 DEF Provide
  <2>2. CASE Appears(s, o)
    <3>1. services' = [services EXCEPT ![s] = o] /\ FireWatchers(s, TRUE)
      BY <1>2, <2>2 DEF Provide, ProvideEntry
    <3>2. o \in ScopeIds \cup {NoScope} /\ TRUE = (o # NoScope)
      BY RegistryAssumption
    <3>. QED  BY <2>1, <3>1, <3>2, ChangeWatch
  <2>3. CASE ~Appears(s, o)
    BY <1>1, <1>2, <2>1, <2>3 DEF Provide, ProvideEntry, watchVars
  <2>. QED  BY <2>2, <2>3
<1>3. ASSUME NEW s \in Services, NEW o \in ScopeIds, Revoke(s, o)
      PROVE  WatchInv'
  <2>1. UNCHANGED <<watchers, seen>>
    BY <1>3 DEF Revoke
  <2>2. CASE Disappears(s, o)
    <3>1. services' = [services EXCEPT ![s] = NoScope] /\ FireWatchers(s, FALSE)
      BY <1>3, <2>2 DEF Revoke, RevokeEntry
    <3>2. NoScope \in ScopeIds \cup {NoScope} /\ FALSE = (NoScope # NoScope)
      OBVIOUS
    <3>. QED  BY <2>1, <3>1, <3>2, ChangeWatch
  <2>3. CASE ~Disappears(s, o)
    BY <1>1, <1>3, <2>1, <2>3 DEF Revoke, RevokeEntry, watchVars
  <2>. QED  BY <2>2, <2>3
<1>4. ASSUME NEW t \in Tokens, Unwatch(t)
      PROVE  WatchInv'
  <2>1. /\ UNCHANGED <<services, stack, seen, overtaken>>
        /\ watchers' = {w \in watchers : w.tok \notin {t}}
    BY <1>4 DEF Unwatch, UnwatchAll
  <2>2. (\A v : Available(v)' = Available(v)) /\ \A p : Fits(p, overtaken)' <=> Fits(p, overtaken)
    BY <2>1 DEF Fits, Available
  <2>. QED  BY <2>1, <2>2 DEF WatchInv, WatchTypeOK, LoopsFit, OneToken, Told
<1>. QED  BY <1>1, <1>2, <1>3, <1>4, WatchWatch, DeliverWatch, ReturnWatch DEF WatchNext

(* Late binding: a watcher that was last told what is not true now is      *)
(* still to be called, with the right value and by nothing older after     *)
(* that, whatever the callbacks provide, revoke, watch and unwatch, unless *)
(* its id changed while a loop over it had still to call it.               *)
THEOREM WatchersCatchUp == WatchSpec => []StaleIsPending
<1>1. WatchInv => StaleIsPending
  <2>1. SUFFICES ASSUME WatchInv, NEW w \in watchers \ overtaken, seen[w.tok] # Available(w.svc)
                 PROVE  \E i \in DOMAIN stack :
                          /\ w \in stack[i].todo
                          /\ stack[i].val = Available(w.svc)
                          /\ \A j \in DOMAIN stack : j > i => w \notin stack[j].todo
    BY DEF WatchInv, StaleIsPending
  <2>2. DOMAIN stack = 1..Len(stack) /\ Len(stack) \in Nat
    BY <2>1 DEF WatchInv, WatchTypeOK
  <2>3. PICK i \in 1..Len(stack) : w \in stack[i].todo
    BY <2>1 DEF WatchInv, Told, Waiting
  <2>4. Fits(stack[i], overtaken)
    BY <2>1, <2>3 DEF WatchInv, LoopsFit, Loops
  <2>5. ASSUME NEW j \in 1..Len(stack), j > i PROVE w \notin stack[j].todo
    <3>1. i # j
      BY <2>2, <2>5
    <3>. QED  BY <2>1, <2>3, <3>1 DEF WatchInv, Apart
  <2>. QED  BY <2>1, <2>2, <2>3, <2>4, <2>5 DEF Fits
<1>2. WatchInv /\ [WatchNext]_watchVars => WatchInv'
  BY StepWatch
<1>. QED  BY WatchStarts, <1>1, <1>2, PTL DEF WatchSpec
================================================================================
