------------------------------ MODULE BlobPool ------------------------------
(***************************************************************************)
(* The recycling allocator behind every Blob (Blob.cpp). Threads acquire   *)
(* blocks, share them by reference count, and the last reference parks the *)
(* block in a power-of-two bucket or gives it back to the heap. The public *)
(* pool may be destroyed while blocks are still out: they keep its State   *)
(* alive, which only remembers that the pool is dead.                      *)
(*                                                                         *)
(* Each critical section of State::mutex is one step; what a thread does   *)
(* before or after it is another. Block addresses come from a finite set   *)
(* and may be handed out again by operator new once freed. Reference       *)
(* counting is external (std::shared_ptr): it runs the deleter once, in    *)
(* the thread that drops the last reference.                               *)
(***************************************************************************)
EXTENDS Naturals, SequencesExt, FiniteSetsExt

CONSTANTS
  Threads,
  Blocks,         (* addresses operator new can return                     *)
  Sizes,          (* sizes asked of acquire()                              *)
  MinExp,         (* kMinBucketExp                                         *)
  MaxExp,         (* the largest exponent of the word (63)                 *)
  MaxRetained,    (* maxRetainedBytes                                      *)
  MaxRefs,        (* bound: references to one block                        *)
  MaxCount,       (* bound: acquisitions                                   *)
  NoBlock

(* size_t(1) << e                                                          *)
Shift[e \in Nat] == IF e = 0 THEN 1 ELSE 2 * Shift[e - 1]

(* Nothing larger than the largest bucket exists: operator new refuses it. *)
ASSUME PoolAssumption ==
  /\ Sizes \subseteq 0..Shift[MaxExp] /\ MinExp \in Nat /\ MaxExp \in Nat /\ MinExp <= MaxExp
  /\ MaxRetained \in Nat /\ MaxRefs \in Nat /\ MaxCount \in Nat
  /\ NoBlock \notin Blocks

VARIABLES
  freelist,       (* parked blocks of each bucket, oldest first            *)
  retainedBytes,
  allocations, reuseHits,
  dead,           (* ~BlobPool has run                                     *)
  heap,           (* blocks operator new has returned and nobody deleted   *)
  capacity,       (* capacity each heap block was allocated with           *)
  need,           (* history: size its present holder asked for            *)
  refs,           (* references to each block                              *)
  thread          (* what each thread is doing in the pool, and with which *)
                  (* block                                                 *)

vars == <<freelist, retainedBytes, allocations, reuseHits, dead, heap,
          capacity, need, refs, thread>>

Exps == MinExp..MaxExp

(* bucketExpFor(): the smallest bucket that holds size bytes, or the       *)
(* largest.                                                                *)
BucketExp_Floor(size) ==
  LET fit == {e \in Exps : Shift[e] <= size} IN IF fit = {} THEN MinExp ELSE Max(fit)
BucketExp(size) ==
  LET fit == {e \in Exps : Shift[e] >= size} IN IF fit = {} THEN MaxExp ELSE Min(fit)

Activity == [doing : {"idle", "allocating", "parking", "freeing"},
             block : Blocks \cup {NoBlock}, size : Nat]
Idle == [doing |-> "idle", block |-> NoBlock, size |-> 0]

TypeOK ==
  /\ freelist \in [Exps -> Seq(Blocks)]
  /\ retainedBytes \in Nat
  /\ allocations \in Nat /\ reuseHits \in Nat
  /\ dead \in BOOLEAN
  /\ heap \in SUBSET Blocks
  /\ capacity \in [Blocks -> Nat] /\ need \in [Blocks -> Nat] /\ refs \in [Blocks -> Nat]
  /\ thread \in [Threads -> Activity]

Init ==
  /\ freelist = [e \in Exps |-> <<>>]
  /\ retainedBytes = 0 /\ allocations = 0 /\ reuseHits = 0 /\ dead = FALSE
  /\ heap = {}
  /\ capacity = [b \in Blocks |-> 0] /\ need = [b \in Blocks |-> 0]
  /\ refs = [b \in Blocks |-> 0]
  /\ thread = [t \in Threads |-> Idle]

AtLeastOne(size) == IF size = 0 THEN 1 ELSE size

HandOut(t, b, size) ==
  /\ refs' = [refs EXCEPT ![b] = 1]
  /\ need' = [need EXCEPT ![b] = size]
  /\ thread' = [thread EXCEPT ![t] = Idle]

(* acquire(), first critical section: a parked block of the bucket is      *)
(* reused ...                                                              *)
Taken_Peeks(e) == freelist
Taken(e) == [freelist EXCEPT ![e] = Tail(@)]

AcquireParked(t, size) ==
  LET e == BucketExp(AtLeastOne(size)) IN
  /\ thread[t] = Idle /\ ~dead /\ allocations + reuseHits < MaxCount
  /\ freelist[e] # <<>>
  /\ freelist' = Taken(e)
  /\ retainedBytes' = retainedBytes - Shift[e]
  /\ reuseHits' = reuseHits + 1
  /\ HandOut(t, Head(freelist[e]), size)
  /\ UNCHANGED <<allocations, dead, heap, capacity>>

(* ... or the thread leaves the lock to allocate one, ...                  *)
AcquireMisses(t, size) ==
  /\ thread[t] = Idle /\ ~dead /\ allocations + reuseHits < MaxCount
  /\ freelist[BucketExp(AtLeastOne(size))] = <<>>
  /\ thread' = [thread EXCEPT ![t] = [Idle EXCEPT !.doing = "allocating", !.size = size]]
  /\ UNCHANGED <<freelist, retainedBytes, allocations, reuseHits, dead, heap, capacity, need, refs>>

(* ... which operator new may refuse.                                      *)
Allocate(t) ==
  /\ thread[t].doing = "allocating"
  /\ \E b \in Blocks \ heap :
       /\ heap' = heap \cup {b}
       /\ capacity' = [capacity EXCEPT ![b] = Shift[BucketExp(AtLeastOne(thread[t].size))]]
       /\ HandOut(t, b, thread[t].size)
  /\ allocations' = allocations + 1
  /\ UNCHANGED <<freelist, retainedBytes, reuseHits, dead>>

AllocateFails(t) ==
  /\ thread[t].doing = "allocating"
  /\ thread' = [thread EXCEPT ![t] = Idle]
  /\ UNCHANGED <<freelist, retainedBytes, allocations, reuseHits, dead, heap, capacity, need, refs>>

(* A Blob is copied, on any thread.                                        *)
Copy(b) ==
  /\ refs[b] \in 1..(MaxRefs - 1)
  /\ refs' = [refs EXCEPT ![b] = @ + 1]
  /\ UNCHANGED <<freelist, retainedBytes, allocations, reuseHits, dead, heap, capacity, need, thread>>

(* A Blob dies; with the last one the deleter starts in that thread.       *)
Drop(t, b) ==
  /\ thread[t] = Idle /\ refs[b] > 0
  /\ refs' = [refs EXCEPT ![b] = @ - 1]
  /\ thread' = IF refs[b] > 1 THEN thread
               ELSE [thread EXCEPT ![t] = [Idle EXCEPT !.doing = "parking", !.block = b]]
  /\ UNCHANGED <<freelist, retainedBytes, allocations, reuseHits, dead, heap, capacity, need>>

(* State::park(): the deleter's critical section.                          *)
HasRoom_EvenDead(c) == retainedBytes + c <= MaxRetained
HasRoom_NotYetFull(c) == ~dead /\ retainedBytes <= MaxRetained
HasRoom(c) == ~dead /\ retainedBytes + c <= MaxRetained

Park(t) ==
  LET b == thread[t].block IN
  /\ thread[t].doing = "parking"
  /\ IF HasRoom(capacity[b])
     THEN /\ freelist' = [freelist EXCEPT ![BucketExp(capacity[b])] = Append(@, b)]
          /\ retainedBytes' = retainedBytes + capacity[b]
          /\ thread' = [thread EXCEPT ![t] = Idle]
     ELSE /\ thread' = [thread EXCEPT ![t].doing = "freeing"]
          /\ UNCHANGED <<freelist, retainedBytes>>
  /\ UNCHANGED <<allocations, reuseHits, dead, heap, capacity, need, refs>>

Free(t) ==
  /\ thread[t].doing = "freeing"
  /\ heap' = heap \ {thread[t].block}
  /\ thread' = [thread EXCEPT ![t] = Idle]
  /\ UNCHANGED <<freelist, retainedBytes, allocations, reuseHits, dead, capacity, need, refs>>

Parked == UNION {ToSet(freelist[e]) : e \in Exps}

(* ~BlobPool: nobody may be inside acquire() any more, deleters may.       *)
Destroy ==
  /\ ~dead /\ \A t \in Threads : thread[t].doing # "allocating"
  /\ heap' = heap \ Parked
  /\ freelist' = [e \in Exps |-> <<>>]
  /\ retainedBytes' = 0
  /\ dead' = TRUE
  /\ UNCHANGED <<allocations, reuseHits, capacity, need, refs, thread>>

(* All Blobs of a dead pool are gone.                                      *)
AllDropped ==
  /\ dead /\ \A b \in Blocks : refs[b] = 0
  /\ \A t \in Threads : thread[t] = Idle
  /\ UNCHANGED vars

Next ==
  \/ \E t \in Threads :
       \/ \E size \in Sizes : AcquireParked(t, size) \/ AcquireMisses(t, size)
       \/ Allocate(t) \/ AllocateFails(t) \/ Park(t) \/ Free(t)
       \/ \E b \in Blocks : Drop(t, b)
  \/ \E b \in Blocks : Copy(b)
  \/ Destroy \/ AllDropped

Spec == Init /\ [][Next]_vars

(* Deleters run to their end, and the last Blob of a block is dropped in   *)
(* the end, however often it was copied before.                            *)
FairSpec ==
  /\ Spec
  /\ \A t \in Threads : WF_vars(Park(t)) /\ WF_vars(Free(t))
  /\ \A b \in Blocks :
       /\ SF_vars(\E t \in Threads : Drop(t, b))
       /\ SF_vars(refs[b] = 1 /\ \E t \in Threads : Drop(t, b))

-----------------------------------------------------------------------------
Parkings(b) ==
  {p \in UNION {{e} \X DOMAIN freelist[e] : e \in Exps} : freelist[p[1]][p[2]] = b}
Holders(b) == {t \in Threads : thread[t].block = b}

Places(b) ==
  Cardinality(Parkings(b))
  + (IF refs[b] > 0 THEN 1 ELSE 0)
  + Cardinality(Holders(b))

(* Every block of the heap is in exactly one place - parked once,          *)
(* referenced, or in the hands of one deleter - and a freed block is in    *)
(* none: no thread uses, parks or frees a block that somebody else has.    *)
OnePlace == TypeOK /\ \A b \in Blocks : Places(b) = IF b \in heap THEN 1 ELSE 0

(* retainedBytes is the sum of the parked capacities, whatever order       *)
(* threads park and reuse in, and stays within the budget; and a dead pool *)
(* parks nothing ("late Blob releases see dead=true and plain-free their   *)
(* own memory").                                                           *)
RetainedExact ==
  /\ retainedBytes = MapThenSumSet(LAMBDA b : capacity[b], Parked)
  /\ retainedBytes <= MaxRetained
  /\ dead => Parked = {}

(* A block is at least as large as its holder asked for, also when it      *)
(* served another request before.                                          *)
FitsRequest == \A b \in Blocks : refs[b] > 0 => capacity[b] >= need[b]

(* After the pool died every block goes back to the heap once its Blobs    *)
(* die.                                                                    *)
DeadPoolDrains == dead ~> heap = {}
=============================================================================
