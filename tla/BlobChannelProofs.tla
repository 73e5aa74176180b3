-------------------------- MODULE BlobChannelProofs --------------------------
(***************************************************************************)
(* What holds of a channel for every number of threads, posts and          *)
(* handlers, every capacity and every nesting of calls, and of the frame   *)
(* headers of what it carries.  Handlers may throw and may pump, except    *)
(* where a theorem says that they do not.                                  *)
(*                                                                         *)
(* Only Post, SetCapacity and the start of a pump touch the mailbox, so    *)
(* each step lemma has these three cases and one for everything else.      *)
(***************************************************************************)
EXTENDS BlobChannel, BlobFrame, CollectionLemmas

(* The types the arguments below need.                                     *)
MailboxTypeOK ==
  /\ queue \in Seq(Nat)
  /\ capacity \in Nat \ {0}
  /\ pending \in BOOLEAN
  /\ posted \in Nat

(* The step may change the mailbox only through these three.               *)
PumpStarts == Drain /\ UNCHANGED <<capacity, posted, dropped>>

(* Every step of the channel is one of the four kinds.                     *)
LEMMA MailboxSteps ==
  ASSUME [Next]_vars
  PROVE  \/ \E t \in Threads : Post(t)
         \/ \E c \in Capacities : SetCapacity(c)
         \/ PumpStarts
         \/ UNCHANGED mailbox
BY DEF Next, vars, mailbox, PumpStarts, FireHook, SetPumpHook, SetPumpHookDone,
       Subscribe, Unsubscribe, Publish, Pump, RunScheduled, StartPump, PumpNext,
       CallHandler, CallDone, HandlerReturns, HandlerThrows

(* A capacity is never zero, whatever the constructor and setCapacity()    *)
(* get.                                                                    *)
LEMMA AtLeastOneType ==
  ASSUME NEW c \in Nat
  PROVE  AtLeastOne(c) \in Nat \ {0}
BY DEF AtLeastOne

(* Appending, item by item.                                                *)
LEMMA AppendFacts ==
  ASSUME NEW s \in Seq(Nat), NEW e \in Nat
  PROVE  /\ Append(s, e) \in Seq(Nat) /\ Len(Append(s, e)) = Len(s) + 1
         /\ Append(s, e)[Len(s) + 1] = e
         /\ \A i \in 1..Len(s) : Append(s, e)[i] = s[i]
OBVIOUS

(* KeepsLatest, with the positions of the mailbox as an interval.          *)
LEMMA LatestByPosition ==
  ASSUME queue \in Seq(Nat)
  PROVE  KeepsLatest <=> /\ Len(queue) <= capacity
                         /\ \A i \in 1..Len(queue) : queue[i] = posted - Len(queue) + i
BY DEF KeepsLatest

(* An enqueue keeps the newest: what it appends is last, the rest is the   *)
(* old mailbox without its oldest item if it was full.                     *)
LEMMA EnqueueFacts ==
  ASSUME MailboxTypeOK, Len(queue) <= capacity,
         NEW q, q = Enqueue(queue, posted + 1),
         NEW d, d = IF Full(queue) THEN 1 ELSE 0
  PROVE  /\ q \in Seq(Nat)
         /\ Len(q) = Len(queue) - d + 1 /\ Len(q) <= capacity
         /\ q[Len(q)] = posted + 1
         /\ \A i \in 1..(Len(q) - 1) : q[i] = queue[i + d]
<1> USE DEF MailboxTypeOK
<1>1. CASE Full(queue)
  <2> DEFINE r == Tail(queue)
  <2>1. Len(queue) = capacity /\ queue # <<>> /\ d = 1
    BY <1>1 DEF Full
  <2>2. r \in Seq(Nat) /\ Len(r) = Len(queue) - 1
        /\ \A i \in 1..Len(r) : r[i] = queue[i + 1]
    BY <2>1
  <2>3. q = Append(r, posted + 1)
    BY <1>1 DEF Enqueue
  <2> HIDE DEF r
  <2>5. posted + 1 \in Nat /\ r \in Seq(Nat)
    BY <2>2
  <2> DEFINE e == posted + 1
  <2>6. e \in Nat /\ q = Append(r, e)
    BY <2>3, <2>5
  <2> HIDE DEF e
  <2>7. /\ Append(r, e) \in Seq(Nat) /\ Len(Append(r, e)) = Len(r) + 1
        /\ Append(r, e)[Len(r) + 1] = e
        /\ \A i \in 1..Len(r) : Append(r, e)[i] = r[i]
    BY <2>5, <2>6, AppendFacts
  <2>4. q \in Seq(Nat) /\ Len(q) = Len(r) + 1 /\ q[Len(r) + 1] = e
        /\ \A i \in 1..Len(r) : q[i] = r[i]
    BY <2>6, <2>7
  <2> QED BY SMTT(40), <2>1, <2>2, <2>4 DEF e
<1>2. CASE ~Full(queue)
  <2>1. q = Append(queue, posted + 1) /\ d = 0
    BY <1>2 DEF Enqueue
  <2>2. Len(queue) < capacity
    BY <1>2 DEF Full
  <2>3. q \in Seq(Nat) /\ Len(q) = Len(queue) + 1 /\ q[Len(queue) + 1] = posted + 1
        /\ \A i \in 1..Len(queue) : q[i] = queue[i]
    BY <2>1
  <2> QED BY <2>1, <2>2, <2>3
<1> QED BY <1>1, <1>2

(* Cutting the mailbox down to c items keeps the newest c.                 *)
LEMMA ShrinkFacts ==
  ASSUME MailboxTypeOK, NEW c \in Nat \ {0}, Len(queue) > c,
         NEW q, q = SubSeq(queue, Len(queue) - c + 1, Len(queue))
  PROVE  /\ q \in Seq(Nat) /\ Len(q) = c
         /\ \A i \in 1..c : q[i] = queue[Len(queue) - c + i]
BY DEF MailboxTypeOK

-----------------------------------------------------------------------------
(* The inductive invariant: the types, the flag and the content together.  *)
IInv == MailboxTypeOK /\ PendingIffQueued /\ KeepsLatest

(* A new channel satisfies the invariant: an empty mailbox, the hook       *)
(* armed.                                                                  *)
LEMMA InitIInv == Init => IInv
<1> SUFFICES ASSUME Init PROVE IInv
  OBVIOUS
<1>1. capacity \in Nat \ {0}
  BY ChannelAssumption, AtLeastOneType DEF Init
<1>2. queue = <<>> /\ pending = FALSE /\ posted = 0
  BY DEF Init
<1>3. MailboxTypeOK
  <2>1. queue \in Seq(Nat) /\ posted \in Nat
    BY <1>2
  <2>2. pending \in BOOLEAN
    BY <1>2
  <2> QED BY <1>1, <2>1, <2>2 DEF MailboxTypeOK
<1>4. PendingIffQueued
  BY <1>2 DEF PendingIffQueued
<1>5. KeepsLatest
  <2>1. Len(queue) = 0 /\ queue \in Seq(Nat)
    BY <1>2
  <2> QED BY <1>1, <2>1, LatestByPosition
<1> QED BY <1>3, <1>4, <1>5 DEF IInv

(* post() keeps it, with room in the mailbox and when it overflows.        *)
LEMMA PostIInv ==
  ASSUME IInv, NEW t \in Threads, Post(t)
  PROVE  IInv'
<1> USE DEF IInv, MailboxTypeOK
<1>1. Len(queue) <= capacity
  BY DEF KeepsLatest
<1>2. /\ queue' \in Seq(Nat) /\ Len(queue') >= 1 /\ Len(queue') <= capacity
      /\ posted' = posted + 1 /\ capacity' = capacity
  BY <1>1, EnqueueFacts DEF Post, Full
<1>3. pending' = TRUE
  BY DEF Post, Arms
<1>4. MailboxTypeOK'
  BY <1>2, <1>3
<1>5. PendingIffQueued'
  BY <1>2, <1>3 DEF PendingIffQueued
<1>6. KeepsLatest'
  <2> DEFINE d == IF Full(queue) THEN 1 ELSE 0
  <2>1. Len(queue') = Len(queue) - d + 1 /\ queue'[Len(queue')] = posted + 1
        /\ \A i \in 1..(Len(queue') - 1) : queue'[i] = queue[i + d]
    BY SMTT(40), <1>1, EnqueueFacts DEF Post
  <2>2. \A i \in 1..Len(queue) : queue[i] = posted - Len(queue) + i
    BY LatestByPosition
  <2>3. d \in {0, 1}
    OBVIOUS
  <2> HIDE DEF d
  <2>4. ASSUME NEW i \in 1..Len(queue') PROVE queue'[i] = posted' - Len(queue') + i
    <3>1. CASE i = Len(queue')
      BY <1>2, <2>1, <3>1
    <3>2. CASE i # Len(queue')
      <4>1. i \in 1..(Len(queue') - 1) /\ i + d \in 1..Len(queue)
        BY SMTT(40), <1>2, <2>1, <2>3, <3>2
      <4>2. queue'[i] = posted - Len(queue) + (i + d)
        BY <2>1, <2>2, <4>1
      <4> QED BY <1>2, <2>1, <2>3, <4>2
    <3> QED BY <3>1, <3>2
  <2>5. Len(queue') <= capacity'
    BY <1>2
  <2>6. DOMAIN queue' = 1..Len(queue')
    BY <1>2
  <2> QED BY <2>4, <2>5, <2>6 DEF KeepsLatest
<1> QED BY <1>4, <1>5, <1>6

(* setCapacity() keeps it: what it drops is the oldest, and never          *)
(* everything.                                                             *)
LEMMA SetCapacityIInv ==
  ASSUME IInv, NEW c \in Capacities, SetCapacity(c)
  PROVE  IInv'
<1> USE DEF IInv, MailboxTypeOK
<1> DEFINE k == AtLeastOne(c)
<1>1. k \in Nat \ {0}
  BY ChannelAssumption, AtLeastOneType
<1>2. capacity' = k /\ pending' = pending /\ posted' = posted
  BY DEF SetCapacity
<1>3. CASE Len(queue) > k
  <2>1. queue' = SubSeq(queue, Len(queue) - k + 1, Len(queue))
    BY <1>3 DEF SetCapacity, Shrink
  <2> HIDE DEF k
  <2>2. /\ queue' \in Seq(Nat) /\ Len(queue') = k
        /\ \A i \in 1..k : queue'[i] = queue[Len(queue) - k + i]
    BY <1>1, <1>3, <2>1, ShrinkFacts
  <2>3. PendingIffQueued'
    BY <1>1, <1>2, <1>3, <2>2 DEF PendingIffQueued
  <2>4. KeepsLatest'
    <3>1. DOMAIN queue' = 1..k /\ Len(queue') <= capacity'
      BY <1>1, <1>2, <2>2
    <3>2. \A j \in 1..Len(queue) : queue[j] = posted - Len(queue) + j
      BY LatestByPosition
    <3>3. ASSUME NEW i \in 1..k PROVE queue'[i] = posted' - Len(queue') + i
      <4>1. Len(queue) \in Nat /\ Len(queue) - k + i \in 1..Len(queue)
        BY <1>1, <1>3
      <4>2. queue'[i] = posted - Len(queue) + (Len(queue) - k + i)
        BY <2>2, <3>2, <4>1
      <4> QED BY <1>1, <1>2, <2>2, <4>1, <4>2
    <3> QED BY <3>1, <3>3 DEF KeepsLatest
  <2> QED BY <1>1, <1>2, <2>2, <2>3, <2>4
<1>4. CASE ~(Len(queue) > k)
  <2>1. queue' = queue
    BY <1>4 DEF SetCapacity
  <2> HIDE DEF k
  <2>2. PendingIffQueued'
    BY <1>2, <2>1 DEF PendingIffQueued
  <2>3. KeepsLatest'
    BY <1>1, <1>2, <1>4, <2>1 DEF KeepsLatest
  <2>4. MailboxTypeOK'
    BY <1>1, <1>2, <2>1
  <2> QED BY <2>2, <2>3, <2>4
<1> QED BY <1>3, <1>4

(* So does every step: a pump empties the mailbox, the rest leaves it      *)
(* alone.                                                                  *)
LEMMA StepIInv == IInv /\ [Next]_vars => IInv'
<1> SUFFICES ASSUME IInv, [Next]_vars PROVE IInv'
  OBVIOUS
<1>1. CASE PumpStarts
  <2>1. queue' = <<>> /\ pending' = FALSE /\ posted' = posted /\ capacity' = capacity
    BY <1>1 DEF PumpStarts, Drain
  <2>2. MailboxTypeOK'
    <3>1. queue' \in Seq(Nat) /\ capacity' \in Nat \ {0} /\ posted' \in Nat
      BY <2>1 DEF IInv, MailboxTypeOK
    <3>2. pending' \in BOOLEAN
      BY <2>1
    <3> QED BY <3>1, <3>2 DEF MailboxTypeOK
  <2>3. PendingIffQueued'
    BY <2>1 DEF PendingIffQueued
  <2>4. KeepsLatest'
    <3>1. Len(queue') = 0 /\ DOMAIN queue' = {}
      BY <2>1
    <3> QED BY <2>1, <2>2, <3>1 DEF KeepsLatest, MailboxTypeOK
  <2> QED BY <2>2, <2>3, <2>4 DEF IInv
<1>2. CASE UNCHANGED mailbox
  BY <1>2 DEF mailbox, IInv, MailboxTypeOK, PendingIffQueued, KeepsLatest
<1> QED BY <1>1, <1>2, MailboxSteps, PostIInv, SetCapacityIInv

(* m_pending is set exactly while the mailbox holds a blob.                *)
THEOREM PendingExact == Spec => []PendingIffQueued
<1>1. IInv => PendingIffQueued
  BY DEF IInv
<1> QED BY InitIInv, StepIInv, <1>1, PTL DEF Spec

(* The mailbox holds the newest posts, without a gap, within its capacity. *)
THEOREM LatestKept == Spec => []KeepsLatest
<1>1. IInv => KeepsLatest
  BY DEF IInv
<1> QED BY InitIInv, StepIInv, <1>1, PTL DEF Spec

-----------------------------------------------------------------------------
(* The wake-up, when the hook is in place before the first post().         *)
HookSet == hook = "set"

(* Nothing takes the hook away once it is set.                             *)
LEMMA HookStaysSet == HookSet /\ [Next]_vars => HookSet'
BY DEF HookSet, Next, vars, mailbox, Post, FireHook, SetPumpHook, SetPumpHookDone,
       SetCapacity, Subscribe, Unsubscribe, Publish, Pump, RunScheduled, StartPump,
       PumpNext, CallHandler, CallDone, HandlerReturns, HandlerThrows

(* Every step keeps the wake-up: a post that does not fire the hook finds  *)
(* blobs waiting, for which a pump is scheduled or a hook is about to be   *)
(* called; and a hook that is called schedules one.                        *)
LEMMA StepWakeup ==
  ASSUME IInv, HookSet, NoLostWakeup, [Next]_vars
  PROVE  NoLostWakeup'
<1> USE DEF NoLostWakeup
<1>1. CASE \E t \in Threads : Post(t)
  <2>1. PICK t \in Threads : Post(t)
    BY <1>1
  <2>2. CASE pending
    BY <2>1, <2>2 DEF IInv, PendingIffQueued, Post, Arms
  <2>3. CASE ~pending
    BY <2>1, <2>3 DEF Post, Arms
  <2> QED BY <2>2, <2>3
<1>2. CASE \E t \in Threads : FireHook(t)
  BY <1>2 DEF HookSet, FireHook, mailbox
<1>3. CASE \E c \in Capacities : SetCapacity(c)
  <2>1. PICK c \in Capacities : SetCapacity(c)
    BY <1>3
  <2>2. IInv' /\ pending' = pending
    BY <2>1, SetCapacityIInv DEF SetCapacity
  <2> QED BY <2>1, <2>2 DEF IInv, PendingIffQueued, SetCapacity
<1>4. CASE Pump \/ RunScheduled
  BY <1>4 DEF Pump, RunScheduled, StartPump, Drain
<1>5. CASE UNCHANGED <<queue, scheduled, firing>>
  BY <1>5
<1> QED BY <1>1, <1>2, <1>3, <1>4, <1>5
        DEF Next, vars, mailbox, SetPumpHook, SetPumpHookDone, Subscribe, Unsubscribe,
            Publish, PumpNext, CallHandler, CallDone, HandlerReturns, HandlerThrows

(* No interleaving of any number of posting threads with the pumps of the  *)
(* host loses a wake-up, provided the hook is installed before devices     *)
(* post.                                                                   *)
THEOREM WakeupKept ==
  ASSUME LateHook = FALSE
  PROVE  Spec => []NoLostWakeup
<1>1. Init => HookSet /\ NoLostWakeup
  BY DEF Init, HookSet, NoLostWakeup
<1>2. IInv /\ HookSet /\ NoLostWakeup /\ [Next]_vars => NoLostWakeup'
  BY StepWakeup
<1> QED BY InitIInv, StepIInv, HookStaysSet, <1>1, <1>2, PTL DEF Spec

-----------------------------------------------------------------------------
(* Types, and what the calls in progress hold.                             *)

(* The frames the host pushes and changes are frames, and hold what        *)
(* pump() has still to deliver.                                            *)
LEMMA FrameFacts ==
  ASSUME NEW f \in Frame
  PROVE  /\ f.op \in {"pump", "publish"} /\ f.blobs \in Seq(Blobs) /\ f.todo \in Seq(Handlers)
         /\ f.calling \in BOOLEAN /\ HeldBy(f) \in Nat
         /\ LET g == [f EXCEPT !.calling = FALSE] IN g \in Frame /\ HeldBy(g) = HeldBy(f)
         /\ f.todo # <<>> => LET g == [f EXCEPT !.todo = Tail(@), !.calling = TRUE]
                             IN  g \in Frame /\ HeldBy(g) = HeldBy(f)
         /\ f.blobs # <<>> => LET g == [f EXCEPT !.blobs = Tail(@)]
                              IN  /\ g \in Frame /\ Head(f.blobs) \in Blobs
                                  /\ f.op = "pump" => HeldBy(f) = HeldBy(g) + 1
<1>1. /\ f.op \in {"pump", "publish"} /\ f.blobs \in Seq(Blobs) /\ f.todo \in Seq(Handlers)
      /\ f.calling \in BOOLEAN
  BY DEF Frame
<1>2. HeldBy(f) \in Nat
  BY <1>1 DEF HeldBy
<1>3. LET g == [f EXCEPT !.calling = FALSE] IN g \in Frame /\ HeldBy(g) = HeldBy(f)
  BY DEF Frame, HeldBy
<1>4. ASSUME f.todo # <<>>
      PROVE  LET g == [f EXCEPT !.todo = Tail(@), !.calling = TRUE]
             IN  g \in Frame /\ HeldBy(g) = HeldBy(f)
  <2>1. Tail(f.todo) \in Seq(Handlers)
    BY <1>1, <1>4
  <2>. QED  BY <2>1 DEF Frame, HeldBy
<1>5. ASSUME f.blobs # <<>>
      PROVE  LET g == [f EXCEPT !.blobs = Tail(@)]
             IN  /\ g \in Frame /\ Head(f.blobs) \in Blobs
                 /\ f.op = "pump" => HeldBy(f) = HeldBy(g) + 1
  <2>1. /\ Tail(f.blobs) \in Seq(Blobs) /\ Head(f.blobs) \in Blobs
        /\ Len(f.blobs) \in Nat /\ Len(f.blobs) = Len(Tail(f.blobs)) + 1
    BY <1>1, <1>5
  <2>2. [f EXCEPT !.blobs = Tail(@)] \in Frame
    BY <2>1 DEF Frame
  <2>3. [f EXCEPT !.blobs = Tail(@)].op = f.op /\ [f EXCEPT !.blobs = Tail(@)].blobs = Tail(f.blobs)
    BY DEF Frame
  <2>. QED  BY <2>1, <2>2, <2>3 DEF HeldBy
<1>. QED  BY <1>1, <1>2, <1>3, <1>4, <1>5

(* A publish holds nothing of the mailbox.                                 *)
LEMMA FanoutFacts ==
  ASSUME handlers \in Seq(Handlers), NEW b \in Blobs
  PROVE  Fanout(b) \in Frame /\ HeldBy(Fanout(b)) = 0
<1>1. <<b>> \in Seq(Blobs)
  OBVIOUS
<1>. QED  BY <1>1 DEF Fanout, Frame, HeldBy

(* A call that starts adds what it holds to what is in flight.             *)
LEMMA CountPush ==
  ASSUME NEW s \in Seq(Frame), NEW x \in Frame
  PROVE  /\ InFlight(s) \in Nat
         /\ InFlight(<<x>> \o s) = HeldBy(x) + InFlight(s)
<1>. DEFINE r == <<x>> \o s
            f == [i \in DOMAIN s |-> HeldBy(s[i])]
            g == [i \in DOMAIN r |-> HeldBy(r[i])]
<1>1. InFlight(s) = SumOf(f, DOMAIN s) /\ InFlight(r) = SumOf(g, DOMAIN r)
  BY DEF InFlight, SumOf
<1>2. r \in Seq(Frame) /\ Len(r) = Len(s) + 1 /\ r[1] = x /\ \A i \in 1..Len(s) : r[i + 1] = s[i]
  BY StackPush
<1>. HIDE DEF r
<1>3. DOMAIN s = 1..Len(s) /\ DOMAIN r = 1..(Len(s) + 1) /\ Len(s) \in Nat /\ 1 \in DOMAIN r
  BY <1>2
<1>4. \A i \in 1..Len(s) : s[i] \in Frame /\ i + 1 \in 1..(Len(s) + 1)
  BY <1>3
<1>5. \A i \in 1..Len(s) : f[i] \in Nat /\ g[i + 1] = f[i]
  BY <1>2, <1>3, <1>4, FrameFacts
<1>6. g[1] = HeldBy(x) /\ g[1] \in Nat
  BY <1>2, <1>3, FrameFacts
<1>. HIDE DEF f, g
<1>7. /\ SumOf(f, 1..Len(s)) \in Nat
      /\ SumOf(g, 1..(Len(s) + 1)) = g[1] + SumOf(f, 1..Len(s))
  BY <1>3, <1>5, <1>6, SumShifted
<1>. QED  BY <1>1, <1>3, <1>6, <1>7 DEF r

(* Nothing is in flight when no call runs.                                 *)
LEMMA CountEmpty == InFlight(<<>>) = 0
<1>. DEFINE f == [i \in DOMAIN <<>> |-> HeldBy(<<>>[i])]
<1>1. InFlight(<<>>) = SumOf(f, DOMAIN <<>>)
  BY DEF InFlight, SumOf
<1>2. DOMAIN <<>> = {} /\ IsFiniteSet({})
  BY FS_EmptySet
<1>. HIDE DEF f
<1>3. SumOf(f, {}) = 0
  BY <1>2, SumProperties
<1>. QED  BY <1>1, <1>2, <1>3

(* The innermost call, and what is in flight around it.                    *)
LEMMA CountTop ==
  ASSUME stack \in Seq(Frame), stack # <<>>
  PROVE  /\ Head(stack) \in Frame /\ Tail(stack) \in Seq(Frame)
         /\ InFlight(Tail(stack)) \in Nat
         /\ InFlight(stack) = HeldBy(Head(stack)) + InFlight(Tail(stack))
<1>1. /\ Head(stack) \in Frame /\ Tail(stack) \in Seq(Frame)
      /\ stack = <<Head(stack)>> \o Tail(stack)
  BY StackSplit
<1>. QED  BY <1>1, CountPush

(* The newest c items of a sequence.                                       *)
LEMMA ShrunkType ==
  ASSUME NEW S, NEW q \in Seq(S), NEW c \in Nat \ {0}, Len(q) > c
  PROVE  /\ SubSeq(q, Len(q) - c + 1, Len(q)) \in Seq(S)
         /\ Len(q) - c \in Nat
<1>. DEFINE m == Len(q) - c + 1
            n == Len(q)
<1>1. m \in Int /\ n \in Int /\ Len(q) - c \in Nat /\ m >= 1
  OBVIOUS
<1>. HIDE DEF m
<1>2. \A i \in m..n : q[i] \in S
  <2>1. \A i \in m..n : i \in 1..n
    BY <1>1
  <2>. QED  BY <2>1
<1>. HIDE DEF n
<1>3. SubSeq(q, m, n) \in Seq(S)
  BY <1>1, <1>2, SubSeqProperties
<1>. QED  BY <1>1, <1>3 DEF m, n

(* The mailbox and its counters keep their types.                          *)
LEMMA MailboxTypes ==
  ASSUME TypeOK, [Next]_vars
  PROVE  /\ queue' \in Seq(1..MaxPosts) /\ capacity' \in Nat \ {0} /\ pending' \in BOOLEAN
         /\ posted' \in 0..MaxPosts /\ dropped' \in Nat
<1>. USE DEF TypeOK
<1>1. ASSUME NEW t \in Threads, Post(t)
      PROVE  /\ queue' \in Seq(1..MaxPosts) /\ capacity' \in Nat \ {0} /\ pending' \in BOOLEAN
             /\ posted' \in 0..MaxPosts /\ dropped' \in Nat
  <2>1. MaxPosts \in Nat /\ posted + 1 \in 1..MaxPosts /\ posted' = posted + 1 /\ capacity' = capacity
    BY <1>1, ChannelAssumption DEF Post
  <2>2. Full(queue) => Tail(queue) \in Seq(1..MaxPosts)
    BY DEF Full
  <2>3. queue' \in Seq(1..MaxPosts)
    <3>1. CASE Full(queue)
      <4>1. queue' = Append(Tail(queue), posted + 1)
        BY <1>1, <3>1 DEF Post, Enqueue
      <4>. QED  BY <2>1, <2>2, <3>1, <4>1
    <3>2. CASE ~Full(queue)
      <4>1. queue' = Append(queue, posted + 1)
        BY <1>1, <3>2 DEF Post, Enqueue
      <4>. QED  BY <2>1, <4>1
    <3>. QED  BY <3>1, <3>2
  <2>4. pending' \in BOOLEAN /\ dropped' \in Nat
    BY <1>1 DEF Post, Arms
  <2>. QED  BY <2>1, <2>3, <2>4
<1>2. ASSUME NEW c \in Capacities, SetCapacity(c)
      PROVE  /\ queue' \in Seq(1..MaxPosts) /\ capacity' \in Nat \ {0} /\ pending' \in BOOLEAN
             /\ posted' \in 0..MaxPosts /\ dropped' \in Nat
  <2>. DEFINE k == AtLeastOne(c)
  <2>1. k \in Nat \ {0} /\ capacity' = k
    BY <1>2, ChannelAssumption, AtLeastOneType DEF SetCapacity
  <2>2. pending' = pending /\ posted' = posted
    BY <1>2 DEF SetCapacity
  <2>3. CASE Len(queue) > k
    <3>1. queue' = SubSeq(queue, Len(queue) - k + 1, Len(queue)) /\ dropped' = dropped + (Len(queue) - k)
      BY <1>2, <2>3 DEF SetCapacity, Shrink
    <3>. HIDE DEF k
    <3>2. /\ SubSeq(queue, Len(queue) - k + 1, Len(queue)) \in Seq(1..MaxPosts)
          /\ Len(queue) - k \in Nat
      BY <2>1, <2>3, ShrunkType
    <3>3. dropped' \in Nat
      BY <3>1, <3>2
    <3>. QED  BY <2>1, <2>2, <3>1, <3>2, <3>3
  <2>4. CASE ~(Len(queue) > k)
    BY <1>2, <2>1, <2>2, <2>4 DEF SetCapacity
  <2>. QED  BY <2>3, <2>4
<1>3. CASE PumpStarts
  <2>1. queue' = <<>> /\ pending' = FALSE /\ UNCHANGED <<capacity, posted, dropped>>
    BY <1>3 DEF PumpStarts, Drain
  <2>2. queue' \in Seq(1..MaxPosts)
    BY <2>1
  <2>3. pending' \in BOOLEAN
    BY <2>1
  <2>. QED  BY <2>1, <2>2, <2>3
<1>4. CASE UNCHANGED mailbox
  BY <1>4 DEF mailbox
<1>. QED  BY <1>1, <1>2, <1>3, <1>4, MailboxSteps

(* What a step of the host thread's calls does to the stack: it pushes a   *)
(* frame, replaces or pops the innermost one, or unwinds two.              *)
LEMMA StackTypes ==
  ASSUME TypeOK, [Next]_vars
  PROVE  stack' \in Seq(Frame) /\ last' \in Blobs /\ pumped' \in Nat
<1>. USE DEF TypeOK
<1>1. MaxPosts \in Nat /\ 0 \in Blobs
  BY ChannelAssumption DEF Blobs
<1>2. CASE UNCHANGED <<stack, last, pumped>>
  BY <1>2
<1>3. CASE Publish
  <2>1. Fanout(0) \in Frame
    BY <1>1, FanoutFacts
  <2>2. stack' = <<Fanout(0)>> \o stack /\ last' = last /\ pumped' = pumped
    BY <1>3 DEF Publish
  <2>. QED  BY <2>1, <2>2, StackPush
<1>4. CASE Pump \/ RunScheduled
  <2>. DEFINE f == [op |-> "pump", blobs |-> queue, todo |-> <<>>, calling |-> FALSE]
  <2>1. queue \in Seq(Blobs) /\ <<>> \in Seq(Handlers)
    BY <1>1 DEF Blobs
  <2>2. f \in Frame
    BY <2>1 DEF Frame
  <2>3. stack' = <<f>> \o stack /\ last' = last /\ pumped' = pumped
    BY <1>4 DEF Pump, RunScheduled, StartPump
  <2>. HIDE DEF f
  <2>. QED  BY <2>2, <2>3, StackPush
<1>5. CASE PumpNext
  <2>. DEFINE f == Head(stack)
              b == Head(f.blobs)
              g == [f EXCEPT !.blobs = Tail(@)]
  <2>1. stack # <<>> /\ f.blobs # <<>>
    BY <1>5 DEF PumpNext, Running
  <2>2. /\ stack' = <<Fanout(b), g>> \o Tail(stack)
        /\ last' = b /\ pumped' = pumped + 1
    BY <1>5 DEF PumpNext
  <2>3. f \in Frame /\ Tail(stack) \in Seq(Frame)
    BY <2>1, StackSplit
  <2>4. g \in Frame /\ b \in Blobs
    BY <2>1, <2>3, FrameFacts
  <2>5. Fanout(b) \in Frame
    BY <2>4, FanoutFacts
  <2>. HIDE DEF f, g, b
  <2>6. stack' \in Seq(Frame)
    BY <2>2, <2>3, <2>4, <2>5
  <2>. QED  BY <2>2, <2>4, <2>6
<1>6. CASE CallHandler
  <2>. DEFINE f == Head(stack)
              g == [f EXCEPT !.todo = Tail(@), !.calling = TRUE]
  <2>1. stack # <<>> /\ f.todo # <<>> /\ stack' = <<g>> \o Tail(stack)
        /\ last' = last /\ pumped' = pumped
    BY <1>6 DEF CallHandler, Running
  <2>2. f \in Frame /\ Tail(stack) \in Seq(Frame)
    BY <2>1, StackSplit
  <2>3. g \in Frame
    BY <2>1, <2>2, FrameFacts
  <2>. HIDE DEF g
  <2>. QED  BY <2>1, <2>2, <2>3, StackPush
<1>7. CASE HandlerReturns
  <2>. DEFINE f == Head(stack)
              g == [f EXCEPT !.calling = FALSE]
  <2>1. stack # <<>> /\ stack' = <<g>> \o Tail(stack) /\ last' = last /\ pumped' = pumped
    BY <1>7 DEF HandlerReturns
  <2>2. f \in Frame /\ Tail(stack) \in Seq(Frame)
    BY <2>1, StackSplit
  <2>3. g \in Frame
    BY <2>2, FrameFacts
  <2>. HIDE DEF g
  <2>. QED  BY <2>1, <2>2, <2>3, StackPush
<1>8. CASE CallDone
  <2>1. stack # <<>> /\ stack' = Tail(stack) /\ last' = last /\ pumped' = pumped
    BY <1>8 DEF CallDone, Finished, Running
  <2>. QED  BY <2>1, StackSplit
<1>9. CASE HandlerThrows
  <2>. DEFINE rest == Tail(stack)
  <2>1. /\ stack # <<>> /\ last' = last /\ pumped' = pumped
        /\ stack' = rest \/ (rest # <<>> /\ stack' = Tail(rest))
    BY <1>9 DEF HandlerThrows
  <2>2. rest \in Seq(Frame)
    BY <2>1, StackSplit
  <2>. HIDE DEF rest
  <2>3. rest # <<>> => Tail(rest) \in Seq(Frame)
    BY <2>2, StackSplit
  <2>. QED  BY <2>1, <2>2, <2>3
<1>. QED  BY <1>2, <1>3, <1>4, <1>5, <1>6, <1>7, <1>8, <1>9
          DEF Next, vars, mailbox, Post, FireHook, SetPumpHook, SetPumpHookDone,
              SetCapacity, Subscribe, Unsubscribe

(* Every step keeps the type invariant.                                    *)
LEMMA StepTypes == TypeOK /\ [Next]_vars => TypeOK'
<1>1. SUFFICES ASSUME TypeOK, [Next]_vars PROVE TypeOK'
  OBVIOUS
<1>. USE DEF TypeOK
<1>2. hook' \in {"none", "writing", "set"} /\ scheduled' \in BOOLEAN
  BY <1>1 DEF Next, vars, mailbox, Post, FireHook, SetPumpHook, SetPumpHookDone,
       SetCapacity, Subscribe, Unsubscribe, Publish, Pump, RunScheduled, StartPump,
       PumpNext, CallHandler, CallDone, HandlerReturns, HandlerThrows
<1>3. firing' \in SUBSET Threads
  BY <1>1 DEF Next, vars, mailbox, Post, FireHook, SetPumpHook, SetPumpHookDone,
       SetCapacity, Subscribe, Unsubscribe, Publish, Pump, RunScheduled, StartPump,
       PumpNext, CallHandler, CallDone, HandlerReturns, HandlerThrows
<1>4. handlers' \in Seq(Handlers)
  <2>1. ASSUME NEW h \in Handlers, Subscribe(h) PROVE handlers' \in Seq(Handlers)
    BY <1>1, <2>1 DEF Subscribe
  <2>2. ASSUME NEW h \in Handlers, Unsubscribe(h) PROVE handlers' \in Seq(Handlers)
    <3>1. h \in ToSet(handlers) /\ handlers' = RemoveFirst(handlers, h)
      BY <2>2 DEF Unsubscribe
    <3>. QED  BY <1>1, <3>1, RemoveFirstPosition
  <2>3. CASE UNCHANGED handlers
    BY <1>1, <2>3
  <2>. QED  BY <1>1, <2>1, <2>2, <2>3
            DEF Next, vars, mailbox, Post, FireHook, SetPumpHook, SetPumpHookDone,
                SetCapacity, Publish, Pump, RunScheduled, StartPump,
                PumpNext, CallHandler, CallDone, HandlerReturns, HandlerThrows
<1>. QED  BY <1>1, <1>2, <1>3, <1>4, MailboxTypes, StackTypes

(* A new channel has the types.                                            *)
LEMMA InitTypes == Init => TypeOK
<1>1. SUFFICES ASSUME Init PROVE TypeOK
  OBVIOUS
<1>2. capacity \in Nat \ {0} /\ MaxPosts \in Nat /\ 0 \in 0..MaxPosts /\ 0 \in Blobs
  BY <1>1, ChannelAssumption, AtLeastOneType DEF Init, Blobs
<1>3. /\ queue \in Seq(1..MaxPosts) /\ handlers \in Seq(Handlers) /\ stack \in Seq(Frame)
  BY <1>1 DEF Init
<1>. QED  BY <1>1, <1>2, <1>3 DEF Init, TypeOK

-----------------------------------------------------------------------------
(* Conservation, when no handler throws.                                   *)

(* What is in flight is a number.                                          *)
LEMMA CountType ==
  ASSUME NEW s \in Seq(Frame)
  PROVE  InFlight(s) \in Nat
<1>. DEFINE f == [op |-> "pump", blobs |-> <<>>, todo |-> <<>>, calling |-> FALSE]
<1>1. f \in Frame
  BY DEF Frame
<1>. HIDE DEF f
<1>. QED  BY <1>1, CountPush

Accounted == posted = dropped + pumped + Len(queue) + InFlight(stack)

(* The pump that starts holds what the mailbox held.                       *)
LEMMA StartPumpAccounted ==
  ASSUME TypeOK, Accounted, StartPump
  PROVE  Accounted'
<1>. USE DEF TypeOK
<1>. DEFINE f == [op |-> "pump", blobs |-> queue, todo |-> <<>>, calling |-> FALSE]
            n == InFlight(stack)
<1>1. queue \in Seq(Blobs) /\ <<>> \in Seq(Handlers)
  BY ChannelAssumption DEF Blobs
<1>2. f \in Frame /\ HeldBy(f) = Len(queue)
  BY <1>1 DEF Frame, HeldBy
<1>3. /\ stack' = <<f>> \o stack /\ queue' = <<>>
      /\ posted' = posted /\ dropped' = dropped /\ pumped' = pumped
  BY DEF StartPump, Drain
<1>. HIDE DEF f
<1>4. InFlight(stack') = Len(queue) + n /\ n \in Nat
  BY <1>2, <1>3, CountPush
<1>5. posted = dropped + pumped + Len(queue) + n
  BY DEF Accounted
<1>. HIDE DEF n
<1>6. Len(queue') = 0
  BY <1>3
<1>. QED  BY <1>3, <1>4, <1>5, <1>6 DEF Accounted

(* The blob that a pump hands out leaves its frame and is counted.         *)
LEMMA PumpNextAccounted ==
  ASSUME TypeOK, Accounted, PumpNext
  PROVE  Accounted'
<1>. USE DEF TypeOK
<1>. DEFINE f == Head(stack)
            b == Head(f.blobs)
            g == [f EXCEPT !.blobs = Tail(@)]
            s == <<g>> \o Tail(stack)
            n == InFlight(Tail(stack))
<1>1. stack # <<>> /\ f.op = "pump" /\ f.blobs # <<>>
  BY DEF PumpNext, Running
<1>2. /\ stack' = <<Fanout(b), g>> \o Tail(stack) /\ pumped' = pumped + 1
      /\ UNCHANGED <<posted, dropped, queue>>
  BY DEF PumpNext, mailbox
<1>3. f \in Frame /\ Tail(stack) \in Seq(Frame) /\ n \in Nat /\ InFlight(stack) = HeldBy(f) + n
  BY <1>1, CountTop
<1>4. g \in Frame /\ b \in Blobs /\ HeldBy(f) = HeldBy(g) + 1
  BY <1>1, <1>3, FrameFacts
<1>5. HeldBy(g) \in Nat
  BY <1>4, FrameFacts
<1>6. Fanout(b) \in Frame /\ HeldBy(Fanout(b)) = 0
  BY <1>4, FanoutFacts
<1>7. s \in Seq(Frame) /\ InFlight(s) = HeldBy(g) + n
  BY <1>3, <1>4, StackPush, CountPush
<1>8. stack' = <<Fanout(b)>> \o s
  <2>. HIDE DEF f, g, b
  <2>. QED  BY <1>2, <1>3, <1>4, <1>6
<1>9. InFlight(stack') = HeldBy(Fanout(b)) + InFlight(s)
  <2>. HIDE DEF s, b
  <2>. QED  BY <1>6, <1>7, <1>8, CountPush
<1>10. posted = dropped + pumped + Len(queue) + InFlight(stack)
  BY DEF Accounted
<1>. DEFINE h == HeldBy(g)
<1>11. h \in Nat /\ InFlight(stack') = h + n /\ InFlight(stack) = h + 1 + n /\ n \in Nat
  BY <1>3, <1>4, <1>5, <1>6, <1>7, <1>9
<1>. HIDE DEF h, n
<1>. QED  BY <1>2, <1>10, <1>11 DEF Accounted

(* The other calls of the host thread hold nothing of the mailbox.         *)
LEMMA CallsAccounted ==
  ASSUME TypeOK, Accounted, Publish \/ CallHandler \/ HandlerReturns \/ CallDone
  PROVE  Accounted'
<1>. USE DEF TypeOK
<1>1. UNCHANGED <<posted, dropped, pumped, queue>>
  BY DEF Publish, CallHandler, HandlerReturns, CallDone, mailbox
<1>2. CASE Publish
  <2>1. 0 \in Blobs
    BY ChannelAssumption DEF Blobs
  <2>2. Fanout(0) \in Frame /\ HeldBy(Fanout(0)) = 0
    BY <2>1, FanoutFacts
  <2>3. stack' = <<Fanout(0)>> \o stack
    BY <1>2 DEF Publish
  <2>4. InFlight(stack') = 0 + InFlight(stack) /\ InFlight(stack) \in Nat
    BY <2>2, <2>3, CountPush
  <2>. QED  BY <1>1, <2>4 DEF Accounted
<1>3. CASE CallHandler
  <2>. DEFINE f == Head(stack)
              g == [f EXCEPT !.todo = Tail(@), !.calling = TRUE]
  <2>1. stack # <<>> /\ f.todo # <<>> /\ stack' = <<g>> \o Tail(stack)
    BY <1>3 DEF CallHandler, Running
  <2>2. f \in Frame /\ Tail(stack) \in Seq(Frame) /\ InFlight(stack) = HeldBy(f) + InFlight(Tail(stack))
    BY <2>1, CountTop
  <2>3. g \in Frame /\ HeldBy(g) = HeldBy(f)
    BY <2>1, <2>2, FrameFacts
  <2>. HIDE DEF f, g
  <2>4. InFlight(stack') = HeldBy(g) + InFlight(Tail(stack))
    BY <2>1, <2>2, <2>3, CountPush
  <2>. QED  BY <1>1, <2>2, <2>3, <2>4 DEF Accounted
<1>4. CASE HandlerReturns
  <2>. DEFINE f == Head(stack)
              g == [f EXCEPT !.calling = FALSE]
  <2>1. stack # <<>> /\ stack' = <<g>> \o Tail(stack)
    BY <1>4 DEF HandlerReturns
  <2>2. f \in Frame /\ Tail(stack) \in Seq(Frame) /\ InFlight(stack) = HeldBy(f) + InFlight(Tail(stack))
    BY <2>1, CountTop
  <2>3. g \in Frame /\ HeldBy(g) = HeldBy(f)
    BY <2>2, FrameFacts
  <2>. HIDE DEF f, g
  <2>4. InFlight(stack') = HeldBy(g) + InFlight(Tail(stack))
    BY <2>1, <2>2, <2>3, CountPush
  <2>. QED  BY <1>1, <2>2, <2>3, <2>4 DEF Accounted
<1>5. CASE CallDone
  <2>1. /\ stack # <<>> /\ stack' = Tail(stack)
        /\ Head(stack).op = "pump" => Len(Head(stack).blobs) = 0
    BY <1>5 DEF CallDone, Finished, Running
  <2>2. HeldBy(Head(stack)) = 0
    BY <2>1 DEF HeldBy
  <2>3. /\ InFlight(Tail(stack)) \in Nat
        /\ InFlight(stack) = HeldBy(Head(stack)) + InFlight(Tail(stack))
    BY <2>1, CountTop
  <2>4. InFlight(stack') = InFlight(stack)
    BY <2>1, <2>2, <2>3
  <2>. QED  BY <1>1, <2>4 DEF Accounted
<1>. QED  BY <1>2, <1>3, <1>4, <1>5

(* Overflow and setCapacity() count what they drop.                        *)
LEMMA MailboxAccounted ==
  ASSUME TypeOK, IInv, Accounted,
         (\E t \in Threads : Post(t)) \/ (\E c \in Capacities : SetCapacity(c))
  PROVE  Accounted'
<1>. USE DEF TypeOK
<1>. DEFINE n == InFlight(stack)
<1>1. n \in Nat /\ posted = dropped + pumped + Len(queue) + n
  BY CountType DEF Accounted
<1>2. MailboxTypeOK /\ Len(queue) <= capacity
  BY DEF IInv, KeepsLatest
<1>3. ASSUME NEW t \in Threads, Post(t) PROVE Accounted'
  <2>. DEFINE d == IF Full(queue) THEN 1 ELSE 0
  <2>1. /\ queue' = Enqueue(queue, posted + 1) /\ dropped' = dropped + d /\ posted' = posted + 1
        /\ pumped' = pumped /\ stack' = stack
    BY <1>3 DEF Post
  <2>2. Len(queue') = Len(queue) - d + 1
    BY <1>2, <2>1, EnqueueFacts
  <2>3. d \in {0, 1} /\ Len(queue) \in Nat /\ InFlight(stack') = n
    BY <2>1
  <2>. HIDE DEF d, n
  <2>. QED  BY <1>1, <2>1, <2>2, <2>3 DEF Accounted
<1>4. ASSUME NEW c \in Capacities, SetCapacity(c) PROVE Accounted'
  <2>. DEFINE k == AtLeastOne(c)
  <2>1. k \in Nat \ {0} /\ posted' = posted /\ pumped' = pumped /\ stack' = stack /\ InFlight(stack') = n
    BY <1>4, ChannelAssumption, AtLeastOneType DEF SetCapacity
  <2>2. CASE Len(queue) > k
    <3>1. queue' = SubSeq(queue, Len(queue) - k + 1, Len(queue)) /\ dropped' = dropped + (Len(queue) - k)
      BY <1>4, <2>2 DEF SetCapacity, Shrink
    <3>. HIDE DEF k, n
    <3>2. Len(queue') = k /\ Len(queue) \in Nat
      BY <1>2, <2>1, <2>2, <3>1, ShrinkFacts
    <3>. QED  BY <1>1, <2>1, <3>1, <3>2 DEF Accounted
  <2>3. CASE ~(Len(queue) > k)
    <3>1. queue' = queue /\ dropped' = dropped
      BY <1>4, <2>3 DEF SetCapacity
    <3>. QED  BY <1>1, <2>1, <3>1 DEF Accounted
  <2>. QED  BY <2>2, <2>3
<1>. QED  BY <1>3, <1>4

(* With handlers that do not throw, no step loses a blob or counts one     *)
(* twice.                                                                  *)
LEMMA StepAccounted ==
  ASSUME TypeOK, IInv, Accounted, Throwing = {}, [Next]_vars
  PROVE  Accounted'
<1>1. CASE UNCHANGED <<posted, dropped, pumped, queue, stack>>
  BY <1>1 DEF Accounted
<1>2. CASE Pump \/ RunScheduled
  BY <1>2, StartPumpAccounted DEF Pump, RunScheduled
<1>3. ~HandlerThrows
  BY DEF HandlerThrows
<1>. QED  BY <1>1, <1>2, <1>3, PumpNextAccounted, CallsAccounted, MailboxAccounted
          DEF Next, vars, mailbox, FireHook, SetPumpHook, SetPumpHookDone,
              Subscribe, Unsubscribe

(* Every posted blob was dropped, was handed out once, waits, or is held   *)
(* by a pump in progress, provided no handler throws.                      *)
THEOREM NothingLost ==
  ASSUME Throwing = {}
  PROVE  Spec => []Conserved
<1>1. Init => Accounted
  <2>1. SUFFICES ASSUME Init PROVE Accounted
    OBVIOUS
  <2>2. posted = 0 /\ dropped = 0 /\ pumped = 0 /\ Len(queue) = 0 /\ InFlight(stack) = 0
    BY <2>1, CountEmpty DEF Init
  <2>. QED  BY <2>2 DEF Accounted
<1>2. TypeOK /\ IInv /\ Accounted /\ [Next]_vars => Accounted'
  BY StepAccounted
<1>3. TypeOK /\ Accounted => Conserved
  BY DEF Conserved, Accounted
<1>. QED  BY InitTypes, StepTypes, InitIInv, StepIInv, <1>1, <1>2, <1>3, PTL DEF Spec

-----------------------------------------------------------------------------
(* Latest wins, in order: the mailbox and the pump in progress implement   *)
(* LossyMailbox when handlers neither throw nor pump.  Then one pump at    *)
(* most is in progress, the outermost call, and what it still holds is in  *)
(* order and older than all that waits in the mailbox.                     *)
InOrder(f, m) ==
  f.op = "pump" =>
    /\ \A i \in 1..Len(f.blobs) : f.blobs[i] \in 1..m
    /\ \A i, j \in 1..Len(f.blobs) : i < j => f.blobs[i] < f.blobs[j]

OnePump(s, m) ==
  \A i \in 1..Len(s) : InOrder(s[i], m) /\ (s[i].op = "pump" => i = Len(s))

OldestPumped == OnePump(stack, posted - Len(queue))

HeldIn(s) == UNION {ToSet(s[i].blobs) : i \in {j \in DOMAIN s : s[j].op = "pump"}}
Taken(f) == IF f.op = "pump" THEN ToSet(f.blobs) ELSE {}

(* A call that starts: the order it needs and what it holds.               *)
LEMMA OrderPush ==
  ASSUME NEW s \in Seq(Frame), NEW x \in Frame, NEW m
  PROVE  /\ OnePump(<<x>> \o s, m) <=> OnePump(s, m) /\ InOrder(x, m) /\ (x.op = "pump" => s = <<>>)
         /\ HeldIn(<<x>> \o s) = HeldIn(s) \cup Taken(x)
<1>. DEFINE r == <<x>> \o s
            n == Len(s)
<1>1. /\ r \in Seq(Frame) /\ Len(r) = n + 1 /\ r[1] = x /\ \A i \in 1..n : r[i + 1] = s[i]
  BY StackPush
<1>2. n \in Nat /\ DOMAIN s = 1..n /\ (s = <<>> <=> n = 0)
  OBVIOUS
<1>. HIDE DEF r
<1>3. DOMAIN r = 1..(n + 1)
  BY <1>1, <1>2
<1>. HIDE DEF n
<1>4. /\ 1 \in 1..(n + 1)
      /\ \A i \in 1..(n + 1) : i = 1 \/ (i - 1 \in 1..n /\ (i - 1) + 1 = i)
      /\ \A i \in 1..n : i + 1 \in 1..(n + 1) /\ i + 1 # 1
      /\ \A i \in 1..n : i + 1 = n + 1 <=> i = n
      /\ 1 = n + 1 <=> n = 0
  BY <1>2
<1>5. OnePump(r, m) <=> OnePump(s, m) /\ InOrder(x, m) /\ (x.op = "pump" => n = 0)
  <2>1. ASSUME OnePump(r, m) PROVE OnePump(s, m) /\ InOrder(x, m) /\ (x.op = "pump" => n = 0)
    <3>1. \A i \in 1..(n + 1) : InOrder(r[i], m) /\ (r[i].op = "pump" => i = n + 1)
      BY <2>1, <1>1 DEF OnePump
    <3>2. InOrder(x, m) /\ (x.op = "pump" => n = 0)
      BY <1>1, <1>4, <3>1
    <3>3. ASSUME NEW i \in 1..n PROVE InOrder(s[i], m) /\ (s[i].op = "pump" => i = n)
      <4>1. InOrder(r[i + 1], m) /\ (r[i + 1].op = "pump" => i + 1 = n + 1)
        BY <1>4, <3>1
      <4>. QED  BY <1>1, <1>4, <4>1
    <3>. QED  BY <3>2, <3>3 DEF OnePump, n
  <2>2. ASSUME OnePump(s, m), InOrder(x, m), x.op = "pump" => n = 0 PROVE OnePump(r, m)
    <3>1. \A i \in 1..n : InOrder(s[i], m) /\ (s[i].op = "pump" => i = n)
      BY <2>2 DEF OnePump, n
    <3>2. ASSUME NEW i \in 1..(n + 1) PROVE InOrder(r[i], m) /\ (r[i].op = "pump" => i = n + 1)
      <4>1. CASE i = 1
        BY <1>1, <1>4, <2>2, <4>1
      <4>2. CASE i - 1 \in 1..n /\ (i - 1) + 1 = i
        <5>1. r[i] = s[i - 1] /\ (i - 1 = n => i = n + 1)
          BY <1>1, <1>2, <4>2
        <5>2. InOrder(s[i - 1], m) /\ (s[i - 1].op = "pump" => i - 1 = n)
          BY <3>1, <4>2
        <5>. QED  BY <5>1, <5>2
      <4>. QED  BY <1>4, <4>1, <4>2
    <3>. QED  BY <1>1, <3>2 DEF OnePump
  <2>. QED  BY <2>1, <2>2
<1>6. HeldIn(r) = HeldIn(s) \cup Taken(x)
  <2>1. ASSUME NEW b PROVE b \in HeldIn(r) <=> \E i \in 1..(n + 1) : r[i].op = "pump" /\ b \in ToSet(r[i].blobs)
    BY <1>3 DEF HeldIn
  <2>2. ASSUME NEW b PROVE b \in HeldIn(s) <=> \E i \in 1..n : s[i].op = "pump" /\ b \in ToSet(s[i].blobs)
    BY <1>2 DEF HeldIn
  <2>3. ASSUME NEW b, b \in HeldIn(r) PROVE b \in HeldIn(s) \cup Taken(x)
    <3>1. PICK i \in 1..(n + 1) : r[i].op = "pump" /\ b \in ToSet(r[i].blobs)
      BY <2>1, <2>3
    <3>2. CASE i = 1
      BY <1>1, <3>1, <3>2 DEF Taken
    <3>3. CASE i - 1 \in 1..n /\ (i - 1) + 1 = i
      <4>1. r[i] = s[i - 1]
        BY <1>1, <3>3
      <4>. QED  BY <2>2, <3>1, <3>3, <4>1
    <3>. QED  BY <1>4, <3>2, <3>3
  <2>4. ASSUME NEW b, b \in HeldIn(s) PROVE b \in HeldIn(r)
    <3>1. PICK i \in 1..n : s[i].op = "pump" /\ b \in ToSet(s[i].blobs)
      BY <2>2, <2>4
    <3>2. r[i + 1] = s[i] /\ i + 1 \in 1..(n + 1)
      BY <1>1, <1>4
    <3>. QED  BY <2>1, <3>1, <3>2
  <2>5. ASSUME NEW b, b \in Taken(x) PROVE b \in HeldIn(r)
    <3>1. x.op = "pump" /\ b \in ToSet(x.blobs)
      BY <2>5 DEF Taken
    <3>. QED  BY <1>1, <1>4, <2>1, <3>1
  <2>. QED  BY <2>3, <2>4, <2>5
<1>. QED  BY <1>2, <1>5, <1>6 DEF r

(* Before the first call nothing is held.                                  *)
LEMMA OrderEmpty == HeldIn(<<>>) = {} /\ \A m : OnePump(<<>>, m)
<1>1. DOMAIN <<>> = {} /\ Len(<<>>) = 0 /\ 1..0 = {}
  OBVIOUS
<1>2. HeldIn(<<>>) = {}
  BY <1>1 DEF HeldIn
<1>3. ASSUME NEW m PROVE OnePump(<<>>, m)
  BY <1>1 DEF OnePump
<1>. QED  BY <1>2, <1>3

(* The innermost call, and the order and the blobs of those around it.     *)
LEMMA OrderTop ==
  ASSUME stack \in Seq(Frame), stack # <<>>, NEW m, OnePump(stack, m)
  PROVE  /\ Head(stack) \in Frame /\ Tail(stack) \in Seq(Frame)
         /\ OnePump(Tail(stack), m) /\ InOrder(Head(stack), m)
         /\ Head(stack).op = "pump" => Tail(stack) = <<>>
         /\ HeldIn(stack) = HeldIn(Tail(stack)) \cup Taken(Head(stack))
<1>1. /\ Head(stack) \in Frame /\ Tail(stack) \in Seq(Frame)
      /\ stack = <<Head(stack)>> \o Tail(stack)
  BY StackSplit
<1>. QED  BY <1>1, OrderPush

(* The numbers that wait in the mailbox are the last ones posted.          *)
LEMMA QueueFacts ==
  ASSUME TypeOK, IInv
  PROVE  /\ Len(queue) \in Nat /\ posted \in Nat /\ Len(queue) <= posted
         /\ \A i \in 1..Len(queue) : queue[i] = posted - Len(queue) + i
         /\ \A k \in ToSet(queue) : k \in Nat /\ posted - Len(queue) < k /\ k <= posted
         /\ queue # <<>> => posted \in ToSet(queue)
<1>1. /\ queue \in Seq(1..MaxPosts) /\ Len(queue) \in Nat /\ DOMAIN queue = 1..Len(queue)
      /\ posted \in Nat /\ (queue # <<>> => Len(queue) # 0)
  BY ChannelAssumption DEF TypeOK
<1>2. \A i \in 1..Len(queue) : queue[i] = posted - Len(queue) + i
  BY <1>1 DEF IInv, KeepsLatest
<1>3. Len(queue) <= posted
  <2>1. CASE Len(queue) = 0
    BY <1>1, <2>1
  <2>2. CASE Len(queue) # 0
    <3>1. queue[1] \in Nat /\ queue[1] >= 1 /\ 1 \in 1..Len(queue)
      <4>1. 1 \in 1..Len(queue)
        BY <1>1, <2>2
      <4>2. queue[1] \in 1..MaxPosts
        BY <1>1, <4>1, ElementOfSeq
      <4>. QED  BY <4>1, <4>2, ChannelAssumption
    <3>2. queue[1] = posted - Len(queue) + 1
      BY <1>2, <3>1
    <3>. QED  BY <1>1, <3>1, <3>2
  <2>. QED  BY <2>1, <2>2
<1>4. ASSUME NEW k \in ToSet(queue)
      PROVE  k \in Nat /\ posted - Len(queue) < k /\ k <= posted
  <2>1. PICK i \in 1..Len(queue) : k = queue[i]
    BY <1>1 DEF ToSet
  <2>2. k = posted - Len(queue) + i
    BY <1>2, <2>1
  <2>. QED  BY <1>1, <1>3, <2>1, <2>2
<1>5. queue # <<>> => posted \in ToSet(queue)
  <2>1. SUFFICES ASSUME queue # <<>> PROVE posted \in ToSet(queue)
    OBVIOUS
  <2>2. Len(queue) \in 1..Len(queue)
    BY <1>1, <2>1
  <2>3. queue[Len(queue)] = posted
    <3>1. queue[Len(queue)] = posted - Len(queue) + Len(queue)
      BY <1>2, <2>2
    <3>. QED  BY <1>1, <3>1
  <2>. QED  BY <1>1, <2>2, <2>3 DEF ToSet
<1>. QED  BY <1>1, <1>2, <1>3, <1>4, <1>5

(* What a pump holds is older than what waits in the mailbox.              *)
LEMMA HeldFacts ==
  ASSUME stack \in Seq(Frame), NEW m, OnePump(stack, m)
  PROVE  \A k \in HeldIn(stack) : k \in 1..m
<1>1. SUFFICES ASSUME NEW k \in HeldIn(stack) PROVE k \in 1..m
  OBVIOUS
<1>2. PICK i \in 1..Len(stack) : stack[i].op = "pump" /\ k \in ToSet(stack[i].blobs)
  BY DEF HeldIn
<1>3. stack[i] \in Frame /\ InOrder(stack[i], m)
  BY <1>2 DEF OnePump
<1>4. stack[i].blobs \in Seq(Blobs)
  BY <1>3, FrameFacts
<1>5. PICK j \in 1..Len(stack[i].blobs) : k = stack[i].blobs[j]
  BY <1>2, <1>4 DEF ToSet
<1>. QED  BY <1>2, <1>3, <1>5 DEF InOrder

(* Older than a mailbox stays older when newer blobs fill it.              *)
LEMMA OrderWeaker ==
  ASSUME NEW s \in Seq(Frame), NEW m \in Int, NEW n \in Int, m <= n, OnePump(s, m)
  PROVE  OnePump(s, n)
<1>1. ASSUME NEW f \in Frame, InOrder(f, m) PROVE InOrder(f, n)
  <2>1. \A k \in 1..m : k \in 1..n
    OBVIOUS
  <2>. QED  BY <1>1, <2>1 DEF InOrder
<1>. QED  BY <1>1 DEF OnePump

(* A step of the abstract mailbox, or none.                                *)
Simulated == Mailbox!Next \/ UNCHANGED <<posted, ToSet(queue) \cup Held, last>>
RefInv == TypeOK /\ IInv /\ OldestPumped

(* What is held is what HeldIn says.                                       *)
LEMMA HeldIsHeldIn == Held = HeldIn(stack)
BY DEF Held, HeldIn

(* So also in the next state.                                              *)
LEMMA HeldIsHeldInNext == Held' = HeldIn(stack')
<1>1. (Held = HeldIn(stack))'
  BY HeldIsHeldIn, PTL
<1>. QED  BY <1>1

(* A post is a Send: what it drops is lost.                                *)
LEMMA PostSimulated ==
  ASSUME RefInv, NEW t \in Threads, Post(t)
  PROVE  OldestPumped' /\ Simulated
<1>. DEFINE d == IF Full(queue) THEN 1 ELSE 0
            W == ToSet(queue) \cup Held
            V == ToSet(queue') \cup Held'
<1>1. /\ queue' = Enqueue(queue, posted + 1) /\ posted' = posted + 1
      /\ stack' = stack /\ last' = last
  BY DEF Post
<1>2. MailboxTypeOK /\ Len(queue) <= capacity /\ stack \in Seq(Frame) /\ OldestPumped
  BY DEF RefInv, IInv, KeepsLatest, TypeOK
<1>3. /\ queue' \in Seq(Nat) /\ Len(queue') = Len(queue) - d + 1 /\ queue'[Len(queue')] = posted + 1
      /\ \A i \in 1..(Len(queue') - 1) : queue'[i] = queue[i + d]
  BY <1>1, <1>2, EnqueueFacts
<1>4. Len(queue) \in Nat /\ posted \in Nat /\ DOMAIN queue = 1..Len(queue)
  BY QueueFacts, <1>2 DEF RefInv, MailboxTypeOK
<1>5. d \in {0, 1} /\ (d = 1 => Len(queue) # 0)
  BY <1>2, <1>4 DEF Full, MailboxTypeOK
<1>. HIDE DEF d
<1>6. DOMAIN queue' = 1..Len(queue') /\ Len(queue') \in 1..Len(queue')
  BY <1>3, <1>4, <1>5
<1>7. OldestPumped'
  <2>1. posted - Len(queue) \in Int /\ posted' - Len(queue') \in Int
        /\ posted - Len(queue) <= posted' - Len(queue')
    BY <1>1, <1>3, <1>4, <1>5
  <2>. QED  BY <1>1, <1>2, <2>1, OrderWeaker DEF OldestPumped
<1>8. posted + 1 \in ToSet(queue')
  BY <1>3, <1>6 DEF ToSet
<1>9. ASSUME NEW k \in ToSet(queue') PROVE k \in ToSet(queue) \cup {posted + 1}
  <2>1. PICK i \in 1..Len(queue') : k = queue'[i]
    BY <1>6 DEF ToSet
  <2>2. CASE i = Len(queue')
    BY <1>3, <2>1, <2>2
  <2>3. CASE i # Len(queue')
    <3>1. i \in 1..(Len(queue') - 1) /\ i + d \in 1..Len(queue)
      BY <1>3, <1>4, <1>5, <2>1, <2>3
    <3>2. k = queue[i + d]
      BY <1>3, <2>1, <3>1
    <3>. QED  BY <1>4, <3>1, <3>2 DEF ToSet
  <2>. QED  BY <2>2, <2>3
<1>10. Held' = Held
  BY <1>1, HeldIsHeldIn, HeldIsHeldInNext
<1>11. \E kept \in SUBSET W : V = kept \cup {posted + 1}
  <2>1. V = (V \cap W) \cup {posted + 1} /\ V \cap W \in SUBSET W
    BY <1>8, <1>9, <1>10
  <2>. QED  BY <2>1
<1>12. Mailbox!Send
  BY <1>1, <1>11 DEF Mailbox!Send
<1>. QED  BY <1>7, <1>12 DEF Simulated, Mailbox!Next

(* setCapacity() loses the oldest or nothing.                              *)
LEMMA SetCapacitySimulated ==
  ASSUME RefInv, NEW c \in Capacities, SetCapacity(c)
  PROVE  OldestPumped' /\ Simulated
<1>. DEFINE k == AtLeastOne(c)
            W == ToSet(queue) \cup Held
            V == ToSet(queue') \cup Held'
<1>1. posted' = posted /\ stack' = stack /\ last' = last
  BY DEF SetCapacity
<1>2. k \in Nat \ {0} /\ MailboxTypeOK /\ stack \in Seq(Frame) /\ OldestPumped
  BY ChannelAssumption, AtLeastOneType DEF RefInv, IInv, TypeOK
<1>3. Held' = Held
  BY <1>1, HeldIsHeldIn, HeldIsHeldInNext
<1>4. /\ Len(queue) \in Nat /\ posted \in Nat /\ DOMAIN queue = 1..Len(queue)
      /\ \A i \in ToSet(queue) : i <= posted
      /\ queue # <<>> => posted \in ToSet(queue)
      /\ \A i \in 1..Len(queue) : queue[i] = posted - Len(queue) + i
  BY <1>2, QueueFacts DEF RefInv, MailboxTypeOK
<1>5. CASE Len(queue) > k
  <2>1. queue' = SubSeq(queue, Len(queue) - k + 1, Len(queue))
    BY <1>5 DEF SetCapacity, Shrink
  <2>. HIDE DEF k
  <2>2. /\ queue' \in Seq(Nat) /\ Len(queue') = k
        /\ \A i \in 1..k : queue'[i] = queue[Len(queue) - k + i]
    BY <1>2, <1>5, <2>1, ShrinkFacts
  <2>3. OldestPumped'
    <3>1. posted - Len(queue) \in Int /\ posted' - Len(queue') \in Int
          /\ posted - Len(queue) <= posted' - Len(queue')
      BY <1>1, <1>2, <1>4, <1>5, <2>2
    <3>. QED  BY <1>1, <1>2, <3>1, OrderWeaker DEF OldestPumped
  <2>4. DOMAIN queue' = 1..k /\ k \in 1..k /\ Len(queue) - k + k = Len(queue) /\ Len(queue) \in 1..Len(queue)
        /\ \A i \in 1..k : Len(queue) - k + i \in 1..Len(queue)
    BY <1>2, <1>4, <1>5, <2>2
  <2>5. posted \in ToSet(queue')
    <3>1. queue'[k] = queue[Len(queue)]
      BY <2>2, <2>4
    <3>2. queue[Len(queue)] = posted - Len(queue) + Len(queue)
      BY <1>4, <2>4
    <3>3. queue'[k] = posted
      BY <1>4, <3>1, <3>2
    <3>. QED  BY <2>4, <3>3 DEF ToSet
  <2>6. ToSet(queue') \subseteq ToSet(queue)
    BY <1>4, <2>2, <2>4 DEF ToSet
  <2>7. \A i \in W : i <= posted
    <3>1. \A i \in HeldIn(stack) : i \in 1..(posted - Len(queue))
      BY <1>2, HeldFacts DEF OldestPumped
    <3>2. \A i \in 1..(posted - Len(queue)) : i <= posted
      BY <1>4
    <3>. QED  BY <1>4, <3>1, <3>2, HeldIsHeldIn
  <2>8. posted \in W /\ V \in SUBSET W /\ V = V \cup {posted}
    BY <1>3, <2>5, <2>6
  <2>9. Mailbox!Lose
    <3>. HIDE DEF W, V
    <3>1. \E n \in W, kept \in SUBSET W : (\A i \in W : i <= n) /\ V = kept \cup {n}
      BY <2>7, <2>8
    <3>. QED  BY <1>1, <3>1 DEF Mailbox!Lose, W, V
  <2>. QED  BY <2>3, <2>9 DEF Simulated, Mailbox!Next
<1>6. CASE ~(Len(queue) > k)
  <2>1. queue' = queue
    BY <1>6 DEF SetCapacity
  <2>2. OldestPumped'
    BY <1>1, <1>2, <2>1 DEF OldestPumped
  <2>. QED  BY <1>1, <1>3, <2>1, <2>2 DEF Simulated
<1>. QED  BY <1>5, <1>6

(* A pump that starts takes what waits, and only the outermost call pumps. *)
LEMMA StartPumpSimulated ==
  ASSUME RefInv, ~NestedPump, Pump \/ RunScheduled
  PROVE  OldestPumped' /\ Simulated
<1>. DEFINE f == [op |-> "pump", blobs |-> queue, todo |-> <<>>, calling |-> FALSE]
<1>1. /\ stack = <<>> /\ stack' = <<f>> \o stack /\ queue' = <<>>
      /\ posted' = posted /\ last' = last
  BY DEF Pump, RunScheduled, StartPump, Drain
<1>2. /\ queue \in Seq(1..MaxPosts) /\ queue \in Seq(Blobs) /\ <<>> \in Seq(Handlers)
      /\ DOMAIN queue = 1..Len(queue) /\ stack \in Seq(Frame)
  BY ChannelAssumption DEF RefInv, TypeOK, Blobs
<1>3. f \in Frame
  BY <1>2 DEF Frame
<1>4. /\ Len(queue) \in Nat /\ posted \in Nat /\ Len(queue) <= posted
      /\ \A i \in 1..Len(queue) : queue[i] = posted - Len(queue) + i
  BY QueueFacts DEF RefInv
<1>5. InOrder(f, posted)
  <2>1. \A i \in 1..Len(queue) : queue[i] \in 1..posted
    BY <1>4
  <2>2. \A i, j \in 1..Len(queue) : i < j => queue[i] < queue[j]
    BY <1>4
  <2>. QED  BY <2>1, <2>2 DEF InOrder
<1>6. Taken(f) = ToSet(queue)
  BY DEF Taken
<1>. HIDE DEF f
<1>7. OnePump(stack', posted) /\ HeldIn(stack') = ToSet(queue) /\ HeldIn(stack) = {}
  BY <1>1, <1>2, <1>3, <1>5, <1>6, OrderPush, OrderEmpty
<1>8. OldestPumped'
  <2>1. posted' - Len(queue') = posted
    BY <1>1, <1>4
  <2>. QED  BY <1>7, <2>1 DEF OldestPumped
<1>9. ToSet(queue') = {}
  BY <1>1 DEF ToSet
<1>10. ToSet(queue') \cup Held' = ToSet(queue) \cup Held
  BY <1>7, <1>9, HeldIsHeldIn, HeldIsHeldInNext
<1>. QED  BY <1>1, <1>8, <1>10 DEF Simulated

(* What a pump in order still holds when it has handed out its first.      *)
LEMMA OrderTail ==
  ASSUME NEW f \in Frame, NEW m \in Nat, f.op = "pump", f.blobs # <<>>, InOrder(f, m),
         NEW g \in Frame, g.op = "pump", g.blobs = Tail(f.blobs)
  PROVE  /\ InOrder(g, m) /\ Taken(g) = Taken(f) \ {Head(f.blobs)}
         /\ Head(f.blobs) \in Taken(f) /\ Head(f.blobs) \in 1..m
         /\ \A k \in Taken(f) : Head(f.blobs) <= k
<1>. DEFINE q == f.blobs
            r == Tail(f.blobs)
<1>1. /\ q \in Seq(Blobs) /\ q # <<>> /\ Taken(f) = ToSet(q) /\ Taken(g) = ToSet(r) /\ g.blobs = r
      /\ \A i \in 1..Len(q) : q[i] \in 1..m
      /\ \A i, j \in 1..Len(q) : i < j => q[i] < q[j]
  BY FrameFacts DEF InOrder, Taken
<1>2. /\ Head(q) = q[1] /\ Len(q) \in Nat \ {0} /\ Len(r) = Len(q) - 1
      /\ \A i \in 1..(Len(q) - 1) : r[i] = q[i + 1]
  BY <1>1, StackSplit
<1>3. DOMAIN q = 1..Len(q)
  BY <1>1
<1>4. IsInjective(q)
  <2>1. ASSUME NEW i \in 1..Len(q), NEW j \in 1..Len(q), q[i] = q[j] PROVE i = j
    <3>1. i < j \/ j < i \/ i = j
      BY <1>2
    <3>2. q[i] \in 1..m /\ q[j] \in 1..m
      BY <1>1
    <3>3. (i < j => q[i] < q[j]) /\ (j < i => q[j] < q[i])
      BY <1>1
    <3>. QED  BY <2>1, <3>1, <3>2, <3>3
  <2>. QED  BY <1>3, <2>1 DEF IsInjective
<1>. HIDE DEF q
<1>5. ToSet(Tail(q)) = ToSet(q) \ {Head(q)} /\ Head(q) \in ToSet(q)
  BY <1>1, <1>4, TailInjectiveSequence
<1>6. r = Tail(q)
  BY DEF q
<1>. HIDE DEF r
<1>7. InOrder(g, m)
  <2>1. ASSUME NEW i \in 1..Len(r) PROVE r[i] \in 1..m
    <3>1. i \in 1..(Len(q) - 1) /\ i + 1 \in 1..Len(q)
      BY <1>2
    <3>. QED  BY <1>1, <1>2, <3>1
  <2>2. ASSUME NEW i \in 1..Len(r), NEW j \in 1..Len(r), i < j PROVE r[i] < r[j]
    <3>1. /\ i \in 1..(Len(q) - 1) /\ i + 1 \in 1..Len(q)
          /\ j \in 1..(Len(q) - 1) /\ j + 1 \in 1..Len(q) /\ i + 1 < j + 1
      BY <1>2, <2>2
    <3>2. q[i + 1] < q[j + 1]
      BY <1>1, <3>1
    <3>. QED  BY <1>2, <3>1, <3>2
  <2>. QED  BY <1>1, <2>1, <2>2 DEF InOrder
<1>8. Head(q) \in 1..m
  BY <1>1, <1>2
<1>9. ASSUME NEW k \in ToSet(q) PROVE Head(q) <= k
  <2>1. PICK i \in 1..Len(q) : k = q[i]
    BY <1>3 DEF ToSet
  <2>2. k \in 1..m /\ 1 \in 1..Len(q) /\ (1 < i => q[1] < q[i]) /\ (i = 1 \/ 1 < i)
    BY <1>1, <1>2, <2>1
  <2>. QED  BY <1>2, <1>8, <2>1, <2>2
<1>. QED  BY <1>1, <1>5, <1>6, <1>7, <1>8, <1>9 DEF q

(* The blob that a pump hands out is the oldest that waits.                *)
LEMMA PumpNextSimulated ==
  ASSUME RefInv, PumpNext
  PROVE  OldestPumped' /\ Simulated
<1>. DEFINE f == Head(stack)
            b == Head(f.blobs)
            g == [f EXCEPT !.blobs = Tail(@)]
            m == posted - Len(queue)
            s == <<g>> \o Tail(stack)
            W == ToSet(queue) \cup Held
            V == ToSet(queue') \cup Held'
<1>1. stack # <<>> /\ f.op = "pump" /\ f.blobs # <<>>
  BY DEF PumpNext, Running
<1>2. /\ stack' = <<Fanout(b), g>> \o Tail(stack) /\ last' = b
      /\ UNCHANGED <<posted, queue>>
  BY DEF PumpNext, mailbox
<1>3. stack \in Seq(Frame) /\ handlers \in Seq(Handlers) /\ OnePump(stack, m)
  BY DEF RefInv, TypeOK, OldestPumped
<1>4. m \in Nat /\ \A k \in ToSet(queue) : k \in Nat /\ m < k
  BY QueueFacts DEF RefInv
<1>. HIDE DEF m
<1>5. /\ f \in Frame /\ Tail(stack) = <<>> /\ Tail(stack) \in Seq(Frame)
      /\ OnePump(Tail(stack), m) /\ InOrder(f, m)
      /\ HeldIn(stack) = HeldIn(Tail(stack)) \cup Taken(f)
  BY <1>1, <1>3, OrderTop
<1>6. g \in Frame /\ b \in Blobs /\ g.op = "pump" /\ g.blobs = Tail(f.blobs)
  <2>1. g \in Frame /\ b \in Blobs
    BY <1>1, <1>5, FrameFacts
  <2>. QED  BY <1>1, <1>5, <2>1 DEF Frame
<1>7. Fanout(b) \in Frame
  BY <1>3, <1>6, FanoutFacts
<1>8. Taken(Fanout(b)) = {} /\ Fanout(b).op # "pump" /\ InOrder(Fanout(b), m)
  BY DEF Taken, Fanout, InOrder
<1>. HIDE DEF f, g
<1>9. /\ InOrder(g, m) /\ Taken(g) = Taken(f) \ {b}
      /\ b \in Taken(f) /\ b \in 1..m /\ \A k \in Taken(f) : b <= k
  BY <1>1, <1>4, <1>5, <1>6, OrderTail
<1>. HIDE DEF b
<1>10. s \in Seq(Frame) /\ OnePump(s, m) /\ HeldIn(s) = HeldIn(Tail(stack)) \cup Taken(g)
  BY <1>5, <1>6, <1>9, StackPush, OrderPush
<1>11. stack' = <<Fanout(b)>> \o s
  BY <1>2, <1>5, <1>6, <1>7
<1>. HIDE DEF s
<1>12. OnePump(stack', m) /\ HeldIn(stack') = HeldIn(s) \cup {}
  BY <1>7, <1>8, <1>10, <1>11, OrderPush
<1>13. OldestPumped'
  <2>1. posted' - Len(queue') = m
    BY <1>2 DEF m
  <2>. QED  BY <1>12, <2>1 DEF OldestPumped
<1>14. HeldIn(Tail(stack)) = {}
  BY <1>5, OrderEmpty
<1>15. W = ToSet(queue) \cup Taken(f) /\ V = ToSet(queue) \cup Taken(g)
  BY <1>2, <1>5, <1>10, <1>12, <1>14, HeldIsHeldIn, HeldIsHeldInNext
<1>16. b \notin ToSet(queue) /\ \A k \in ToSet(queue) : b <= k
  BY <1>4, <1>9
<1>. HIDE DEF W, V
<1>17. b \in W /\ (\A k \in W : b <= k) /\ V = W \ {b}
  BY <1>9, <1>15, <1>16
<1>18. Mailbox!Deliver
  BY <1>2, <1>17 DEF Mailbox!Deliver, W, V
<1>. QED  BY <1>13, <1>18 DEF Simulated, Mailbox!Next

(* The other calls of the host thread leave what waits alone.              *)
LEMMA CallsSimulated ==
  ASSUME RefInv, Publish \/ CallHandler \/ HandlerReturns \/ CallDone
  PROVE  OldestPumped' /\ Simulated
<1>. DEFINE m == posted - Len(queue)
<1>1. UNCHANGED <<posted, queue, last>>
  BY DEF Publish, CallHandler, HandlerReturns, CallDone, mailbox
<1>2. stack \in Seq(Frame) /\ handlers \in Seq(Handlers) /\ OnePump(stack, m)
  BY DEF RefInv, TypeOK, OldestPumped
<1>3. m' = m
  BY <1>1
<1>4. SUFFICES OnePump(stack', m) /\ HeldIn(stack') = HeldIn(stack)
  <2>1. ASSUME OnePump(stack', m) PROVE OldestPumped'
    BY <1>1, <2>1 DEF OldestPumped
  <2>2. ASSUME HeldIn(stack') = HeldIn(stack) PROVE Simulated
    BY <1>1, <2>2, HeldIsHeldIn, HeldIsHeldInNext DEF Simulated
  <2>. QED  BY <2>1, <2>2
<1>. HIDE DEF m
<1>5. CASE Publish
  <2>1. 0 \in Blobs
    BY ChannelAssumption DEF Blobs
  <2>2. Fanout(0) \in Frame
    BY <1>2, <2>1, FanoutFacts
  <2>3. Taken(Fanout(0)) = {} /\ Fanout(0).op # "pump" /\ InOrder(Fanout(0), m)
    BY DEF Taken, Fanout, InOrder
  <2>4. stack' = <<Fanout(0)>> \o stack
    BY <1>5 DEF Publish
  <2>5. HeldIn(stack') = HeldIn(stack) \cup {} /\ OnePump(stack', m)
    BY <1>2, <2>2, <2>3, <2>4, OrderPush
  <2>. QED  BY <2>5
<1>6. ASSUME stack # <<>>, NEW g \in Frame, stack' = <<g>> \o Tail(stack),
             g.op = Head(stack).op, g.blobs = Head(stack).blobs
      PROVE  OnePump(stack', m) /\ HeldIn(stack') = HeldIn(stack)
  <2>1. /\ Head(stack) \in Frame /\ Tail(stack) \in Seq(Frame)
        /\ OnePump(Tail(stack), m) /\ InOrder(Head(stack), m)
        /\ Head(stack).op = "pump" => Tail(stack) = <<>>
        /\ HeldIn(stack) = HeldIn(Tail(stack)) \cup Taken(Head(stack))
    BY <1>2, <1>6, OrderTop
  <2>2. Taken(g) = Taken(Head(stack)) /\ InOrder(g, m)
    BY <1>6, <2>1 DEF Taken, InOrder
  <2>. QED  BY <1>6, <2>1, <2>2, OrderPush
<1>7. CASE CallHandler
  <2>. DEFINE f == Head(stack)
              g == [f EXCEPT !.todo = Tail(@), !.calling = TRUE]
  <2>1. stack # <<>> /\ f.todo # <<>> /\ stack' = <<g>> \o Tail(stack)
    BY <1>7 DEF CallHandler, Running
  <2>2. f \in Frame
    BY <1>2, <2>1, StackSplit
  <2>3. g \in Frame
    BY <2>1, <2>2, FrameFacts
  <2>4. g.op = f.op /\ g.blobs = f.blobs
    BY <2>2 DEF Frame
  <2>. HIDE DEF g
  <2>. QED  BY <1>6, <2>1, <2>3, <2>4
<1>8. CASE HandlerReturns
  <2>. DEFINE f == Head(stack)
              g == [f EXCEPT !.calling = FALSE]
  <2>1. stack # <<>> /\ stack' = <<g>> \o Tail(stack)
    BY <1>8 DEF HandlerReturns
  <2>2. f \in Frame
    BY <1>2, <2>1, StackSplit
  <2>3. g \in Frame
    BY <2>1, <2>2, FrameFacts
  <2>4. g.op = f.op /\ g.blobs = f.blobs
    BY <2>2 DEF Frame
  <2>. HIDE DEF g
  <2>. QED  BY <1>6, <2>1, <2>3, <2>4
<1>9. CASE CallDone
  <2>1. /\ stack # <<>> /\ stack' = Tail(stack)
        /\ Head(stack).op = "pump" => Head(stack).blobs = <<>>
    BY <1>9 DEF CallDone, Finished, Running
  <2>2. Taken(Head(stack)) = {}
    BY <2>1 DEF Taken, ToSet
  <2>3. OnePump(Tail(stack), m) /\ HeldIn(stack) = HeldIn(Tail(stack)) \cup Taken(Head(stack))
    BY <1>2, <2>1, OrderTop
  <2>. QED  BY <2>1, <2>2, <2>3
<1>. QED  BY <1>5, <1>7, <1>8, <1>9

(* Every step of the channel is a step of the abstract mailbox or none.    *)
LEMMA StepSimulated ==
  ASSUME RefInv, Throwing = {}, ~NestedPump, [Next]_vars
  PROVE  OldestPumped' /\ Simulated
<1>1. CASE UNCHANGED <<posted, queue, stack, last>>
  <2>1. Held' = Held
    BY <1>1, HeldIsHeldIn, HeldIsHeldInNext
  <2>2. OldestPumped'
    BY <1>1 DEF RefInv, OldestPumped
  <2>. QED  BY <1>1, <2>1, <2>2 DEF Simulated
<1>2. ~HandlerThrows
  BY DEF HandlerThrows
<1>. QED  BY <1>1, <1>2, PostSimulated, SetCapacitySimulated, StartPumpSimulated,
             PumpNextSimulated, CallsSimulated
          DEF Next, vars, mailbox, FireHook, SetPumpHook, SetPumpHookDone,
              Subscribe, Unsubscribe

(* The mailbox and the pump in progress implement the lossy mailbox: what  *)
(* overflow and setCapacity() lose is never the newest, and what is not    *)
(* lost is handed out in the order it was posted, whatever the threads.    *)
THEOREM MailboxImplementsLossy ==
  ASSUME Throwing = {}, ~NestedPump
  PROVE  Spec => LatestWinsFifo
<1>1. Init => OldestPumped /\ Mailbox!Init
  <2>1. SUFFICES ASSUME Init PROVE OldestPumped /\ Mailbox!Init
    OBVIOUS
  <2>2. queue = <<>> /\ stack = <<>> /\ posted = 0 /\ last = 0
    BY <2>1 DEF Init
  <2>3. ToSet(queue) = {} /\ HeldIn(stack) = {} /\ OldestPumped
    BY <2>2, OrderEmpty DEF ToSet, OldestPumped
  <2>. QED  BY <2>2, <2>3, HeldIsHeldIn DEF Mailbox!Init
<1>2. RefInv /\ [Next]_vars => RefInv' /\ [Mailbox!Next]_<<posted, ToSet(queue) \cup Held, last>>
  BY StepSimulated, StepTypes, StepIInv DEF RefInv, Simulated
<1>3. Init => RefInv
  BY <1>1, InitTypes, InitIInv DEF RefInv
<1>. QED  BY <1>1, <1>2, <1>3, PTL DEF Spec, LatestWinsFifo, Mailbox!Spec

-----------------------------------------------------------------------------
(* The frame header: FrameOnWire for all numbers, all frame types and both *)
(* byte orders.                                                            *)
FrameSpec == FrameInit /\ [][FrameNext]_frameVars

Bytes4 == [1..4 -> Byte]
Bytes8 == [1..8 -> Byte]
Orders == {"big", "little"}

-----------------------------------------------------------------------------
(* Arrays of bytes and the sequences they are.                             *)
LEMMA BytesAreSequences ==
  /\ \A v \in Bytes4 : v \in Seq(Byte) /\ Len(v) = 4
  /\ \A v \in Bytes8 : v \in Seq(Byte) /\ Len(v) = 8
<1>1. ASSUME NEW v \in Bytes4  PROVE v \in Seq(Byte) /\ Len(v) = 4
  <2>1. v \in Seq(Byte)
    BY <1>1, SeqDef DEF Bytes4
  <2>. QED  BY <1>1, <2>1, LenProperties DEF Bytes4
<1>2. ASSUME NEW v \in Bytes8  PROVE v \in Seq(Byte) /\ Len(v) = 8
  <2>1. v \in Seq(Byte)
    BY <1>2, SeqDef DEF Bytes8
  <2>. QED  BY <1>2, <2>1, LenProperties DEF Bytes8
<1>. QED  BY <1>1, <1>2

(* A sequence of four bytes is a word ...                                  *)
LEMMA FourBytes ==
  ASSUME NEW v \in Seq(Byte), Len(v) = 4  PROVE v \in Bytes4
BY LenProperties DEF Bytes4

(* ... and one of eight a double word,                                     *)
LEMMA EightBytes ==
  ASSUME NEW v \in Seq(Byte), Len(v) = 8  PROVE v \in Bytes8
BY LenProperties DEF Bytes8

(* whose halves are words ...                                              *)
LEMMA Halves ==
  ASSUME NEW v \in Bytes8
  PROVE  /\ SubSeq(v, 1, 4) \in Bytes4 /\ SubSeq(v, 5, 8) \in Bytes4
         /\ \A i \in 1..4 : SubSeq(v, 1, 4)[i] = v[i] /\ SubSeq(v, 5, 8)[i] = v[i + 4]
<1>1. \A i \in 1..8 : v[i] \in Byte
  BY DEF Bytes8
<1>2. /\ SubSeq(v, 1, 4) \in Seq(Byte) /\ Len(SubSeq(v, 1, 4)) = 4
      /\ \A i \in 1..4 : SubSeq(v, 1, 4)[i] = v[1 + i - 1]
  <2>1. \A i \in 1..4 : v[i] \in Byte
    BY <1>1
  <2>. QED  BY <2>1, SubSeqProperties
<1>3. /\ SubSeq(v, 5, 8) \in Seq(Byte) /\ Len(SubSeq(v, 5, 8)) = 4
      /\ \A i \in 1..4 : SubSeq(v, 5, 8)[i] = v[5 + i - 1]
  <2>1. \A i \in 5..8 : v[i] \in Byte
    BY <1>1
  <2>. QED  BY <2>1, SubSeqProperties
<1>4. \A i \in 1..4 : 1 + i - 1 = i /\ 5 + i - 1 = i + 4
  OBVIOUS
<1>5. \A i \in 1..4 : SubSeq(v, 1, 4)[i] = v[i]
  BY <1>2, <1>4
<1>6. \A i \in 1..4 : SubSeq(v, 5, 8)[i] = v[i + 4]
  BY <1>3, <1>4
<1>7. SubSeq(v, 1, 4) \in Bytes4 /\ SubSeq(v, 5, 8) \in Bytes4
  BY <1>2, <1>3, FourBytes
<1>. QED  BY <1>5, <1>6, <1>7

(* ... which joined give it back.                                          *)
LEMMA Joined ==
  ASSUME NEW a \in Bytes4, NEW b \in Bytes4
  PROVE  /\ a \o b \in Bytes8
         /\ \A i \in 1..4 : (a \o b)[i] = a[i] /\ (a \o b)[i + 4] = b[i]
<1>1. a \in Seq(Byte) /\ b \in Seq(Byte) /\ Len(a) = 4 /\ Len(b) = 4
  BY BytesAreSequences
<1>2. /\ a \o b \in Seq(Byte) /\ Len(a \o b) = 8
      /\ \A i \in 1..4 : (a \o b)[i] = a[i]
      /\ \A i \in 5..8 : (a \o b)[i] = b[i - 4]
  <2>1. /\ a \o b \in Seq(Byte) /\ Len(a \o b) = Len(a) + Len(b)
        /\ \A i \in 1 .. Len(a) + Len(b) :
             (a \o b)[i] = IF i <= Len(a) THEN a[i] ELSE b[i - Len(a)]
    BY <1>1, ConcatProperties
  <2>. QED  BY <1>1, <2>1
<1>3. a \o b \in Bytes8
  BY <1>2, EightBytes
<1>4. ASSUME NEW i \in 1..4
      PROVE  (a \o b)[i] = a[i] /\ (a \o b)[i + 4] = b[i]
  <2>1. i + 4 \in 5..8 /\ (i + 4) - 4 = i
    OBVIOUS
  <2>2. (a \o b)[i + 4] = b[(i + 4) - 4]
    BY <1>2, <2>1
  <2>. QED  BY <1>2, <2>1, <2>2
<1>. QED  BY <1>3, <1>4

(* Reversing a word twice gives it back.                                   *)
LEMMA Reversed4 ==
  ASSUME NEW v \in Bytes4
  PROVE  /\ Reverse(v) \in Bytes4 /\ Reverse(Reverse(v)) = v
         /\ \A i \in 1..4 : Reverse(v)[i] = v[5 - i]
<1>1. \A w \in Bytes4 : Reverse(w) = [i \in 1..4 |-> w[(4 - i) + 1]]
  BY BytesAreSequences DEF Reverse
<1>2. \A w \in Bytes4 : Reverse(w) \in Bytes4 /\ \A i \in 1..4 : Reverse(w)[i] = w[5 - i]
  BY <1>1 DEF Bytes4
<1>3. \A i \in 1..4 : Reverse(Reverse(v))[i] = v[i]
  BY <1>2
<1>. QED  BY <1>2, <1>3 DEF Bytes4

-----------------------------------------------------------------------------
(* Byte order: what is converted and stored by one host is on the wire,    *)
(* and any host that loads and converts it has the number.                 *)
LEMMA WireOrder32 ==
  ASSUME NEW order \in Orders, NEW v \in Bytes4
  PROVE  Stored32(order, v) = v /\ Loaded32(order, v) = v
BY Reversed4 DEF Orders, Stored32, Loaded32, ToBE32, InMemory

(* A 64-bit field is stored in wire order on either host.                  *)
LEMMA WireOrder64 ==
  ASSUME NEW order \in Orders, NEW v \in Bytes8
  PROVE  Stored64(order, v) = v
<1>. DEFINE hi == SubSeq(v, 1, 4)
            lo == SubSeq(v, 5, 8)
            swapped == Swap64(v)
<1>1. /\ hi \in Bytes4 /\ lo \in Bytes4
      /\ \A i \in 1..4 : hi[i] = v[i] /\ lo[i] = v[i + 4]
  BY Halves
<1>2. /\ Reverse(hi) \in Bytes4 /\ Reverse(lo) \in Bytes4
      /\ \A i \in 1..4 : Reverse(hi)[i] = hi[5 - i] /\ Reverse(lo)[i] = lo[5 - i]
  BY <1>1, Reversed4
<1>3. /\ swapped \in Bytes8
      /\ \A i \in 1..4 : swapped[i] = Reverse(lo)[i] /\ swapped[i + 4] = Reverse(hi)[i]
  BY <1>2, Joined DEF Swap64
<1>4. \A i \in 1..4 : swapped[i] = v[9 - i] /\ swapped[i + 4] = v[5 - i]
  <2>1. \A i \in 1..4 : 5 - i \in 1..4 /\ (5 - i) + 4 = 9 - i
    OBVIOUS
  <2>. QED  BY <1>1, <1>2, <1>3, <2>1
<1>5. Reverse(swapped) = [i \in 1..8 |-> swapped[(8 - i) + 1]]
  BY <1>3, BytesAreSequences DEF Reverse
<1>6. \A i \in 1..8 : swapped[(8 - i) + 1] = v[i]
  <2>1. ASSUME NEW i \in 1..4  PROVE swapped[(8 - i) + 1] = v[i]
    <3>1. (8 - i) + 1 = (5 - i) + 4 /\ 5 - i \in 1..4 /\ 5 - (5 - i) = i
      OBVIOUS
    <3>. QED  BY <3>1, <1>4
  <2>2. ASSUME NEW i \in 5..8  PROVE swapped[(8 - i) + 1] = v[i]
    <3>1. (8 - i) + 1 = 9 - i /\ 9 - i \in 1..4 /\ 9 - (9 - i) = i
      OBVIOUS
    <3>. QED  BY <3>1, <1>4
  <2>3. \A i \in 1..8 : i \in 1..4 \/ i \in 5..8
    OBVIOUS
  <2>. QED  BY <2>1, <2>2, <2>3
<1>7. Reverse(swapped) = v
  BY <1>5, <1>6 DEF Bytes8
<1>. QED  BY <1>7 DEF Orders, Stored64, ToBE64, InMemory

-----------------------------------------------------------------------------
(* The invariant: memory nobody made a header of, or a header whose fields *)
(* are what was meant, with the shared bytes zero where no field is.       *)
Meant == [type : DOMAIN FrameTypes, seq : Bytes4, timestampNs : Bytes8, payloadLen : Bytes4,
          startFreq : Bytes4, sampleRate : Bytes4, segment : Byte]
Headers == [magic : {"BLOB"}, version : {1}, type : DOMAIN FrameTypes, seq : Bytes4,
            payloadLen : Bytes4, timestampNs : Bytes8, ext : Bytes8]

ExtWritten ==
  /\ \A i \in 1..4 : header.ext[i] = meant.startFreq[i]
  /\ IF "sampleRate" \in FrameTypes[meant.type]
     THEN \A i \in 1..4 : header.ext[i + 4] = meant.sampleRate[i]
     ELSE header.ext[5] = meant.segment /\ \A i \in 6..8 : header.ext[i] = 0
  /\ "startFreq" \notin FrameTypes[meant.type] => meant.startFreq = Zero32
  /\ "segment" \notin FrameTypes[meant.type] => meant.segment = 0

Written ==
  /\ meant \in Meant /\ header \in Headers
  /\ header.seq = meant.seq /\ header.timestampNs = meant.timestampNs
  /\ header.payloadLen = meant.payloadLen
  /\ ExtWritten

FrameInv ==
  /\ host \in Orders
  /\ (meant.type = "none" /\ header.magic = "garbage") \/ Written

(* A header begins as zeros.                                               *)
LEMMA Zeroed == Zero32 \in Bytes4 /\ \A i \in 1..4 : Zero32[i] = 0
<1>1. Zero32 \in Seq(Byte) /\ Len(Zero32) = 4
  BY DEF Zero32, Byte
<1>2. \A i \in 1..4 : Zero32[i] = 0
  <2>1. \A i \in 1..4 : i = 1 \/ i = 2 \/ i = 3 \/ i = 4
    OBVIOUS
  <2>. QED  BY <2>1 DEF Zero32
<1>. QED  BY <1>1, <1>2, FourBytes

(* Before a frame is made nothing is claimed of it.                        *)
LEMMA FrameInitially == FrameInit => FrameInv
BY DEF FrameInit, FrameInv, Orders

(* makeHeader() writes type, sequence and time where readers look ...      *)
LEMMA MadeHeader ==
  ASSUME FrameInv, NEW type \in DOMAIN FrameTypes, NEW seq \in Words, NEW t \in Longs,
         MakeHeader(type, seq, t)
  PROVE  FrameInv'
<1>1. seq \in Bytes4 /\ t \in Bytes8
  BY FrameAssumption DEF Bytes4, Bytes8
<1>2. Stored32(host, seq) = seq /\ Stored64(host, t) = t
  BY <1>1, WireOrder32, WireOrder64 DEF FrameInv
<1>3. Cleared(header.ext) \in Bytes8 /\ \A i \in 1..8 : Cleared(header.ext)[i] = 0
  BY DEF Cleared, Bytes8, Byte
<1>4. header' = [magic |-> "BLOB", version |-> 1, type |-> type, seq |-> seq,
                 payloadLen |-> Zero32, timestampNs |-> t, ext |-> Cleared(header.ext)]
  BY <1>2 DEF MakeHeader
<1>5. meant' \in Meant /\ header' \in Headers
  BY <1>1, <1>3, <1>4, Zeroed DEF MakeHeader, Meant, Headers, Byte
<1>6. ExtWritten'
  <2>1. header'.ext = Cleared(header.ext)
    BY <1>4
  <2>2. meant'.startFreq = Zero32 /\ meant'.sampleRate = Zero32 /\ meant'.segment = 0
    BY DEF MakeHeader
  <2>3. \A i \in 1..4 : header'.ext[i] = 0 /\ header'.ext[i + 4] = 0
    <3>1. \A i \in 1..4 : i \in 1..8 /\ i + 4 \in 1..8
      OBVIOUS
    <3>. QED  BY <3>1, <2>1, <1>3
  <2>4. header'.ext[5] = 0 /\ \A i \in 6..8 : header'.ext[i] = 0
    BY <2>1, <1>3
  <2>. QED  BY <2>2, <2>3, <2>4, Zeroed DEF ExtWritten
<1>. QED  BY <1>4, <1>5, <1>6 DEF MakeHeader, FrameInv, Written

(* ... and each setter writes its own bytes and leaves the others: the     *)
(* payload's length ...                                                    *)
LEMMA PayloadSet ==
  ASSUME FrameInv, meant.type # "none", NEW n \in Words, SetPayloadLen(n)
  PROVE  FrameInv'
<1>1. Written /\ n \in Bytes4 /\ Stored32(host, n) = n
  BY WireOrder32, FrameAssumption DEF FrameInv, Bytes4
<1>2. /\ header' = [header EXCEPT !.payloadLen = n]
      /\ meant' = [meant EXCEPT !.payloadLen = n] /\ host' = host
  BY <1>1 DEF SetPayloadLen
<1>3. header' \in Headers /\ meant' \in Meant
  BY <1>1, <1>2 DEF Written, Headers, Meant
<1>4. /\ header'.seq = header.seq /\ header'.timestampNs = header.timestampNs
      /\ header'.payloadLen = n /\ header'.ext = header.ext
  BY <1>1, <1>2 DEF Written, Headers
<1>5. /\ meant'.seq = meant.seq /\ meant'.timestampNs = meant.timestampNs
      /\ meant'.payloadLen = n /\ meant'.type = meant.type
      /\ meant'.startFreq = meant.startFreq /\ meant'.sampleRate = meant.sampleRate
      /\ meant'.segment = meant.segment
  BY <1>1, <1>2 DEF Written, Meant
<1>6. ExtWritten'
  BY <1>1, <1>4, <1>5 DEF Written, ExtWritten
<1>. QED  BY <1>1, <1>2, <1>3, <1>4, <1>5, <1>6 DEF FrameInv, Written

(* A setter of ext leaves the rest of the header as it was.                *)
LEMMA ExtSet ==
  ASSUME Written, NEW e \in Bytes8, header' = [header EXCEPT !.ext = e],
         meant' \in Meant, meant'.seq = meant.seq, meant'.timestampNs = meant.timestampNs,
         meant'.payloadLen = meant.payloadLen, ExtWritten'
  PROVE  Written'
<1>1. header' \in Headers
  BY DEF Written, Headers
<1>2. /\ header'.seq = header.seq /\ header'.timestampNs = header.timestampNs
      /\ header'.payloadLen = header.payloadLen
  BY DEF Written, Headers
<1>. QED  BY <1>1, <1>2 DEF Written

(* ... the first frequency ...                                             *)
LEMMA StartFreqSet ==
  ASSUME FrameInv, HasField("startFreq"), NEW f \in Words, SetStartFreq(f)
  PROVE  FrameInv'
<1>. DEFINE e == f \o SubSeq(header.ext, 5, 8)
<1>1. Written /\ f \in Bytes4 /\ Stored32(host, f) = f /\ header.ext \in Bytes8
  BY WireOrder32, FrameAssumption DEF FrameInv, HasField, Bytes4, Written, Headers
<1>2. header' = [header EXCEPT !.ext = e] /\ host' = host
  BY <1>1 DEF SetStartFreq, Written, Headers
<1>3. e \in Bytes8 /\ \A i \in 1..4 : e[i] = f[i] /\ e[i + 4] = header.ext[i + 4]
  <2>. DEFINE tail == SubSeq(header.ext, 5, 8)
  <2>1. tail \in Bytes4 /\ \A i \in 1..4 : tail[i] = header.ext[i + 4]
    BY <1>1, Halves
  <2>2. f \o tail \in Bytes8 /\ \A i \in 1..4 : (f \o tail)[i] = f[i] /\ (f \o tail)[i + 4] = tail[i]
    <3>. HIDE DEF tail
    <3>. QED  BY <1>1, <2>1, Joined
  <2>3. e = f \o tail
    OBVIOUS
  <2>. HIDE DEF tail, e
  <2>. QED  BY <2>1, <2>2, <2>3
<1>4. /\ meant' \in Meant /\ meant'.seq = meant.seq /\ meant'.timestampNs = meant.timestampNs
      /\ meant'.payloadLen = meant.payloadLen /\ meant'.type = meant.type
      /\ meant'.startFreq = f /\ meant'.sampleRate = meant.sampleRate
      /\ meant'.segment = meant.segment
  BY <1>1 DEF SetStartFreq, Written, Meant
<1>5. header'.ext = e
  BY <1>1, <1>2 DEF Written, Headers
<1>6. e[5] = header.ext[5] /\ \A i \in 6..8 : e[i] = header.ext[i]
  <2>1. \A i \in 5..8 : i - 4 \in 1..4 /\ (i - 4) + 4 = i
    OBVIOUS
  <2>. HIDE DEF e
  <2>2. \A i \in 5..8 : e[(i - 4) + 4] = header.ext[(i - 4) + 4]
    BY <1>3, <2>1
  <2>3. \A i \in 5..8 : e[i] = header.ext[i]
    BY <2>1, <2>2
  <2>. QED  BY <2>3
<1>7. ExtWritten'
  <2>. HIDE DEF e
  <2>. QED  BY <1>1, <1>3, <1>4, <1>5, <1>6 DEF HasField, Written, ExtWritten
<1>8. Written'
  BY <1>1, <1>2, <1>3, <1>4, <1>7, ExtSet
<1>. QED  BY <1>2, <1>8 DEF FrameInv

(* ... the sample rate ...                                                 *)
LEMMA SampleRateSet ==
  ASSUME FrameInv, HasField("sampleRate"), NEW f \in Words, SetSampleRate(f)
  PROVE  FrameInv'
<1>. DEFINE e == SubSeq(header.ext, 1, 4) \o f
<1>1. Written /\ f \in Bytes4 /\ Stored32(host, f) = f /\ header.ext \in Bytes8
  BY WireOrder32, FrameAssumption DEF FrameInv, HasField, Bytes4, Written, Headers
<1>2. header' = [header EXCEPT !.ext = e] /\ host' = host
  BY <1>1 DEF SetSampleRate, Written, Headers
<1>3. e \in Bytes8 /\ \A i \in 1..4 : e[i] = header.ext[i] /\ e[i + 4] = f[i]
  <2>. DEFINE head == SubSeq(header.ext, 1, 4)
  <2>1. head \in Bytes4 /\ \A i \in 1..4 : head[i] = header.ext[i]
    BY <1>1, Halves
  <2>2. head \o f \in Bytes8 /\ \A i \in 1..4 : (head \o f)[i] = head[i] /\ (head \o f)[i + 4] = f[i]
    <3>. HIDE DEF head
    <3>. QED  BY <1>1, <2>1, Joined
  <2>3. e = head \o f
    OBVIOUS
  <2>. HIDE DEF head, e
  <2>. QED  BY <2>1, <2>2, <2>3
<1>4. /\ meant' \in Meant /\ meant'.seq = meant.seq /\ meant'.timestampNs = meant.timestampNs
      /\ meant'.payloadLen = meant.payloadLen /\ meant'.type = meant.type
      /\ meant'.startFreq = meant.startFreq /\ meant'.sampleRate = f
      /\ meant'.segment = meant.segment
  BY <1>1 DEF SetSampleRate, Written, Meant
<1>5. header'.ext = e
  BY <1>1, <1>2 DEF Written, Headers
<1>6. ExtWritten'
  <2>. HIDE DEF e
  <2>. QED  BY <1>1, <1>3, <1>4, <1>5 DEF HasField, Written, ExtWritten
<1>7. Written'
  BY <1>1, <1>2, <1>3, <1>4, <1>6, ExtSet
<1>. QED  BY <1>2, <1>7 DEF FrameInv

(* ... and the segment.                                                    *)
LEMMA SegmentSet ==
  ASSUME FrameInv, HasField("segment"), NEW b \in Segments, SetSegment(b)
  PROVE  FrameInv'
<1>. DEFINE e == [header.ext EXCEPT ![5] = b]
<1>1. Written /\ b \in Byte /\ header.ext \in Bytes8 /\ meant.type \in DOMAIN FrameTypes
  BY FrameAssumption DEF FrameInv, HasField, Written, Headers, Meant
<1>2. header' = [header EXCEPT !.ext = e] /\ host' = host
  BY <1>1 DEF SetSegment, Written, Headers
<1>3. e \in Bytes8 /\ e[5] = b /\ \A i \in 1..8 : i # 5 => e[i] = header.ext[i]
  BY <1>1 DEF Bytes8
<1>4. /\ meant' \in Meant /\ meant'.seq = meant.seq /\ meant'.timestampNs = meant.timestampNs
      /\ meant'.payloadLen = meant.payloadLen /\ meant'.type = meant.type
      /\ meant'.startFreq = meant.startFreq /\ meant'.segment = b
  BY <1>1 DEF SetSegment, Written, Meant
<1>5. header'.ext = e
  BY <1>1, <1>2 DEF Written, Headers
<1>6. "sampleRate" \notin FrameTypes[meant.type]
  BY <1>1, FrameAssumption DEF HasField
<1>7. ExtWritten'
  <2>. HIDE DEF e
  <2>. QED  BY <1>1, <1>3, <1>4, <1>5, <1>6 DEF HasField, Written, ExtWritten
<1>8. Written'
  BY <1>1, <1>2, <1>3, <1>4, <1>7, ExtSet
<1>. QED  BY <1>2, <1>8 DEF FrameInv

(* So every call keeps what was meant readable.                            *)
LEMMA FrameStep == FrameInv /\ [FrameNext]_frameVars => FrameInv'
<1>. SUFFICES ASSUME FrameInv, [FrameNext]_frameVars  PROVE FrameInv'
  OBVIOUS
<1>1. CASE UNCHANGED frameVars
  BY <1>1 DEF frameVars, FrameInv, Written, ExtWritten
<1>2. CASE FrameNext
  BY <1>2, MadeHeader, PayloadSet, StartFreqSet, SampleRateSet, SegmentSet DEF FrameNext
<1>. QED  BY <1>1, <1>2

(* What the invariant says is what a consumer on any host reads.           *)
LEMMA ConsumerReads == FrameInv => FrameOnWire
<1>. SUFFICES ASSUME FrameInv  PROVE FrameOnWire
  OBVIOUS
<1>1. CASE meant.type = "none" /\ header.magic = "garbage"
  BY <1>1 DEF FrameOnWire, IsValid
<1>2. CASE Written
  <2>1. /\ meant.type # "none" /\ IsValid(header) /\ header.ext \in Bytes8
        /\ meant.startFreq \in Bytes4 /\ meant.sampleRate \in Bytes4
        /\ meant.payloadLen \in Bytes4
    BY <1>2, FrameAssumption DEF Written, Meant, Headers, IsValid
  <2>. DEFINE a == SubSeq(header.ext, 1, 4)
              b == SubSeq(header.ext, 5, 8)
  <2>2. /\ a \in Bytes4 /\ b \in Bytes4
        /\ \A i \in 1..4 : a[i] = header.ext[i] /\ b[i] = header.ext[i + 4]
    BY <2>1, Halves
  <2>3. a = meant.startFreq
    BY <1>2, <2>1, <2>2 DEF Written, ExtWritten, Bytes4
  <2>4. HasField("sampleRate") => b = meant.sampleRate
    BY <1>2, <2>1, <2>2 DEF Written, ExtWritten, HasField, Bytes4
  <2>5. ASSUME NEW order \in Orders
        PROVE  /\ GetPayloadLen(order, header) = meant.payloadLen
               /\ HasField("startFreq") => GetStartFreq(order, header) = meant.startFreq
               /\ HasField("sampleRate") => GetSampleRate(order, header) = meant.sampleRate
    <3>1. \A v \in Bytes4 : Loaded32(order, v) = v
      BY WireOrder32
    <3>. QED  BY <3>1, <1>2, <2>1, <2>3, <2>4
              DEF Written, GetPayloadLen, GetStartFreq, GetSampleRate
  <2>6. HasField("segment") => GetSegment(header) = meant.segment
    BY <1>2, <2>1, FrameAssumption DEF Written, ExtWritten, Meant, HasField, GetSegment
  <2>7. ~HasField("startFreq") => a = Zero32
    BY <1>2, <2>1, <2>3 DEF Written, ExtWritten, HasField
  <2>8. ~HasField("sampleRate") =>
          \A i \in 5..8 : header.ext[i] # 0 => i = 5 /\ HasField("segment")
    <3>1. \A i \in 5..8 : i = 5 \/ i \in 6..8
      OBVIOUS
    <3>. QED  BY <3>1, <1>2, <2>1 DEF Written, ExtWritten, HasField
  <2>. QED  BY <1>2, <2>1, <2>5, <2>6, <2>7, <2>8 DEF FrameOnWire, Orders, Written
<1>. QED  BY <1>1, <1>2 DEF FrameInv

(* Whatever the memory held and in whatever order the fields are set, a    *)
(* consumer on a host of either byte order reads what the producer meant.  *)
THEOREM FrameReadable == FrameSpec => []FrameOnWire
<1>1. FrameSpec => []FrameInv
  BY FrameInitially, FrameStep, PTL DEF FrameSpec
<1>. QED  BY <1>1, ConsumerReads, PTL
=============================================================================
