----------------------------- MODULE BlobChannel -----------------------------
(***************************************************************************)
(* One data-plane channel (BlobChannel.cpp): device threads post() blobs   *)
(* into a bounded mailbox, the host thread pumps it out to the             *)
(* subscribers, and a hook called on the posting thread tells the host     *)
(* when to pump.                                                           *)
(*                                                                         *)
(* post() is two steps: the mailbox changes under m_queueMutex, the hook   *)
(* is called after the mutex is released. Host calls nest: a subscriber    *)
(* runs inside publish(), which may run inside pump(), and may call the    *)
(* channel again; `stack` holds the calls in progress, innermost first.    *)
(*                                                                         *)
(* A blob is the number it got when it was posted, 0 when it was published *)
(* directly. m_published and m_delivered are left out: nothing reads them  *)
(* but stats(). The host's event loop is external: the hook it installs    *)
(* schedules one pump, and it runs what is scheduled when it is idle.      *)
(***************************************************************************)
EXTENDS Naturals, SequencesExt, FiniteSets

CONSTANTS
  Devices,        (* device threads                                        *)
  Host,           (* the host thread, which may post() too                 *)
  Handlers,       (* subscribers                                           *)
  Throwing,       (* those whose handler may throw                         *)
  InitCapacity,   (* capacity the channel is constructed with              *)
  Capacities,     (* arguments of setCapacity()                            *)
  LateHook,       (* is the hook installed while devices already post?     *)
  NestedPump,     (* may a handler call pump()?                            *)
  MaxPosts,       (* bound: posts                                          *)
  MaxDepth        (* bound: calls in progress on the host thread           *)

ASSUME ChannelAssumption ==
  /\ Host \notin Devices /\ Throwing \subseteq Handlers
  /\ InitCapacity \in Nat /\ Capacities \subseteq Nat
  /\ LateHook \in BOOLEAN /\ NestedPump \in BOOLEAN
  /\ MaxPosts \in Nat /\ MaxDepth \in Nat

VARIABLES
  queue,          (* m_queue: the mailbox, oldest first                       *)
  capacity,       (* m_capacity                                               *)
  pending,        (* m_pending: the hook has been used up until the next pump *)
  posted, dropped, pumped,   (* the counters of the mailbox                *)
  hook,           (* m_pumpHook: "none", "writing" (setPumpHook runs), "set" *)
  firing,         (* threads in post() between the mutex and the hook        *)
  scheduled,      (* the host's event loop holds a request to pump           *)
  handlers,       (* m_handlers, in token order                              *)
  stack,          (* calls in progress on the host thread                    *)
  last            (* history: the blob pump() handed out last                *)

vars == <<queue, capacity, pending, posted, dropped, pumped, hook, firing,
          scheduled, handlers, stack, last>>
mailbox == <<queue, capacity, pending, posted, dropped>>

Threads == Devices \cup {Host}
Blobs == 0..MaxPosts

(* pump: `blobs` are those still to be delivered; publish: `blobs` is the  *)
(* one being delivered, `todo` the handlers still to call, and one of them *)
(* runs while `calling`.                                                   *)
Frame == [op : {"pump", "publish"}, blobs : Seq(Blobs), todo : Seq(Handlers), calling : BOOLEAN]

AtLeastOne(c) == IF c = 0 THEN 1 ELSE c

TypeOK ==
  /\ queue \in Seq(1..MaxPosts)
  /\ capacity \in Nat \ {0}
  /\ pending \in BOOLEAN
  /\ posted \in 0..MaxPosts /\ dropped \in Nat /\ pumped \in Nat
  /\ hook \in {"none", "writing", "set"}
  /\ firing \in SUBSET Threads
  /\ scheduled \in BOOLEAN
  /\ handlers \in Seq(Handlers)
  /\ stack \in Seq(Frame)
  /\ last \in Blobs

Init ==
  /\ queue = <<>> /\ capacity = AtLeastOne(InitCapacity) /\ pending = FALSE
  /\ posted = 0 /\ dropped = 0 /\ pumped = 0
  /\ hook = (IF LateHook THEN "none" ELSE "set")
  /\ firing = {} /\ scheduled = FALSE
  /\ handlers = <<>> /\ stack = <<>> /\ last = 0

(* The host thread runs client code: its event loop or a handler.          *)
InClient ==
  /\ Host \notin firing /\ hook # "writing"
  /\ IF stack = <<>> THEN TRUE ELSE Head(stack).calling

Full(q) == Len(q) >= capacity

-----------------------------------------------------------------------------
(* post(), on any thread                                                   *)

Enqueue_Front(q, b) == <<b>> \o (IF Full(q) THEN Tail(q) ELSE q)
Enqueue_DropsNewest(q, b) == IF Full(q) THEN Append(Front(q), b) ELSE Append(q, b)
Enqueue(q, b) == IF Full(q) THEN Append(Tail(q), b) ELSE Append(q, b)

(* Does this post find the hook armed?                                     *)
Arms_SecondBlob(q) == ~pending /\ q # <<>>
Arms(q) == ~pending

Post(t) ==
  /\ posted < MaxPosts
  /\ t \notin firing
  /\ t = Host => InClient
  /\ queue' = Enqueue(queue, posted + 1)
  /\ dropped' = dropped + (IF Full(queue) THEN 1 ELSE 0)
  /\ posted' = posted + 1
  /\ pending' = (pending \/ Arms(queue))
  /\ firing' = IF Arms(queue) THEN firing \cup {t} ELSE firing
  /\ UNCHANGED <<capacity, pumped, hook, scheduled, handlers, stack, last>>

(* The hook is read without a lock: while setPumpHook() writes it the      *)
(* thread sees the old value or the new one (or a torn one and crashes,    *)
(* and the behaviour ends there).                                          *)
FireHook(t) ==
  /\ t \in firing
  /\ firing' = firing \ {t}
  /\ \/ hook # "none" /\ scheduled' = TRUE
     \/ hook # "set" /\ UNCHANGED scheduled
  /\ UNCHANGED <<mailbox, pumped, hook, handlers, stack, last>>

-----------------------------------------------------------------------------
(* Host thread                                                             *)

SetPumpHook ==
  /\ InClient /\ hook = "none"
  /\ hook' = "writing"
  /\ UNCHANGED <<mailbox, pumped, firing, scheduled, handlers, stack, last>>

SetPumpHookDone ==
  /\ hook = "writing"
  /\ hook' = "set"
  /\ UNCHANGED <<mailbox, pumped, firing, scheduled, handlers, stack, last>>

Shrink_Uncounted(c) ==
  /\ queue' = SubSeq(queue, Len(queue) - c + 1, Len(queue))
  /\ UNCHANGED dropped
Shrink(c) ==
  /\ queue' = SubSeq(queue, Len(queue) - c + 1, Len(queue))
  /\ dropped' = dropped + (Len(queue) - c)

SetCapacity(c) ==
  /\ InClient
  /\ capacity' = AtLeastOne(c)
  /\ IF Len(queue) > AtLeastOne(c) THEN Shrink(AtLeastOne(c))
     ELSE UNCHANGED <<queue, dropped>>
  /\ UNCHANGED <<pending, posted, pumped, hook, firing, scheduled, handlers, stack, last>>

Subscribe(h) ==
  /\ InClient /\ h \notin ToSet(handlers)
  /\ handlers' = Append(handlers, h)
  /\ UNCHANGED <<mailbox, pumped, hook, firing, scheduled, stack, last>>

Unsubscribe(h) ==
  /\ InClient /\ h \in ToSet(handlers)
  /\ handlers' = RemoveFirst(handlers, h)
  /\ UNCHANGED <<mailbox, pumped, hook, firing, scheduled, stack, last>>

(* publish() copies the handlers first and calls them outside the mutex.   *)
Fanout(b) == [op |-> "publish", blobs |-> <<b>>, todo |-> handlers, calling |-> FALSE]

Publish ==
  /\ InClient /\ Len(stack) < MaxDepth
  /\ stack' = <<Fanout(0)>> \o stack
  /\ UNCHANGED <<mailbox, pumped, hook, firing, scheduled, handlers, last>>

(* pump() takes the whole mailbox and re-arms the hook, under one lock.    *)
Drain_StaysPending == queue' = <<>> /\ UNCHANGED pending
Drain == queue' = <<>> /\ pending' = FALSE

StartPump ==
  /\ Drain
  /\ stack' = <<[op |-> "pump", blobs |-> queue, todo |-> <<>>, calling |-> FALSE]>> \o stack
  /\ UNCHANGED <<capacity, posted, dropped, pumped, hook, firing, handlers, last>>

Pump ==
  /\ InClient /\ Len(stack) + 1 < MaxDepth
  /\ stack # <<>> => NestedPump
  /\ StartPump
  /\ UNCHANGED scheduled

RunScheduled ==
  /\ InClient /\ stack = <<>> /\ scheduled
  /\ StartPump
  /\ scheduled' = FALSE

Running(op) ==
  IF stack = <<>> THEN FALSE
  ELSE Head(stack).op = op /\ ~Head(stack).calling /\ hook # "writing" /\ Host \notin firing

(* One blob of the drained mailbox is counted and published.               *)
PumpNext ==
  /\ Running("pump") /\ Head(stack).blobs # <<>>
  /\ LET b == Head(Head(stack).blobs) IN
     /\ pumped' = pumped + 1
     /\ last' = b
     /\ stack' = <<Fanout(b), [Head(stack) EXCEPT !.blobs = Tail(@)]>> \o Tail(stack)
  /\ UNCHANGED <<mailbox, hook, firing, scheduled, handlers>>

CallHandler ==
  /\ Running("publish") /\ Head(stack).todo # <<>>
  /\ stack' = <<[Head(stack) EXCEPT !.todo = Tail(@), !.calling = TRUE]>> \o Tail(stack)
  /\ UNCHANGED <<mailbox, pumped, hook, firing, scheduled, handlers, last>>

Finished == (Running("pump") /\ Head(stack).blobs = <<>>) \/ (Running("publish") /\ Head(stack).todo = <<>>)

CallDone ==
  /\ Finished
  /\ stack' = Tail(stack)
  /\ UNCHANGED <<mailbox, pumped, hook, firing, scheduled, handlers, last>>

HandlerReturns ==
  /\ stack # <<>> /\ InClient
  /\ stack' = <<[Head(stack) EXCEPT !.calling = FALSE]>> \o Tail(stack)
  /\ UNCHANGED <<mailbox, pumped, hook, firing, scheduled, handlers, last>>

(* publish() and pump() catch nothing: an exception leaves both, and what  *)
(* pump() still held goes with it.  The client around them goes on.        *)
HandlerThrows ==
  /\ Throwing # {} /\ stack # <<>> /\ InClient
  /\ stack' = LET rest == Tail(stack) IN
              IF rest # <<>> /\ Head(rest).op = "pump" THEN Tail(rest) ELSE rest
  /\ UNCHANGED <<mailbox, pumped, hook, firing, scheduled, handlers, last>>

Next ==
  \/ \E t \in Threads : Post(t) \/ FireHook(t)
  \/ SetPumpHook \/ SetPumpHookDone
  \/ \E c \in Capacities : SetCapacity(c)
  \/ \E h \in Handlers : Subscribe(h) \/ Unsubscribe(h)
  \/ Publish \/ Pump \/ RunScheduled \/ PumpNext \/ CallHandler \/ CallDone
  \/ HandlerReturns \/ HandlerThrows

Spec == Init /\ [][Next]_vars

(* A thread in post() goes on to the hook; the host's loops run on; a      *)
(* handler that is entered again and again, at whatever depth, returns;    *)
(* and an event loop that is idle again and again runs what is scheduled.  *)
FairSpec ==
  /\ Spec
  /\ \A t \in Threads : WF_vars(FireHook(t))
  /\ WF_vars(PumpNext \/ CallHandler \/ CallDone)
  /\ \A d \in 1..MaxDepth : SF_vars(Len(stack) = d /\ HandlerReturns)
  /\ SF_vars(RunScheduled)

-----------------------------------------------------------------------------
(* m_pending says exactly whether the mailbox holds something: no          *)
(* overflow, capacity change or pump separates the two ("empty->nonempty   *)
(* transition").                                                           *)
PendingIffQueued == pending <=> queue # <<>>

(* As long as blobs wait, a pump is scheduled or a thread in post() is     *)
(* about to schedule one: no interleaving of posts and pumps loses the     *)
(* wake-up.                                                                *)
NoLostWakeup == queue # <<>> => scheduled \/ firing # {}

HeldBy(f) == IF f.op = "pump" THEN Len(f.blobs) ELSE 0
InFlight(calls) ==
  LET n == [i \in DOMAIN calls |-> HeldBy(calls[i])]
  IN  MapThenSumSet(LAMBDA i : n[i], DOMAIN calls)

(* "No loss, no double drain": every posted blob was dropped, was handed   *)
(* out once, waits in the mailbox, or is held by a pump in progress.       *)
Conserved ==
  /\ TypeOK
  /\ posted = dropped + pumped + Len(queue) + InFlight(stack)

(* The mailbox holds the newest blobs without a gap and never exceeds its  *)
(* capacity: overflow and setCapacity() drop the oldest.                   *)
KeepsLatest ==
  /\ Len(queue) <= capacity
  /\ \A i \in DOMAIN queue : queue[i] = posted - Len(queue) + i

(* What is posted leaves the mailbox, although the host pumps only when    *)
(* the hook told it to.                                                    *)
Drained == []<>(queue = <<>> /\ stack = <<>>)

Held == UNION {ToSet(stack[i].blobs) : i \in {j \in DOMAIN stack : stack[j].op = "pump"}}

(* The mailbox and the pump in progress together implement LossyMailbox.   *)
Mailbox == INSTANCE LossyMailbox WITH sent <- posted, waiting <- ToSet(queue) \cup Held
LatestWinsFifo == Mailbox!Spec
=============================================================================
