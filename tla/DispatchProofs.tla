---------------------------- MODULE DispatchProofs ----------------------------
(***************************************************************************)
(* The three ways in which a Context calls code of its clients.            *)
(*                                                                         *)
(* The event bus under any tree of scopes, any handlers and any nesting of *)
(* emits: the depth is exact, handlers run in subscription order and none  *)
(* is left out, and the tables hold the subscriptions that are owned.      *)
(* Then the middleware, for every chain, every nesting and every use of    *)
(* next(), and the loop over the channels, for every set of channels,      *)
(* every capacity and every nesting of passes, posts and exceptions.       *)
(***************************************************************************)
EXTENDS ScopeDispatch, Middleware, DataPlane, CollectionLemmas

(* Increasing tokens do not repeat ...                                     *)
LEMMA IncreasingIsInjective ==
  ASSUME NEW q \in Seq(Tokens), Increasing(q)
  PROVE  IsInjective(q)
<1>1. DOMAIN q = 1..Len(q) /\ \A i \in 1..Len(q) : q[i] \in Nat
  BY LenProperties, ElementOfSeq, BusAssumption
<1>2. \A i, j \in DOMAIN q : i < j \/ j < i \/ i = j
  BY <1>1
<1>. QED  BY <1>1, <1>2 DEF Increasing, IsInjective

(* ... and removing one leaves the rest in order.                          *)
LEMMA IncreasingRemoved ==
  ASSUME NEW q \in Seq(Tokens), Increasing(q), NEW t
  PROVE  /\ Removed(q, t) \in Seq(Tokens) /\ Increasing(Removed(q, t))
         /\ ToSet(Removed(q, t)) = ToSet(q) \ {t}
<1>. DEFINE r == RemoveFirst(q, t)
<1>1. r \in Seq(Tokens) /\ ToSet(r) = ToSet(q) \ {t}
  BY IncreasingIsInjective, RemoveFirstInjective
<1>2. Len(q) \in Nat /\ DOMAIN q = 1..Len(q)
  BY LenProperties
<1>3. CASE t \in ToSet(q)
  <2>1. PICK k \in 1..Len(q) : \A i \in 1..(Len(q) - 1) : r[i] = IF i < k THEN q[i] ELSE q[i + 1]
    BY <1>3, RemoveFirstPosition
  <2>2. Len(r) = Len(q) - 1
    BY <1>3, RemoveFirstPosition
  <2>. HIDE DEF r
  <2>3. DOMAIN r = 1..(Len(q) - 1)
    BY <1>1, <2>2, LenProperties
  <2>4. ASSUME NEW i \in 1..(Len(q) - 1), NEW j \in 1..(Len(q) - 1), i < j PROVE r[i] < r[j]
    <3>. DEFINE up(n) == IF n < k THEN n ELSE n + 1
    <3>1. up(i) \in 1..Len(q) /\ up(j) \in 1..Len(q) /\ up(i) < up(j)
      BY <1>2, <2>4
    <3>2. r[i] = q[up(i)] /\ r[j] = q[up(j)]
      BY <2>1
    <3>. HIDE DEF up
    <3>. QED  BY <1>2, <3>1, <3>2 DEF Increasing
  <2>5. Increasing(r)
    BY <2>3, <2>4 DEF Increasing
  <2>. QED  BY <1>1, <2>5 DEF r, Removed
<1>4. CASE t \notin ToSet(q)
  <2>1. r = q
    BY <1>2, <1>4 DEF RemoveFirst, ToSet
  <2>. QED  BY <1>1, <2>1 DEF Removed
<1>. QED  BY <1>3, <1>4

(* A table in which every event's tokens stand in subscription order.      *)
Ordered(table) == table \in [Events -> Seq(Tokens)] /\ \A e \in Events : Increasing(table[e])

(* off() removes a token from every event's handlers.                      *)
LEMMA OffOrdered ==
  ASSUME NEW table, Ordered(table), NEW t
  PROVE  /\ Ordered(Off(table, t))
         /\ \A e \in Events : ToSet(Off(table, t)[e]) = ToSet(table[e]) \ {t}
BY IncreasingRemoved DEF Ordered, Off

-----------------------------------------------------------------------------
(* A scope that dies releases its connections one by one: FoldSet is a     *)
(* recursive function over the subsets of a finite set. There is such a    *)
(* function ...                                                            *)
Pick(T) == CHOOSE t \in T : TRUE

ReleasesUpTo(g, D, n) ==
  \A T \in SUBSET D : Cardinality(T) <= n =>
    g[T] = IF T = {} THEN handlers ELSE Off(g[T \ {Pick(T)}], Pick(T))

(* A finite set without the element picked is smaller.                     *)
LEMMA PickRemoved ==
  ASSUME NEW D, IsFiniteSet(D), NEW T \in SUBSET D
  PROVE  /\ IsFiniteSet(T) /\ Cardinality(T) \in Nat
         /\ Cardinality(T) = 0 <=> T = {}
         /\ T # {} => /\ Pick(T) \in T /\ T \ {Pick(T)} \in SUBSET D
                      /\ Cardinality(T \ {Pick(T)}) = Cardinality(T) - 1
BY FS_Subset, FS_CardinalityType, FS_EmptySet, FS_RemoveElement DEF Pick

(* So releasing all connections of a scope, one after the other, is        *)
(* defined ...                                                             *)
LEMMA ReleasesExist ==
  ASSUME NEW D, IsFiniteSet(D)
  PROVE  \E g : g = [T \in SUBSET D |-> IF T = {} THEN handlers ELSE Off(g[T \ {Pick(T)}], Pick(T))]
<1>. DEFINE Bad == {n \in Nat : ~ \E g : ReleasesUpTo(g, D, n)}
<1>1. Bad \subseteq Nat
  OBVIOUS
<1>2. 0 \notin Bad
  <2>. DEFINE g == [T \in SUBSET D |-> handlers]
  <2>1. ASSUME NEW T \in SUBSET D, Cardinality(T) <= 0 PROVE T = {}
    <3>1. Cardinality(T) \in Nat /\ (Cardinality(T) = 0 => T = {})
      BY PickRemoved
    <3>. QED  BY <2>1, <3>1
  <2>2. ReleasesUpTo(g, D, 0)
    BY <2>1 DEF ReleasesUpTo
  <2>. QED  BY <2>2
<1>3. ASSUME NEW n \in Nat, n \notin Bad PROVE n + 1 \notin Bad
  <2>1. PICK g : ReleasesUpTo(g, D, n)
    BY <1>3
  <2>. DEFINE h == [T \in SUBSET D |->
                      IF Cardinality(T) = n + 1 THEN Off(g[T \ {Pick(T)}], Pick(T)) ELSE g[T]]
  <2>2. ASSUME NEW T \in SUBSET D, Cardinality(T) <= n + 1
        PROVE  h[T] = IF T = {} THEN handlers ELSE Off(h[T \ {Pick(T)}], Pick(T))
    <3>1. /\ Cardinality(T) \in Nat /\ (Cardinality(T) = 0 <=> T = {})
          /\ T # {} => /\ T \ {Pick(T)} \in SUBSET D
                       /\ Cardinality(T \ {Pick(T)}) = Cardinality(T) - 1
      BY PickRemoved
    <3>2. CASE Cardinality(T) = n + 1
      <4>1. T # {} /\ T \ {Pick(T)} \in SUBSET D /\ Cardinality(T \ {Pick(T)}) # n + 1
        BY <3>2, <3>1
      <4>2. h[T \ {Pick(T)}] = g[T \ {Pick(T)}]
        BY <4>1
      <4>. QED  BY <3>2, <4>1, <4>2
    <3>3. CASE Cardinality(T) # n + 1
      <4>1. Cardinality(T) <= n
        BY <2>2, <3>3, <3>1
      <4>2. h[T] = g[T]
        BY <3>3
      <4>3. CASE T = {}
        BY <2>1, <4>1, <4>2, <4>3 DEF ReleasesUpTo
      <4>4. CASE T # {}
        <5>1. T \ {Pick(T)} \in SUBSET D /\ Cardinality(T \ {Pick(T)}) # n + 1
          BY <3>1, <4>1, <4>4
        <5>2. h[T \ {Pick(T)}] = g[T \ {Pick(T)}]
          BY <5>1
        <5>3. g[T] = Off(g[T \ {Pick(T)}], Pick(T))
          BY <2>1, <4>1, <4>4 DEF ReleasesUpTo
        <5>. QED  BY <4>2, <4>4, <5>2, <5>3
      <4>. QED  BY <4>3, <4>4
    <3>. QED  BY <3>2, <3>3
  <2>3. ReleasesUpTo(h, D, n + 1)
    BY <2>2 DEF ReleasesUpTo
  <2>. QED  BY <2>3
<1>. HIDE DEF Bad
<1>4. Bad = {}
  BY <1>1, <1>2, <1>3, LeastStep
<1>5. Cardinality(D) \in Nat /\ \A T \in SUBSET D : Cardinality(T) <= Cardinality(D)
  BY FS_CardinalityType, FS_Subset
<1>6. PICK g : ReleasesUpTo(g, D, Cardinality(D))
  BY <1>4, <1>5 DEF Bad
<1>. DEFINE r == [T \in SUBSET D |-> g[T]]
<1>7. ASSUME NEW T \in SUBSET D
      PROVE  r[T] = IF T = {} THEN handlers ELSE Off(r[T \ {Pick(T)}], Pick(T))
  <2>1. g[T] = IF T = {} THEN handlers ELSE Off(g[T \ {Pick(T)}], Pick(T))
    BY <1>5, <1>6 DEF ReleasesUpTo
  <2>2. T \ {Pick(T)} \in SUBSET D
    OBVIOUS
  <2>. QED  BY <2>1, <2>2
<1>8. r = [T \in SUBSET D |-> IF T = {} THEN handlers ELSE Off(r[T \ {Pick(T)}], Pick(T))]
  <2>. HIDE DEF r
  <2>. QED  BY <1>7 DEF r
<1>. QED  BY <1>8

(* ... and what it leaves of each table are the tokens of others.          *)
LEMMA DisconnectedOrdered ==
  ASSUME Ordered(handlers), NEW s, IsFiniteSet(conns[s])
  PROVE  /\ Ordered(Disconnected(s))
         /\ \A e \in Events : ToSet(Disconnected(s)[e]) = ToSet(handlers[e]) \ conns[s]
<1>. DEFINE D == conns[s]
            g == CHOOSE f : f = [T \in SUBSET D |-> IF T = {} THEN handlers
                                                    ELSE Off(f[T \ {Pick(T)}], Pick(T))]
<1>1. \E f : f = [T \in SUBSET D |-> IF T = {} THEN handlers
                                     ELSE Off(f[T \ {Pick(T)}], Pick(T))]
  BY ReleasesExist
<1>2. g = [T \in SUBSET D |-> IF T = {} THEN handlers ELSE Off(g[T \ {Pick(T)}], Pick(T))]
  BY <1>1
<1>3. Disconnected(s) = g[D]
  BY DEF Disconnected, FoldSet, MapThenFoldSet, Pick
<1>. HIDE DEF g
<1>. DEFINE Good(T) == /\ Ordered(g[T])
                       /\ \A e \in Events : ToSet(g[T][e]) = ToSet(handlers[e]) \ T
            Bad == {n \in Nat : \E T \in SUBSET D : Cardinality(T) = n /\ ~Good(T)}
<1>4. Bad \subseteq Nat
  OBVIOUS
<1>5. 0 \notin Bad
  <2>1. Good({})
    BY <1>2
  <2>2. \A T \in SUBSET D : Cardinality(T) = 0 => T = {}
    BY PickRemoved
  <2>. HIDE DEF Good
  <2>. QED  BY <2>1, <2>2
<1>6. ASSUME NEW n \in Nat, n \notin Bad PROVE n + 1 \notin Bad
  <2>1. SUFFICES ASSUME NEW T \in SUBSET D, Cardinality(T) = n + 1 PROVE Good(T)
    <3>. HIDE DEF Good
    <3>. QED  OBVIOUS
  <2>. DEFINE t == Pick(T)
  <2>2. T # {} /\ t \in T /\ T \ {t} \in SUBSET D /\ Cardinality(T \ {t}) = n
    BY <2>1, PickRemoved
  <2>3. Good(T \ {t})
    <3>. HIDE DEF Good
    <3>. QED  BY <1>6, <2>2
  <2>4. g[T] = Off(g[T \ {t}], t)
    BY <1>2, <2>2
  <2>. HIDE DEF t
  <2>5. /\ Ordered(Off(g[T \ {t}], t))
        /\ \A e \in Events : ToSet(Off(g[T \ {t}], t)[e]) = ToSet(g[T \ {t}][e]) \ {t}
    BY <2>3, OffOrdered
  <2>. QED  BY <2>2, <2>3, <2>4, <2>5
<1>. HIDE DEF Good
<1>7. Bad = {}
  <2>. HIDE DEF Bad
  <2>. QED  BY <1>4, <1>5, <1>6, LeastStep
<1>8. Good(D)
  BY <1>7, FS_CardinalityType
<1>. QED  BY <1>3, <1>8 DEF Good

-----------------------------------------------------------------------------
(* What a step does to the calls in progress. It may leave them, except    *)
(* that a handler ends; ...                                                *)
CallsKept ==
  /\ stack' \in Seq(Frame) /\ Len(stack') = Len(stack) /\ depth' = depth
  /\ \A i \in 1..Len(stack) :
       stack'[i].todo = stack[i].todo /\ stack'[i].token \in {stack[i].token, 0}

(* ... the innermost may call its next handler; ...                        *)
HandlerCalled ==
  /\ stack' \in Seq(Frame) /\ Len(stack') = Len(stack) /\ depth' = depth
  /\ Len(stack) > 0 /\ stack[1].todo # <<>>
  /\ stack'[1].todo = Tail(stack[1].todo) /\ stack'[1].token = Head(stack[1].todo)
  /\ \A i \in 2..Len(stack) : stack'[i] = stack[i]

(* ... one may begin, with a copy of the handlers of its event; ...        *)
CallBegun ==
  /\ stack' \in Seq(Frame) /\ Len(stack') = Len(stack) + 1
  /\ depth' = depth + 1 /\ depth < KMaxRecurse
  /\ stack'[1].token = 0 /\ \E e \in Events : stack'[1].todo = handlers[e]
  /\ \A i \in 1..Len(stack) :
       stack'[i + 1].todo = stack[i].todo /\ stack'[i + 1].token = stack[i].token

(* ... or the innermost may end, when it has called its handlers.          *)
CallEnded ==
  /\ stack' \in Seq(Frame) /\ Len(stack) > 0 /\ Len(stack') = Len(stack) - 1
  /\ depth' = depth - 1
  /\ stack[1].todo = <<>> /\ \A i \in 1..(Len(stack) - 1) : stack'[i] = stack[i + 1]

(* The fields of a call.                                                   *)
LEMMA FrameFields ==
  ASSUME NEW f \in Frame
  PROVE  /\ f.todo \in Seq(Tokens) /\ f.token \in Tokens \cup {0}
         /\ f.may \in SUBSET Events /\ f.event \in Events
BY DEF Frame

(* A frame in the place of the innermost one.                              *)
LEMMA TopReplaced ==
  ASSUME stack \in Seq(Frame), stack # <<>>, NEW f \in Frame
  PROVE  /\ Len(stack) \in Nat \ {0} /\ Head(stack) = stack[1] /\ stack[1] \in Frame
         /\ <<f>> \o Tail(stack) \in Seq(Frame) /\ Len(<<f>> \o Tail(stack)) = Len(stack)
         /\ (<<f>> \o Tail(stack))[1] = f
         /\ \A i \in 2..Len(stack) : (<<f>> \o Tail(stack))[i] = stack[i]
<1>. DEFINE r == <<f>> \o Tail(stack)
<1>1. Len(stack) \in Nat \ {0} /\ Head(stack) = stack[1] /\ stack[1] \in Frame
  BY EmptySeq, ElementOfSeq
<1>2. /\ Tail(stack) \in Seq(Frame) /\ Len(Tail(stack)) = Len(stack) - 1
      /\ \A i \in 1..Len(Tail(stack)) : Tail(stack)[i] = stack[i + 1]
  BY HeadTailProperties
<1>3. <<f>> \in Seq(Frame) /\ Len(<<f>>) = 1 /\ <<f>>[1] = f
  OBVIOUS
<1>4. /\ r \in Seq(Frame) /\ Len(r) = 1 + Len(Tail(stack))
      /\ \A i \in 1..(1 + Len(Tail(stack))) : r[i] = IF i <= 1 THEN <<f>>[i] ELSE Tail(stack)[i - 1]
  BY <1>2, <1>3, ConcatProperties
<1>. HIDE DEF r
<1>5. Len(r) = Len(stack) /\ r[1] = f
  BY <1>1, <1>2, <1>3, <1>4
<1>6. ASSUME NEW i \in 2..Len(stack) PROVE r[i] = stack[i]
  <2>1. /\ i \in 1..(1 + Len(Tail(stack))) /\ ~(i <= 1)
        /\ i - 1 \in 1..Len(Tail(stack)) /\ (i - 1) + 1 = i
    BY <1>1, <1>2
  <2>. QED  BY <1>2, <1>4, <2>1
<1>. QED  BY <1>1, <1>4, <1>5, <1>6 DEF r

(* A handler that emits changes only what it may still emit.               *)
LEMMA EmitterKeeps ==
  ASSUME TypeOK, NEW e \in Events
  PROVE  /\ Emitter(e) \in Seq(Frame) /\ Len(Emitter(e)) = Len(stack)
         /\ \A i \in 1..Len(stack) :
              Emitter(e)[i].todo = stack[i].todo /\ Emitter(e)[i].token = stack[i].token
<1>1. stack \in Seq(Frame)
  BY DEF TypeOK
<1>2. CASE stack = <<>>
  BY <1>2 DEF Emitter
<1>3. CASE stack # <<>>
  <2>. DEFINE f == [Head(stack) EXCEPT !.may = @ \ {e}]
  <2>1. Head(stack) \in Frame /\ Head(stack) = stack[1] /\ Len(stack) \in Nat \ {0}
    BY <1>1, <1>3, HeadTailProperties, EmptySeq
  <2>2. Head(stack).may \ {e} \in SUBSET Events
    BY <2>1, FrameFields
  <2>3. f \in Frame /\ f.todo = stack[1].todo /\ f.token = stack[1].token
    <3>. DEFINE h == Head(stack)
    <3>1. h \in Frame /\ h.may \ {e} \in SUBSET Events /\ h = stack[1]
      BY <2>1, <2>2
    <3>2. f = [h EXCEPT !.may = h.may \ {e}]
      OBVIOUS
    <3>. HIDE DEF h, f
    <3>. QED  BY <3>1, <3>2 DEF Frame
  <2>4. Emitter(e) = <<f>> \o Tail(stack)
    BY <1>3 DEF Emitter
  <2>. HIDE DEF f
  <2>5. /\ Emitter(e) \in Seq(Frame) /\ Len(Emitter(e)) = Len(stack)
        /\ Emitter(e)[1] = f /\ \A i \in 2..Len(stack) : Emitter(e)[i] = stack[i]
    BY <1>1, <1>3, <2>3, <2>4, TopReplaced
  <2>6. \A i \in 1..Len(stack) : i = 1 \/ i \in 2..Len(stack)
    BY <2>1
  <2>. QED  BY <2>3, <2>5, <2>6
<1>. QED  BY <1>2, <1>3

(* emitEvent() that returns early changes no call ...                      *)
LEMMA EmitNothingKeeps ==
  ASSUME TypeOK, NEW e \in Events, EmitNothing(e)
  PROVE  CallsKept
BY EmitterKeeps DEF EmitNothing, Nobody, CallsKept

(* ... one that goes on begins a call with a copy of the handlers ...      *)
LEMMA EmitBegins ==
  ASSUME TypeOK, NEW e \in Events, Emit(e)
  PROVE  CallBegun
<1>. DEFINE f == [event |-> e, todo |-> handlers[e], token |-> 0, may |-> {}]
            q == Emitter(e)
<1>1. f \in Frame /\ f.token = 0 /\ f.todo = handlers[e]
  BY DEF TypeOK, Frame
<1>2. /\ q \in Seq(Frame) /\ Len(q) = Len(stack)
      /\ \A i \in 1..Len(stack) : q[i].todo = stack[i].todo /\ q[i].token = stack[i].token
  BY EmitterKeeps
<1>3. stack' = <<f>> \o q /\ depth' = depth + 1 /\ depth < KMaxRecurse
  BY BusAssumption DEF Emit, TooDeep, TypeOK
<1>4. Len(stack) \in Nat
  BY LenProperties DEF TypeOK
<1>. HIDE DEF f, q
<1>5. <<f>> \in Seq(Frame) /\ Len(<<f>>) = 1 /\ <<f>>[1] = f
  BY <1>1
<1>6. /\ stack' \in Seq(Frame) /\ Len(stack') = 1 + Len(stack)
      /\ \A i \in 1..(1 + Len(stack)) : stack'[i] = IF i <= 1 THEN <<f>>[i] ELSE q[i - 1]
  BY <1>2, <1>3, <1>5, ConcatProperties
<1>7. stack'[1] = f /\ Len(stack') = Len(stack) + 1
  BY <1>4, <1>5, <1>6
<1>8. ASSUME NEW i \in 1..Len(stack) PROVE stack'[i + 1] = q[i]
  <2>1. i + 1 \in 1..(1 + Len(stack)) /\ ~(i + 1 <= 1) /\ (i + 1) - 1 = i
    BY <1>4
  <2>. QED  BY <1>6, <2>1
<1>. QED  BY <1>1, <1>2, <1>3, <1>6, <1>7, <1>8 DEF CallBegun

(* ... calls the next of them ...                                          *)
LEMMA CallHandlerCalls ==
  ASSUME TypeOK, CallHandler
  PROVE  HandlerCalled
<1>. DEFINE h == Head(stack)
            f == [h EXCEPT !.token = Head(h.todo), !.todo = Tail(@), !.may = Emits[h.event]]
<1>1. stack \in Seq(Frame) /\ stack # <<>> /\ h \in Frame /\ h = stack[1] /\ h.todo # <<>>
  BY HeadTailProperties DEF TypeOK, CallHandler
<1>2. /\ h.todo \in Seq(Tokens) /\ h.event \in Events
      /\ Head(h.todo) \in Tokens \cup {0} /\ Tail(h.todo) \in Seq(Tokens)
      /\ Emits[h.event] \in SUBSET Events
  <2>1. h.todo \in Seq(Tokens) /\ h.event \in Events
    BY <1>1, FrameFields
  <2>. QED  BY <1>1, <2>1, HeadTailProperties, BusAssumption
<1>4. f \in Frame /\ f.todo = Tail(h.todo) /\ f.token = Head(h.todo)
  <2>. HIDE DEF h
  <2>. QED  BY <1>1, <1>2 DEF Frame
<1>5. stack' = <<f>> \o Tail(stack) /\ depth' = depth
  BY DEF CallHandler
<1>. HIDE DEF f
<1>6. /\ stack' \in Seq(Frame) /\ Len(stack') = Len(stack) /\ Len(stack) \in Nat \ {0}
      /\ stack'[1] = f /\ \A i \in 2..Len(stack) : stack'[i] = stack[i]
  BY <1>1, <1>4, <1>5, TopReplaced
<1>. QED  BY <1>1, <1>4, <1>5, <1>6 DEF HandlerCalled

(* ... goes on when it returns or throws ...                               *)
LEMMA HandlerEndKeeps ==
  ASSUME TypeOK, HandlerReturns \/ HandlerThrows
  PROVE  CallsKept
<1>. DEFINE h == Head(stack)
            f == [h EXCEPT !.token = 0, !.may = {}]
<1>1. stack \in Seq(Frame) /\ stack # <<>> /\ h \in Frame /\ h = stack[1]
  BY HeadTailProperties DEF TypeOK, HandlerReturns, HandlerThrows
<1>2. <<>> \in Seq(Tokens) /\ 0 \in Tokens \cup {0}
  OBVIOUS
<1>3. f \in Frame /\ f.todo = h.todo /\ f.token = 0
  <2>. HIDE DEF h
  <2>. QED  BY <1>1, <1>2 DEF Frame
<1>4. stack' = <<f>> \o Tail(stack) /\ depth' = depth
  BY DEF HandlerReturns, HandlerThrows, Caught
<1>. HIDE DEF f
<1>5. /\ stack' \in Seq(Frame) /\ Len(stack') = Len(stack) /\ Len(stack) \in Nat \ {0}
      /\ stack'[1] = f /\ \A i \in 2..Len(stack) : stack'[i] = stack[i]
  BY <1>1, <1>3, <1>4, TopReplaced
<1>6. \A i \in 1..Len(stack) : i = 1 \/ i \in 2..Len(stack)
  BY <1>5
<1>. QED  BY <1>1, <1>3, <1>4, <1>5, <1>6 DEF CallsKept

(* ... and ends.                                                           *)
LEMMA EmitReturnsEnds ==
  ASSUME TypeOK, EmitReturns
  PROVE  CallEnded
<1>1. stack \in Seq(Frame) /\ stack # <<>> /\ Head(stack) = stack[1] /\ Len(stack) \in Nat \ {0}
  BY EmptySeq DEF TypeOK, EmitReturns
<1>2. /\ Tail(stack) \in Seq(Frame) /\ Len(Tail(stack)) = Len(stack) - 1
      /\ \A i \in 1..Len(Tail(stack)) : Tail(stack)[i] = stack[i + 1]
  BY <1>1, HeadTailProperties
<1>. QED  BY <1>1, <1>2 DEF EmitReturns, CallEnded

(* Every step of the system is one of these on the calls in progress.      *)
LEMMA StepShapes ==
  ASSUME TypeOK, [DispatchNext]_allVars
  PROVE  \/ CallsKept /\ UNCHANGED <<handlers, nextToken>>
         \/ HandlerCalled /\ UNCHANGED <<handlers, nextToken>>
         \/ CallBegun /\ UNCHANGED <<handlers, nextToken>>
         \/ CallEnded /\ UNCHANGED <<handlers, nextToken>>
         \/ UNCHANGED <<stack, depth>>
<1>1. CASE Dispatch
  <2>1. \A e \in Events : EmitNothing(e) => CallsKept /\ UNCHANGED <<handlers, nextToken>>
    BY EmitNothingKeeps DEF EmitNothing
  <2>2. \A e \in Events : Emit(e) => CallBegun /\ UNCHANGED <<handlers, nextToken>>
    BY EmitBegins DEF Emit
  <2>3. CallHandler => HandlerCalled /\ UNCHANGED <<handlers, nextToken>>
    BY CallHandlerCalls DEF CallHandler
  <2>4. HandlerReturns \/ HandlerThrows => CallsKept /\ UNCHANGED <<handlers, nextToken>>
    BY HandlerEndKeeps DEF HandlerReturns, HandlerThrows
  <2>5. EmitReturns => CallEnded /\ UNCHANGED <<handlers, nextToken>>
    BY EmitReturnsEnds DEF EmitReturns
  <2>. QED  BY <1>1, <2>1, <2>2, <2>3, <2>4, <2>5 DEF Dispatch
<1>2. CASE UNCHANGED allVars
  BY <1>2 DEF allVars, vars
<1>3. CASE DispatchNext /\ ~Dispatch
  BY <1>3 DEF DispatchNext, Born, Dies, OnIn, On, HostReleases, Release, vars
<1>. QED  BY <1>1, <1>2, <1>3

-----------------------------------------------------------------------------
(* DepthExact and SubscriptionOrder hold because a token is new when it is *)
(* subscribed.                                                             *)
BusInv ==
  /\ DepthExact /\ SubscriptionOrder
  /\ \A e \in Events : \A t \in ToSet(handlers[e]) : t < nextToken

(* Every token has one owner; and there is an entry in `gone` for each     *)
(* call.                                                                   *)
OwnInv ==
  /\ life \in [Scopes -> {"unborn", "live", "dead"}]
  /\ conns \in [Owners -> SUBSET Tokens]
  /\ gone \in Seq(SUBSET Tokens) /\ Len(gone) = Len(stack)
  /\ \A o, p \in Owners : o # p => conns[o] \cap conns[p] = {}
  /\ SubscriptionsOwned

DispatchInv == BusInv /\ OwnInv

(* The tables are in the order of subscription ...                         *)
LEMMA BusOrdered == BusInv => Ordered(handlers)
BY DEF BusInv, DepthExact, SubscriptionOrder, TypeOK, Ordered

(* ... since every token is below the next one.                            *)
LEMMA SubscribedBelow ==
  ASSUME BusInv
  PROVE  IsFiniteSet(Subscribed) /\ Subscribed \subseteq Tokens /\ \A t \in Subscribed : t < nextToken
<1>1. \A t \in Subscribed : t < nextToken
  BY DEF BusInv, Subscribed
<1>2. Subscribed \subseteq Tokens
  BY LenProperties, ElementOfSeq DEF BusInv, DepthExact, TypeOK, Subscribed, ToSet
<1>3. Subscribed \in SUBSET Nat /\ nextToken \in Nat /\ \A t \in Subscribed : t <= nextToken
  BY <1>1, <1>2, BusAssumption DEF BusInv, DepthExact, TypeOK
<1>4. IsFiniteSet(Subscribed)
  BY <1>3, FS_BoundedSetOfNaturals
<1>. QED  BY <1>1, <1>2, <1>4

(* A scope holds finitely many connections, all subscribed.                *)
LEMMA HoldsFinite ==
  ASSUME DispatchInv, NEW o \in Owners
  PROVE  IsFiniteSet(conns[o]) /\ conns[o] \subseteq Subscribed
<1>1. conns[o] \in SUBSET Subscribed
  BY DEF DispatchInv, OwnInv, SubscriptionsOwned
<1>. QED  BY <1>1, SubscribedBelow, FS_Subset DEF DispatchInv

(* Taking handlers away disturbs nothing of the bus.                       *)
LEMMA FewerHandlers ==
  ASSUME BusInv, Ordered(handlers)', UNCHANGED <<nextToken, depth, stack>>,
         \A e \in Events : ToSet(handlers'[e]) \subseteq ToSet(handlers[e])
  PROVE  BusInv'
BY DEF BusInv, DepthExact, SubscriptionOrder, TypeOK, Ordered

(* on() appends one token to one event's handlers.                         *)
LEMMA OnKeepsBus ==
  ASSUME BusInv, NEW e \in Events, On(e)
  PROVE  /\ BusInv'
         /\ ToSet(handlers'[e]) = ToSet(handlers[e]) \cup {nextToken}
         /\ \A f \in Events : f # e => handlers'[f] = handlers[f]
<1>. DEFINE q == handlers[e]
            r == Append(q, nextToken)
<1>1. handlers \in [Events -> Seq(Tokens)] /\ q \in Seq(Tokens) /\ nextToken \in Tokens /\ nextToken \in Nat
  BY DEF BusInv, DepthExact, TypeOK, On
<1>2. /\ r \in Seq(Tokens) /\ ToSet(r) = ToSet(q) \cup {nextToken}
      /\ Len(q) \in Nat /\ Len(r) = Len(q) + 1
      /\ \A i \in 1..Len(q) : r[i] = q[i]
      /\ r[Len(q) + 1] = nextToken
  BY <1>1, AppendInjectiveSequence, AppendProperties, LenProperties
<1>3. handlers' = [handlers EXCEPT ![e] = r] /\ nextToken' = nextToken + 1
      /\ UNCHANGED <<depth, stack>>
  BY DEF On
<1>4. DOMAIN q = 1..Len(q) /\ \A i \in 1..Len(q) : q[i] < nextToken
  BY <1>1, LenProperties DEF BusInv, ToSet
<1>5. Increasing(q)
  BY DEF BusInv, SubscriptionOrder
<1>. HIDE DEF q, r
<1>6. Increasing(r)
  <2>1. DOMAIN r = 1..(Len(q) + 1)
    BY <1>2, LenProperties
  <2>2. ASSUME NEW i \in 1..(Len(q) + 1), NEW j \in 1..(Len(q) + 1), i < j PROVE r[i] < r[j]
    <3>1. i \in 1..Len(q) /\ (j \in 1..Len(q) \/ j = Len(q) + 1)
      BY <1>2, <2>2
    <3>. QED  BY <1>2, <1>4, <1>5, <2>2, <3>1 DEF Increasing
  <2>. QED  BY <2>1, <2>2 DEF Increasing
<1>7. /\ handlers'[e] = r /\ \A f \in Events : f # e => handlers'[f] = handlers[f]
      /\ handlers' \in [Events -> Seq(Tokens)]
  BY <1>1, <1>2, <1>3
<1>8. \A f \in Events : \A t \in ToSet(handlers'[f]) : t < nextToken'
  <2>1. SUFFICES ASSUME NEW f \in Events, NEW t \in ToSet(handlers'[f]) PROVE t < nextToken'
    OBVIOUS
  <2>2. t \in ToSet(handlers[f]) \/ t = nextToken
    BY <1>2, <1>7 DEF q
  <2>3. t \in Nat /\ (t < nextToken \/ t = nextToken)
    BY <1>1, <2>2, SubscribedBelow, BusAssumption DEF Subscribed
  <2>. QED  BY <1>1, <1>3, <2>3
<1>9. \A f, g \in Events : f # g => ToSet(handlers'[f]) \cap ToSet(handlers'[g]) = {}
  <2>1. \A f \in Events : nextToken \notin ToSet(handlers[f])
    BY <1>1 DEF BusInv
  <2>2. \A f \in Events : ToSet(handlers'[f]) =
                             IF f = e THEN ToSet(handlers[f]) \cup {nextToken} ELSE ToSet(handlers[f])
    BY <1>2, <1>7 DEF q
  <2>3. \A f, g \in Events : f # g => ToSet(handlers[f]) \cap ToSet(handlers[g]) = {}
    BY DEF BusInv, SubscriptionOrder
  <2>. QED  BY ZenonT(60), <2>1, <2>2, <2>3
<1>10. SubscriptionOrder'
  BY <1>3, <1>6, <1>7, <1>9 DEF BusInv, SubscriptionOrder
<1>11. DepthExact'
  BY <1>1, <1>3, <1>7 DEF BusInv, DepthExact, TypeOK
<1>. QED  BY <1>2, <1>7, <1>8, <1>10, <1>11 DEF BusInv, q

(* The rest of a copy is in order.                                         *)
LEMMA TailIncreasing ==
  ASSUME NEW q \in Seq(Tokens), q # <<>>, Increasing(q)
  PROVE  Tail(q) \in Seq(Tokens) /\ Increasing(Tail(q)) /\ ToSet(Tail(q)) \subseteq ToSet(q)
         /\ Head(q) \in ToSet(q)
<1>1. /\ Tail(q) \in Seq(Tokens) /\ Len(Tail(q)) = Len(q) - 1 /\ Len(q) \in Nat \ {0}
      /\ \A i \in 1..Len(Tail(q)) : Tail(q)[i] = q[i + 1]
  BY HeadTailProperties, EmptySeq
<1>2. DOMAIN q = 1..Len(q) /\ DOMAIN Tail(q) = 1..(Len(q) - 1)
  BY <1>1, LenProperties
<1>3. \A i \in 1..(Len(q) - 1) : i + 1 \in 1..Len(q) /\ Tail(q)[i] = q[i + 1]
  BY <1>1
<1>4. \A i, j \in 1..(Len(q) - 1) : i < j => i + 1 < j + 1
  BY <1>1
<1>5. Increasing(Tail(q)) /\ ToSet(Tail(q)) \subseteq ToSet(q)
  BY <1>2, <1>3, <1>4 DEF Increasing, ToSet
<1>6. Head(q) = q[1] /\ 1 \in DOMAIN q
  BY <1>1, <1>2
<1>. QED  BY <1>1, <1>5, <1>6 DEF ToSet

(* So no stretch of emitEvent() disturbs the order.                        *)
LEMMA CallsIncreasing ==
  ASSUME BusInv, UNCHANGED <<handlers, nextToken>>,
         CallsKept \/ HandlerCalled \/ CallBegun \/ CallEnded
  PROVE  BusInv'
<1>1. /\ stack \in Seq(Frame) /\ Len(stack) \in Nat /\ DOMAIN stack = 1..Len(stack)
      /\ depth = Len(stack) /\ depth <= KMaxRecurse /\ KMaxRecurse \in Nat
      /\ \A i \in 1..Len(stack) : Increasing(stack[i].todo) /\ stack[i].todo \in Seq(Tokens)
  BY LenProperties, ElementOfSeq, FrameFields, BusAssumption
     DEF BusInv, DepthExact, SubscriptionOrder, TypeOK
<1>2. stack' \in Seq(Frame) /\ DOMAIN stack' = 1..Len(stack')
  BY LenProperties DEF CallsKept, HandlerCalled, CallBegun, CallEnded
<1>3. depth' = Len(stack') /\ depth' \in Nat /\ depth' <= KMaxRecurse
  <2>1. \/ depth' = depth /\ Len(stack') = Len(stack)
        \/ depth' = depth + 1 /\ Len(stack') = Len(stack) + 1 /\ depth < KMaxRecurse
        \/ depth' = depth - 1 /\ Len(stack') = Len(stack) - 1 /\ Len(stack) > 0
    BY DEF CallsKept, HandlerCalled, CallBegun, CallEnded
  <2>2. depth \in Nat /\ KMaxRecurse \in Nat /\ depth = Len(stack) /\ depth <= KMaxRecurse
    BY <1>1
  <2>3. depth' = Len(stack')
    BY <2>1, <2>2
  <2>4. \/ depth' = depth
        \/ depth' = depth + 1 /\ depth < KMaxRecurse
        \/ depth' = depth - 1 /\ depth > 0
    BY <2>1, <2>2
  <2>5. depth' \in Nat /\ depth' <= KMaxRecurse
    BY <2>2, <2>4
  <2>. QED  BY <2>3, <2>5
<1>4. \A i \in 1..Len(stack') : Increasing(stack'[i].todo)
  <2>1. CASE CallsKept
    BY <1>1, <2>1 DEF CallsKept
  <2>2. CASE HandlerCalled
    <3>1. 1 \in 1..Len(stack) /\ \A i \in 1..Len(stack) : i = 1 \/ i \in 2..Len(stack)
      BY <1>1, <2>2 DEF HandlerCalled
    <3>2. Increasing(stack'[1].todo)
      BY <1>1, <2>2, <3>1, TailIncreasing DEF HandlerCalled
    <3>. QED  BY <1>1, <2>2, <3>1, <3>2 DEF HandlerCalled
  <2>3. CASE CallBegun
    <3>1. Increasing(stack'[1].todo)
      BY <2>3 DEF CallBegun, BusInv, SubscriptionOrder
    <3>2. \A i \in 1..(Len(stack) + 1) : i = 1 \/ (i - 1 \in 1..Len(stack) /\ (i - 1) + 1 = i)
      BY <1>1
    <3>. QED  BY <1>1, <2>3, <3>1, <3>2 DEF CallBegun
  <2>4. CASE CallEnded
    <3>1. \A i \in 1..(Len(stack) - 1) : i + 1 \in 1..Len(stack)
      BY <1>1
    <3>. QED  BY <1>1, <2>4, <3>1 DEF CallEnded
  <2>. QED  BY <2>1, <2>2, <2>3, <2>4
<1>. QED  BY <1>2, <1>3, <1>4 DEF BusInv, DepthExact, SubscriptionOrder, TypeOK

(* Nor does any step of scopes and handlers.                               *)
LEMMA BusStep ==
  ASSUME DispatchInv, [DispatchNext]_allVars
  PROVE  BusInv'
<1>1. CASE Dispatch
  <2>1. TypeOK /\ BusInv
    BY DEF DispatchInv, BusInv, DepthExact
  <2>2. \/ CallsKept \/ HandlerCalled \/ CallBegun \/ CallEnded
        \/ UNCHANGED <<stack, depth>>
    BY <2>1, StepShapes
  <2>3. UNCHANGED <<handlers, nextToken>>
    BY <1>1 DEF Dispatch, Emit, EmitNothing, Nobody, CallHandler, HandlerReturns, HandlerThrows, EmitReturns
  <2>4. CASE UNCHANGED <<stack, depth>>
    BY <2>1, <2>3, <2>4 DEF BusInv, DepthExact, SubscriptionOrder, TypeOK
  <2>. QED  BY <2>1, <2>2, <2>3, <2>4, CallsIncreasing
<1>2. ASSUME NEW o \in Owners, NEW e \in Events, OnIn(o, e) PROVE BusInv'
  BY <1>2, OnKeepsBus DEF OnIn, DispatchInv
<1>3. ASSUME NEW t \in Tokens, HostReleases(t) PROVE BusInv'
  <2>1. Ordered(handlers') /\ \A e \in Events : ToSet(handlers'[e]) = ToSet(handlers[e]) \ {t}
    BY <1>3, BusOrdered, OffOrdered DEF HostReleases, Release, DispatchInv
  <2>2. UNCHANGED <<nextToken, depth, stack>>
    BY <1>3 DEF HostReleases, Release
  <2>. QED  BY <2>1, <2>2, FewerHandlers DEF DispatchInv, Ordered
<1>4. ASSUME NEW s \in Scopes, Dies(s) PROVE BusInv'
  <2>1. IsFiniteSet(conns[s])
    BY HoldsFinite DEF Owners
  <2>2. Ordered(handlers') /\ \A e \in Events : ToSet(handlers'[e]) = ToSet(handlers[e]) \ conns[s]
    BY <1>4, <2>1, BusOrdered, DisconnectedOrdered DEF Dies, DispatchInv
  <2>3. UNCHANGED <<nextToken, depth, stack>>
    BY <1>4 DEF Dies
  <2>. QED  BY <2>2, <2>3, FewerHandlers DEF DispatchInv, Ordered
<1>5. CASE UNCHANGED vars
  BY <1>5 DEF vars, DispatchInv, BusInv, DepthExact, SubscriptionOrder, TypeOK
<1>. QED  BY <1>1, <1>2, <1>3, <1>4, <1>5 DEF DispatchNext, Born, allVars

-----------------------------------------------------------------------------
(* What a call in progress still holds: handlers it has to call and the    *)
(* one it is calling.                                                      *)
Held(f) == ToSet(f.todo) \cup ({f.token} \ {0})

HeldKnown == \A i \in 1..Len(stack) : Held(stack[i]) \subseteq Subscribed \cup gone[i]

(* What the invariant says of the two stacks.                              *)
LEMMA OwnTyped ==
  ASSUME DispatchInv
  PROVE  /\ stack \in Seq(Frame) /\ Len(stack) \in Nat /\ DOMAIN stack = 1..Len(stack)
         /\ gone \in Seq(SUBSET Tokens) /\ DOMAIN gone = 1..Len(stack) /\ Len(gone) = Len(stack)
         /\ HeldKnown
<1>1. stack \in Seq(Frame) /\ gone \in Seq(SUBSET Tokens) /\ Len(gone) = Len(stack)
  BY DEF DispatchInv, BusInv, DepthExact, TypeOK, OwnInv
<1>2. DOMAIN stack = 1..Len(stack) /\ Len(stack) \in Nat /\ DOMAIN gone = 1..Len(stack)
  BY <1>1, LenProperties
<1>. QED  BY <1>1, <1>2 DEF DispatchInv, OwnInv, SubscriptionsOwned, HeldKnown, Held

(* Subscriptions that go while calls are in progress are entered for each  *)
(* of them.                                                                *)
LEMMA GoneEntered ==
  ASSUME DispatchInv, NEW D \in SUBSET Tokens, stack' = stack,
         Subscribed' = Subscribed \ D, gone' = [i \in DOMAIN gone |-> gone[i] \cup D]
  PROVE  gone' \in Seq(SUBSET Tokens) /\ Len(gone') = Len(stack') /\ HeldKnown'
<1>1. /\ Len(stack) \in Nat /\ DOMAIN gone = 1..Len(stack) /\ gone \in [1..Len(stack) -> SUBSET Tokens]
      /\ HeldKnown
  BY OwnTyped, LenProperties
<1>2. gone' \in [1..Len(stack) -> SUBSET Tokens]
  BY <1>1
<1>3. gone' \in Seq(SUBSET Tokens) /\ Len(gone') = Len(stack)
  BY <1>1, <1>2, SeqDef
<1>4. \A i \in 1..Len(stack) : gone'[i] = gone[i] \cup D
  BY <1>1
<1>5. HeldKnown'
  BY <1>1, <1>4 DEF HeldKnown
<1>. QED  BY <1>3, <1>5

(* The entries of the calls follow them through Dispatch.                  *)
LEMMA GoneFollows ==
  ASSUME DispatchInv, Dispatch
  PROVE  /\ gone' \in Seq(SUBSET Tokens) /\ Len(gone') = Len(stack')
         /\ Len(stack') = Len(stack) => gone' = gone
         /\ Len(stack') = Len(stack) + 1 => \A i \in 1..Len(stack) : gone'[i + 1] = gone[i]
         /\ Len(stack') = Len(stack) - 1 => \A i \in 1..(Len(stack) - 1) : gone'[i] = gone[i + 1]
<1>. DEFINE n == Len(stack)
            m == Len(stack')
            head == IF m > n THEN <<{}>> ELSE <<>>
            from == 1 + n - Min({n, m})
            rest == SubSeq(gone, from, n)
<1>1. n \in Nat /\ gone \in Seq(SUBSET Tokens) /\ Len(gone) = n
  BY OwnTyped
<1>2. m = n \/ m = n + 1 \/ (m = n - 1 /\ n > 0)
  <2>1. TypeOK
    BY DEF DispatchInv, BusInv, DepthExact
  <2>2. CallsKept \/ HandlerCalled \/ CallBegun \/ CallEnded \/ UNCHANGED stack
    BY <2>1, StepShapes DEF DispatchNext
  <2>. QED  BY <2>2 DEF CallsKept, HandlerCalled, CallBegun, CallEnded
<1>3. gone' = head \o rest
  BY DEF Dispatch
<1>. HIDE DEF m, n
<1>4. Min({n, m}) = IF m = n - 1 THEN n - 1 ELSE n
  <2>1. m \in Nat
    BY <1>1, <1>2
  <2>2. \A k \in {n, m} : (\A j \in {n, m} : k <= j) <=> k = IF m = n - 1 THEN n - 1 ELSE n
    BY <1>1, <1>2, <2>1
  <2>3. (IF m = n - 1 THEN n - 1 ELSE n) \in {n, m}
    BY <1>2
  <2>. QED  BY <2>2, <2>3 DEF Min
<1>5. CASE m = n
  <2>1. from = 1 /\ head = <<>>
    BY <1>1, <1>4, <1>5
  <2>2. rest = gone
    BY <1>1, <2>1, SubSeqFull
  <2>3. gone' = gone
    BY <1>1, <1>3, <2>1, <2>2, ConcatEmptySeq
  <2>. QED  BY <1>1, <1>5, <2>3 DEF m, n
<1>6. CASE m = n + 1
  <2>1. from = 1 /\ head = <<{}>>
    BY <1>1, <1>4, <1>6
  <2>2. rest = gone
    BY <1>1, <2>1, SubSeqFull
  <2>3. gone' = <<{}>> \o gone
    BY <1>3, <2>1, <2>2
  <2>4. <<{}>> \in Seq(SUBSET Tokens) /\ Len(<<{}>>) = 1
    OBVIOUS
  <2>5. /\ gone' \in Seq(SUBSET Tokens) /\ Len(gone') = 1 + n
        /\ \A i \in 1..(1 + n) : gone'[i] = IF i <= 1 THEN <<{}>>[i] ELSE gone[i - 1]
    BY <1>1, <2>3, <2>4, ConcatProperties
  <2>6. \A i \in 1..n : i + 1 \in 1..(1 + n) /\ ~(i + 1 <= 1) /\ (i + 1) - 1 = i
    BY <1>1
  <2>7. \A i \in 1..n : gone'[i + 1] = gone[i]
    BY <2>5, <2>6
  <2>8. m # n /\ m # n - 1 /\ Len(gone') = m
    BY <1>1, <1>6, <2>5
  <2>. QED  BY <2>5, <2>7, <2>8 DEF m, n
<1>7. CASE m = n - 1 /\ n > 0
  <2>1. from = 2 /\ head = <<>>
    BY <1>1, <1>4, <1>7
  <2>2. \A i \in 2..n : gone[i] \in SUBSET Tokens
    <3>1. \A i \in 2..n : i \in 1..Len(gone)
      BY <1>1
    <3>. QED  BY <1>1, <3>1, ElementOfSeq
  <2>3. n - 1 = IF 2 <= n THEN n - 2 + 1 ELSE 0
    <3>1. \A k \in Nat : k > 0 => k - 1 = IF 2 <= k THEN k - 2 + 1 ELSE 0
      OBVIOUS
    <3>. QED  BY <1>1, <1>7, <3>1
  <2>4. \A i \in 1..(n - 1) : i \in 1..(n - 2 + 1) /\ 2 + i - 1 = i + 1
    BY <1>1
  <2>5. /\ rest \in Seq(SUBSET Tokens) /\ Len(rest) = IF 2 <= n THEN n - 2 + 1 ELSE 0
        /\ \A i \in 1..(n - 2 + 1) : rest[i] = gone[2 + i - 1]
    <3>1. ASSUME NEW k, k = 2 PROVE SubSeq(gone, k, n) = SubSeq(gone, 2, n)
      BY <3>1
    <3>2. rest = SubSeq(gone, 2, n)
      BY <2>1, <3>1
    <3>3. 2 \in Int /\ n \in Int
      BY <1>1
    <3>. HIDE DEF rest
    <3>. QED  BY <2>2, <3>2, <3>3, SubSeqProperties
  <2>6. gone' = rest
    BY <1>3, <2>1, <2>5, ConcatEmptySeq
  <2>. HIDE DEF rest
  <2>7. \A i \in 1..(n - 1) : gone'[i] = gone[i + 1]
    BY <2>4, <2>5, <2>6
  <2>8. m # n /\ m # n + 1 /\ Len(gone') = m /\ gone' \in Seq(SUBSET Tokens)
    BY <1>1, <1>7, <2>3, <2>5, <2>6
  <2>. QED  BY <2>7, <2>8 DEF m, n
<1>. QED  BY <1>2, <1>5, <1>6, <1>7

(* The calls hold only what was subscribed when they began ...             *)
LEMMA HeldFollows ==
  ASSUME DispatchInv, Dispatch
  PROVE  HeldKnown'
<1>1. /\ stack \in Seq(Frame) /\ Len(stack) \in Nat /\ HeldKnown
      /\ \A i \in 1..Len(stack) : stack[i].todo \in Seq(Tokens)
  BY OwnTyped, ElementOfSeq, FrameFields
<1>2. UNCHANGED <<handlers, nextToken>> /\ Subscribed' = Subscribed
  BY DEF Dispatch, Emit, EmitNothing, Nobody, CallHandler, HandlerReturns, HandlerThrows, EmitReturns,
         Subscribed
<1>3. TypeOK /\ SubscriptionOrder
  BY DEF DispatchInv, BusInv, DepthExact
<1>4. \/ CallsKept \/ HandlerCalled \/ CallBegun \/ CallEnded \/ UNCHANGED <<stack, depth>>
  BY <1>3, StepShapes DEF DispatchNext
<1>5. CASE UNCHANGED <<stack, depth>>
  BY <1>1, <1>2, <1>5, GoneFollows DEF HeldKnown
<1>6. CASE CallsKept
  <2>1. gone' = gone /\ Len(stack') = Len(stack)
    BY <1>6, GoneFollows DEF CallsKept
  <2>2. \A i \in 1..Len(stack) : Held(stack'[i]) \subseteq Held(stack[i])
    BY <1>6 DEF CallsKept, Held
  <2>. QED  BY <1>1, <1>2, <2>1, <2>2 DEF HeldKnown
<1>7. CASE HandlerCalled
  <2>1. gone' = gone /\ Len(stack') = Len(stack)
    BY <1>7, GoneFollows DEF HandlerCalled
  <2>2. 1 \in 1..Len(stack) /\ \A i \in 1..Len(stack) : i = 1 \/ i \in 2..Len(stack)
    BY <1>1, <1>7 DEF HandlerCalled
  <2>3. Increasing(stack[1].todo)
    BY <1>3, <2>2, OwnTyped DEF SubscriptionOrder
  <2>4. Held(stack'[1]) \subseteq Held(stack[1])
    BY <1>1, <1>7, <2>2, <2>3, TailIncreasing DEF HandlerCalled, Held
  <2>5. \A i \in 1..Len(stack) : Held(stack'[i]) \subseteq Held(stack[i])
    BY <1>7, <2>2, <2>4 DEF HandlerCalled
  <2>. QED  BY <1>1, <1>2, <2>1, <2>5 DEF HeldKnown
<1>8. CASE CallBegun
  <2>1. Len(stack') = Len(stack) + 1 /\ \A i \in 1..Len(stack) : gone'[i + 1] = gone[i]
    BY <1>8, GoneFollows DEF CallBegun
  <2>2. Held(stack'[1]) \subseteq Subscribed
    BY <1>8 DEF CallBegun, Held, Subscribed
  <2>3. \A i \in 1..Len(stack) : Held(stack'[i + 1]) = Held(stack[i])
    BY <1>8 DEF CallBegun, Held
  <2>4. \A i \in 1..(Len(stack) + 1) : i = 1 \/ (i - 1 \in 1..Len(stack) /\ (i - 1) + 1 = i)
    BY <1>1
  <2>5. ASSUME NEW i \in 1..(Len(stack) + 1) PROVE Held(stack'[i]) \subseteq Subscribed \cup gone'[i]
    <3>1. CASE i = 1
      BY <2>2, <3>1
    <3>2. CASE i # 1
      <4>1. i - 1 \in 1..Len(stack) /\ (i - 1) + 1 = i
        BY <2>4, <3>2
      <4>2. Held(stack'[i]) = Held(stack[i - 1]) /\ gone'[i] = gone[i - 1]
        BY <2>1, <2>3, <4>1
      <4>. QED  BY <1>1, <4>1, <4>2 DEF HeldKnown
    <3>. QED  BY <3>1, <3>2
  <2>. QED  BY <1>2, <2>1, <2>5 DEF HeldKnown
<1>9. CASE CallEnded
  <2>1. Len(stack') = Len(stack) - 1 /\ \A i \in 1..(Len(stack) - 1) : gone'[i] = gone[i + 1]
    BY <1>9, GoneFollows DEF CallEnded
  <2>2. \A i \in 1..(Len(stack) - 1) : i + 1 \in 1..Len(stack)
    BY <1>1
  <2>. QED  BY <1>1, <1>2, <1>9, <2>1, <2>2 DEF CallEnded, HeldKnown
<1>. QED  BY <1>4, <1>5, <1>6, <1>7, <1>8, <1>9

(* Taking the tokens of one owner away leaves those of the others.         *)
LEMMA OthersStay ==
  ASSUME DispatchInv, NEW o \in Owners, NEW D \in SUBSET conns[o],
         conns' = [conns EXCEPT ![o] = conns[o] \ D], Subscribed' = Subscribed \ D
  PROVE  /\ conns' \in [Owners -> SUBSET Tokens]
         /\ \A p, q \in Owners : p # q => conns'[p] \cap conns'[q] = {}
         /\ Subscribed' = UNION {conns'[p] : p \in Owners}
<1>1. /\ conns \in [Owners -> SUBSET Tokens]
      /\ \A p, q \in Owners : p # q => conns[p] \cap conns[q] = {}
      /\ Subscribed = UNION {conns[p] : p \in Owners}
  BY DEF DispatchInv, OwnInv, SubscriptionsOwned
<1>2. \A p \in Owners : conns'[p] = conns[p] \ D
  <2>1. \A p \in Owners : p # o => conns[p] \cap D = {}
    BY <1>1
  <2>. QED  BY <1>1, <2>1
<1>3. conns' \in [Owners -> SUBSET Tokens]
  BY <1>1
<1>4. \A p, q \in Owners : p # q => conns'[p] \cap conns'[q] = {}
  BY <1>1, <1>2
<1>5. Subscribed' = UNION {conns'[p] : p \in Owners}
  <2>1. {conns'[p] : p \in Owners} = {conns[p] \ D : p \in Owners}
    BY <1>2
  <2>2. UNION {conns[p] \ D : p \in Owners} = (UNION {conns[p] : p \in Owners}) \ D
    OBVIOUS
  <2>. QED  BY <1>1, <2>1, <2>2
<1>. QED  BY <1>3, <1>4, <1>5

(* ... and what is subscribed belongs to one owner, in every step.         *)
LEMMA OwnStep ==
  ASSUME DispatchInv, [DispatchNext]_allVars, BusInv'
  PROVE  OwnInv'
<1>. DEFINE Kinds == {"unborn", "live", "dead"}
<1>1. /\ life \in [Scopes -> Kinds] /\ conns \in [Owners -> SUBSET Tokens]
      /\ \A o, p \in Owners : o # p => conns[o] \cap conns[p] = {}
      /\ Subscribed = UNION {conns[o] : o \in Owners}
      /\ \A o \in Owners : ~Lives(o) => conns[o] = {}
  BY DEF DispatchInv, OwnInv, SubscriptionsOwned
<1>2. Host \in Owners /\ Scopes \subseteq Owners /\ \A s \in Scopes : s # Host
  BY ScopeAssumption DEF Owners
<1>3. ASSUME gone' \in Seq(SUBSET Tokens), Len(gone') = Len(stack'), HeldKnown',
             life' \in [Scopes -> Kinds], conns' \in [Owners -> SUBSET Tokens],
             \A o, p \in Owners : o # p => conns'[o] \cap conns'[p] = {},
             Subscribed' = UNION {conns'[o] : o \in Owners},
             \A o \in Owners : ~Lives(o)' => conns'[o] = {}
      PROVE  OwnInv'
  <2>1. DOMAIN stack' = 1..Len(stack')
    BY LenProperties DEF BusInv, DepthExact, TypeOK
  <2>. QED  BY <1>3, <2>1 DEF OwnInv, SubscriptionsOwned, HeldKnown, Held
<1>4. ASSUME UNCHANGED <<handlers, stack, gone>>
      PROVE  gone' \in Seq(SUBSET Tokens) /\ Len(gone') = Len(stack') /\ HeldKnown'
             /\ Subscribed' = Subscribed
  BY <1>4, OwnTyped DEF HeldKnown, Subscribed
<1>5. CASE UNCHANGED allVars
  <2>1. UNCHANGED <<handlers, stack, gone, life, conns>>
    BY <1>5 DEF allVars, vars, scopeVars
  <2>. QED  BY <1>1, <1>3, <1>4, <2>1 DEF Lives
<1>6. ASSUME NEW s \in Scopes, Born(s) PROVE OwnInv'
  <2>1. UNCHANGED <<handlers, stack, gone, conns>> /\ life' = [life EXCEPT ![s] = "live"]
    BY <1>6 DEF Born, vars
  <2>2. life' \in [Scopes -> Kinds] /\ \A o \in Owners : Lives(o) => Lives(o)'
    BY <1>1, <2>1 DEF Lives, Owners
  <2>. QED  BY <1>1, <1>3, <1>4, <2>1, <2>2
<1>7. ASSUME NEW o \in Owners, NEW e \in Events, OnIn(o, e) PROVE OwnInv'
  <2>1. /\ On(e) /\ Lives(o) /\ conns' = [conns EXCEPT ![o] = conns[o] \cup {nextToken}]
        /\ UNCHANGED <<life, gone, stack>> /\ nextToken \in Tokens
    BY <1>7 DEF OnIn, On
  <2>2. /\ ToSet(handlers'[e]) = ToSet(handlers[e]) \cup {nextToken}
        /\ \A f \in Events : f # e => handlers'[f] = handlers[f]
    BY <2>1, OnKeepsBus DEF DispatchInv
  <2>3. Subscribed' = Subscribed \cup {nextToken}
    BY <2>2 DEF Subscribed
  <2>4. nextToken \notin Subscribed
    BY <2>1, SubscribedBelow, BusAssumption DEF DispatchInv
  <2>5. \A p \in Owners : conns'[p] = IF p = o THEN conns[p] \cup {nextToken} ELSE conns[p]
    BY <1>1, <2>1
  <2>6. \A p \in Owners : nextToken \notin conns[p]
    BY <1>1, <2>4
  <2>7. conns' \in [Owners -> SUBSET Tokens]
    BY <1>1, <2>1
  <2>8. ASSUME NEW p \in Owners, NEW q \in Owners, p # q PROVE conns'[p] \cap conns'[q] = {}
    <3>1. conns[p] \cap conns[q] = {} /\ nextToken \notin conns[p] /\ nextToken \notin conns[q]
      BY <1>1, <2>6, <2>8
    <3>2. p # o => conns'[p] = conns[p]
      BY <2>5
    <3>3. q # o => conns'[q] = conns[q]
      BY <2>5
    <3>4. conns'[o] = conns[o] \cup {nextToken}
      BY <2>5
    <3>5. CASE p = o
      BY <2>8, <3>1, <3>3, <3>4, <3>5
    <3>6. CASE q = o
      BY <2>8, <3>1, <3>2, <3>4, <3>6
    <3>7. CASE p # o /\ q # o
      BY <3>1, <3>2, <3>3, <3>7
    <3>. QED  BY <3>5, <3>6, <3>7
  <2>9. Subscribed' = UNION {conns'[p] : p \in Owners}
    <3>1. ASSUME NEW t PROVE t \in Subscribed' <=> \E p \in Owners : t \in conns'[p]
      <4>1. t \in Subscribed <=> \E p \in Owners : t \in conns[p]
        BY <1>1
      <4>2. \A p \in Owners : t \in conns'[p] <=> (t \in conns[p] \/ (p = o /\ t = nextToken))
        BY <2>5
      <4>. QED  BY <2>3, <4>1, <4>2
    <3>2. ASSUME NEW t PROVE t \in UNION {conns'[p] : p \in Owners} <=> \E p \in Owners : t \in conns'[p]
      OBVIOUS
    <3>. HIDE DEF Subscribed
    <3>. QED  BY <3>1, <3>2
  <2>10. \A p \in Owners : ~Lives(p)' => conns'[p] = {}
    BY <1>1, <2>1, <2>5 DEF Lives
  <2>11. HeldKnown' /\ gone' \in Seq(SUBSET Tokens) /\ Len(gone') = Len(stack')
    BY <2>1, <2>3, OwnTyped DEF HeldKnown
  <2>. QED  BY <1>1, <1>3, <2>1, <2>7, <2>8, <2>9, <2>10, <2>11
<1>8. ASSUME NEW t \in Tokens, HostReleases(t) PROVE OwnInv'
  <2>1. /\ t \in conns[Host] /\ handlers' = Off(handlers, t) /\ stack' = stack
        /\ conns' = [conns EXCEPT ![Host] = conns[Host] \ {t}]
        /\ gone' = [i \in DOMAIN gone |-> gone[i] \cup {t}] /\ life' = life
    BY <1>8 DEF HostReleases, Release
  <2>2. Subscribed' = Subscribed \ {t}
    <3>1. \A e \in Events : ToSet(handlers'[e]) = ToSet(handlers[e]) \ {t}
      BY <2>1, BusOrdered, OffOrdered DEF DispatchInv
    <3>. QED  BY <3>1 DEF Subscribed
  <2>3. gone' \in Seq(SUBSET Tokens) /\ Len(gone') = Len(stack') /\ HeldKnown'
    BY <2>1, <2>2, GoneEntered
  <2>4. /\ conns' \in [Owners -> SUBSET Tokens]
        /\ \A p, q \in Owners : p # q => conns'[p] \cap conns'[q] = {}
        /\ Subscribed' = UNION {conns'[p] : p \in Owners}
    BY <1>2, <2>1, <2>2, OthersStay
  <2>5. \A o \in Owners : ~Lives(o)' => conns'[o] = {}
    BY <1>1, <2>1 DEF Lives
  <2>. QED  BY <1>1, <1>3, <2>1, <2>3, <2>4, <2>5
<1>9. ASSUME NEW s \in Scopes, Dies(s) PROVE OwnInv'
  <2>. DEFINE D == conns[s]
  <2>1. /\ handlers' = Disconnected(s) /\ stack' = stack
        /\ conns' = [conns EXCEPT ![s] = {}]
        /\ gone' = [i \in DOMAIN gone |-> gone[i] \cup D]
        /\ life' = [life EXCEPT ![s] = "dead"]
    BY <1>9 DEF Dies
  <2>2. Subscribed' = Subscribed \ D
    <3>1. IsFiniteSet(conns[s])
      BY <1>2, HoldsFinite
    <3>2. \A e \in Events : ToSet(handlers'[e]) = ToSet(handlers[e]) \ D
      BY <2>1, <3>1, BusOrdered, DisconnectedOrdered DEF DispatchInv
    <3>. QED  BY <3>2 DEF Subscribed
  <2>3. D \in SUBSET Tokens
    BY <1>1, <1>2
  <2>4. gone' \in Seq(SUBSET Tokens) /\ Len(gone') = Len(stack') /\ HeldKnown'
    BY <2>1, <2>2, <2>3, GoneEntered
  <2>5. /\ conns' \in [Owners -> SUBSET Tokens]
        /\ \A p, q \in Owners : p # q => conns'[p] \cap conns'[q] = {}
        /\ Subscribed' = UNION {conns'[p] : p \in Owners}
    <3>1. conns' = [conns EXCEPT ![s] = conns[s] \ D] /\ D \in SUBSET conns[s]
      BY <2>1
    <3>. HIDE DEF D
    <3>. QED  BY <1>2, <2>2, <3>1, OthersStay
  <2>6. life' \in [Scopes -> Kinds]
    BY <1>1, <2>1
  <2>7. \A o \in Owners : ~Lives(o)' => conns'[o] = {}
    <3>1. conns'[s] = {} /\ \A o \in Owners : o # s => conns'[o] = conns[o]
      BY <1>1, <1>2, <2>1
    <3>2. \A o \in Owners : o # s /\ Lives(o) => Lives(o)'
      BY <1>1, <2>1 DEF Lives, Owners
    <3>. QED  BY <1>1, <3>1, <3>2
  <2>. QED  BY <1>3, <2>4, <2>5, <2>6, <2>7
<1>10. CASE Dispatch
  <2>1. UNCHANGED <<life, conns>> /\ Subscribed' = Subscribed
    BY <1>10 DEF Dispatch, Emit, EmitNothing, Nobody, CallHandler, HandlerReturns, HandlerThrows,
                 EmitReturns, Subscribed
  <2>2. HeldKnown' /\ gone' \in Seq(SUBSET Tokens) /\ Len(gone') = Len(stack')
    BY <1>10, HeldFollows, GoneFollows
  <2>. QED  BY <1>1, <1>3, <2>1, <2>2 DEF Lives
<1>. QED  BY <1>5, <1>6, <1>7, <1>8, <1>9, <1>10 DEF DispatchNext

(* Before anybody subscribes both hold ...                                 *)
LEMMA DispatchInitInv == DispatchInit => DispatchInv
<1>1. ASSUME DispatchInit PROVE DispatchInv
  <2>1. /\ \A e \in Events : handlers[e] = <<>> /\ ToSet(handlers[e]) = {}
        /\ handlers = [e \in Events |-> <<>>] /\ nextToken = 1 /\ depth = 0 /\ stack = <<>>
        /\ Len(stack) = 0 /\ DOMAIN stack = {}
    BY <1>1 DEF DispatchInit, Init, ToSet
  <2>2. BusInv
    BY <2>1, BusAssumption DEF BusInv, DepthExact, SubscriptionOrder, Increasing, TypeOK
  <2>3. Subscribed = {}
    BY <2>1 DEF Subscribed
  <2>4. \A o \in Owners : conns[o] = {}
    BY <1>1 DEF DispatchInit
  <2>5. OwnInv
    BY <1>1, <2>1, <2>3, <2>4 DEF DispatchInit, OwnInv, SubscriptionsOwned
  <2>. QED  BY <2>2, <2>5 DEF DispatchInv
<1>. QED  BY <1>1

(* ... so they always do.                                                  *)
LEMMA DispatchInvariant == DispatchSpec => []DispatchInv
<1>1. DispatchInv /\ [DispatchNext]_allVars => DispatchInv'
  BY BusStep, OwnStep DEF DispatchInv
<1>. QED  BY <1>1, DispatchInitInv, PTL DEF DispatchSpec

(* "Storm guard" (emitEvent(), the guard of EventBus.cpp): m_depth is the  *)
(* number of calls in progress and never exceeds the cap.                  *)
THEOREM DepthIsExact == DispatchSpec => []DepthExact
<1>1. DispatchInv => DepthExact
  BY DEF DispatchInv, BusInv
<1>. QED  BY <1>1, DispatchInvariant, PTL

(* "Handlers of one event fire in SUBSCRIPTION order": the tables and the  *)
(* copies of the calls in progress keep it, whatever is released meanwhile *)
(* (on(), off() and the copy in emitEvent()).                              *)
THEOREM HandlersInOrder == DispatchSpec => []SubscriptionOrder
<1>1. DispatchInv => SubscriptionOrder
  BY DEF DispatchInv, BusInv
<1>. QED  BY <1>1, DispatchInvariant, PTL

(* The connections of scopes and host are exactly the entries of the bus   *)
(* (~Context phase 3 and off()), and what a call holds of a released one   *)
(* was released while that call was running.                               *)
THEOREM HandlesMatchTables == DispatchSpec => []SubscriptionsOwned
<1>1. DispatchInv => SubscriptionsOwned
  BY DEF DispatchInv, OwnInv
<1>. QED  BY <1>1, DispatchInvariant, PTL

-----------------------------------------------------------------------------
(* No step passes over a handler that a call has still to make.            *)
StillToCall ==
  \A i \in DOMAIN stack : stack[i].todo # <<>> =>
    LET k == i + Len(stack') - Len(stack)
        next == Head(stack[i].todo) IN
    /\ k \in DOMAIN stack'
    /\ \/ stack'[k].todo = stack[i].todo
       \/ stack'[k].todo = Tail(stack[i].todo) /\ stack'[k].token = next

(* No step takes a handler out of a call's turn.                           *)
LEMMA StepCallsInTurn ==
  ASSUME DispatchInv, [DispatchNext]_allVars
  PROVE  StillToCall
<1>1. stack \in Seq(Frame) /\ Len(stack) \in Nat /\ DOMAIN stack = 1..Len(stack)
  BY OwnTyped
<1>2. TypeOK
  BY DEF DispatchInv, BusInv, DepthExact
<1>3. \/ CallsKept \/ HandlerCalled \/ CallBegun \/ CallEnded \/ UNCHANGED <<stack, depth>>
  BY <1>2, StepShapes
<1>4. SUFFICES ASSUME NEW i \in 1..Len(stack), stack[i].todo # <<>>
               PROVE  /\ i + Len(stack') - Len(stack) \in DOMAIN stack'
                      /\ \/ stack'[i + Len(stack') - Len(stack)].todo = stack[i].todo
                         \/ /\ stack'[i + Len(stack') - Len(stack)].todo = Tail(stack[i].todo)
                            /\ stack'[i + Len(stack') - Len(stack)].token = Head(stack[i].todo)
  BY <1>1 DEF StillToCall
<1>5. CASE UNCHANGED <<stack, depth>>
  BY <1>1, <1>5
<1>6. CASE CallsKept
  <2>1. i + Len(stack') - Len(stack) = i /\ DOMAIN stack' = 1..Len(stack)
    BY <1>1, <1>6, LenProperties DEF CallsKept
  <2>. QED  BY <1>6, <2>1 DEF CallsKept
<1>7. CASE HandlerCalled
  <2>1. i + Len(stack') - Len(stack) = i /\ DOMAIN stack' = 1..Len(stack)
    BY <1>1, <1>7, LenProperties DEF HandlerCalled
  <2>2. i = 1 \/ i \in 2..Len(stack)
    BY <1>1
  <2>. QED  BY <1>7, <2>1, <2>2 DEF HandlerCalled
<1>8. CASE CallBegun
  <2>1. /\ i + Len(stack') - Len(stack) = i + 1 /\ DOMAIN stack' = 1..(Len(stack) + 1)
        /\ i + 1 \in 1..(Len(stack) + 1)
    BY <1>1, <1>8, LenProperties DEF CallBegun
  <2>. QED  BY <1>8, <2>1 DEF CallBegun
<1>9. CASE CallEnded
  <2>1. i # 1
    BY <1>4, <1>9 DEF CallEnded
  <2>2. /\ i + Len(stack') - Len(stack) = i - 1 /\ DOMAIN stack' = 1..(Len(stack) - 1)
        /\ i - 1 \in 1..(Len(stack) - 1) /\ (i - 1) + 1 = i
    BY <1>1, <1>9, <2>1, LenProperties DEF CallEnded
  <2>3. stack'[i - 1] = stack[i]
    BY <1>9, <2>2 DEF CallEnded
  <2>. QED  BY <2>2, <2>3
<1>. QED  BY <1>3, <1>5, <1>6, <1>7, <1>8, <1>9

(* "One bad handler never breaks the rest of the fan-out" (the try of the  *)
(* loop in emitEvent()): every handler of the copy is called in its turn.  *)
THEOREM EveryHandlerInTurn == DispatchSpec => FanoutComplete
<1>1. DispatchInv /\ [DispatchNext]_allVars => [StillToCall]_vars
  BY StepCallsInTurn
<1>. QED  BY <1>1, DispatchInvariant, PTL DEF DispatchSpec, FanoutComplete, StillToCall

-----------------------------------------------------------------------------
MwSpec == MwInit /\ [][MwNext]_mwVars

(* The chain is a sequence of elements; with MiddlewareOrder this is       *)
(* inductive.                                                              *)
MwInv == chain \in Seq(Elements) /\ MiddlewareOrder

(* What run() and next() enter is at most one call, of a copy that is a    *)
(* sequence.                                                               *)
LEMMA EnterIsShort ==
  ASSUME NEW copy \in Seq(Elements), NEW i \in Nat
  PROVE  \/ Enter(copy, i) = <<>>
         \/ Enter(copy, i) = <<[copy |-> copy, at |-> i, nexts |-> 0]>>
BY DEF Enter

(* run() enters the chain with a step,                                     *)
LEMMA EntryIsStep ==
  ASSUME NEW copy \in Seq(Elements), NEW i \in Nat
  PROVE  [copy |-> copy, at |-> i, nexts |-> 0] \in Step
BY MiddlewareAssumption DEF Step

(* and next() raises its count.                                            *)
LEMMA CountedIsRecord ==
  ASSUME NEW f \in Step
  PROVE  [f EXCEPT !.nexts = @ + 1] = [copy |-> f.copy, at |-> f.at, nexts |-> f.nexts + 1]
<1>. DEFINE counted == [f EXCEPT !.nexts = @ + 1]
            record == [copy |-> f.copy, at |-> f.at, nexts |-> f.nexts + 1]
<1>1. f = [n \in {"copy", "at", "nexts"} |-> f[n]]
  BY DEF Step
<1>2. counted = [n \in {"copy", "at", "nexts"} |-> IF n = "nexts" THEN f.nexts + 1 ELSE f[n]]
  BY <1>1
<1>3. record = [n \in {"copy", "at", "nexts"} |-> IF n = "nexts" THEN f.nexts + 1 ELSE f[n]]
  OBVIOUS
<1>. QED  BY <1>2, <1>3

(* A call of the first element may be put above any calls in progress.     *)
LEMMA FirstElementOnTop ==
  ASSUME MwInv, NEW entry \in Step, entry.at = 1, calls' = <<entry>> \o calls
  PROVE  MiddlewareOrder'
<1>1. calls \in Seq(Step)
  BY DEF MwInv, MiddlewareOrder
<1>2. calls' \in Seq(Step) /\ Len(calls') = Len(calls) + 1
  BY <1>1
<1>3. calls'[1] = entry /\ \A i \in 2..Len(calls') : calls'[i] = calls[i - 1]
  BY <1>1, <1>2
<1>4. ASSUME NEW i \in DOMAIN calls', calls'[i].at > 1
      PROVE  /\ i < Len(calls')
             /\ calls'[i + 1].at + 1 = calls'[i].at /\ calls'[i + 1].copy = calls'[i].copy
             /\ calls'[i + 1].nexts > 0
  <2>1. i \in 2..Len(calls')
    BY <1>2, <1>3, <1>4
  <2>2. i - 1 \in DOMAIN calls /\ calls'[i] = calls[i - 1]
    BY <1>1, <1>2, <1>3, <2>1
  <2>3. i - 1 < Len(calls) /\ calls[(i - 1) + 1].at + 1 = calls[i - 1].at
        /\ calls[(i - 1) + 1].copy = calls[i - 1].copy /\ calls[(i - 1) + 1].nexts > 0
    BY <1>4, <2>2 DEF MwInv, MiddlewareOrder
  <2>4. i + 1 \in 2..Len(calls') /\ calls'[i + 1] = calls[i]
    BY <1>2, <1>3, <2>1, <2>3
  <2>. QED  BY <2>2, <2>3, <2>4, <2>1
<1>. QED  BY <1>2, <1>4 DEF MiddlewareOrder

(* Every call of run(), next() and middleware() keeps the copies in order. *)
THEOREM MwStep == MwInv /\ [MwNext]_mwVars => MwInv'
<1>. SUFFICES ASSUME MwInv, [MwNext]_mwVars PROVE MwInv'
  OBVIOUS
<1>. USE MiddlewareAssumption
<1>1. chain \in Seq(Elements) /\ calls \in Seq(Step)
  BY DEF MwInv, MiddlewareOrder
<1>2. ASSUME NEW e \in Elements, NEW prepend \in BOOLEAN, Install(e, prepend) PROVE MwInv'
  BY <1>1, <1>2 DEF Install, MwInv, MiddlewareOrder
<1>3. CASE Run
  <2>. DEFINE entry == [copy |-> chain, at |-> 1, nexts |-> 0]
  <2>1. ASSUME Enter(chain, 1) = <<>> PROVE MiddlewareOrder'
    <3>1. calls' = calls
      BY <1>1, <1>3, <2>1 DEF Run
    <3>. QED  BY <3>1 DEF MwInv, MiddlewareOrder
  <2>3. ASSUME Enter(chain, 1) = <<entry>> PROVE MiddlewareOrder'
    <3>1. calls' = <<entry>> \o calls /\ entry.at = 1
      BY <1>3, <2>3 DEF Run
    <3>2. entry \in Step
      BY <1>1, EntryIsStep
    <3>. QED  BY <3>1, <3>2, FirstElementOnTop
  <2>2. MiddlewareOrder'
    BY <1>1, <2>1, <2>3, EnterIsShort
  <2>. QED  BY <1>1, <1>3, <2>2 DEF Run, MwInv
<1>4. CASE CallNext
  <2>. DEFINE f == Head(calls)
              g == [copy |-> f.copy, at |-> f.at, nexts |-> f.nexts + 1]
              rest == <<g>> \o Tail(calls)
  <2>1. f = calls[1] /\ f \in Step /\ Tail(calls) \in Seq(Step) /\ Len(calls) >= 1
    BY <1>1, <1>4 DEF CallNext
  <2>2. f.copy \in Seq(Elements) /\ f.at \in Nat /\ f.nexts \in 0..MaxNext /\ f.nexts < MaxNext
    BY <1>4, <2>1 DEF Step, CallNext
  <2>3. g \in Step /\ g.at = f.at /\ g.copy = f.copy /\ g.nexts > 0
    BY <2>2 DEF Step
  <2>8. [f EXCEPT !.nexts = @ + 1] = g
    BY <2>1, CountedIsRecord
  <2>4. rest \in Seq(Step) /\ Len(rest) = Len(calls) /\ rest[1] = g
        /\ \A i \in 2..Len(calls) : rest[i] = calls[i]
    BY <1>1, <2>1, <2>3
  <2>5. ASSUME NEW i \in 1..Len(rest), rest[i].at > 1
        PROVE  /\ i < Len(rest) /\ rest[i + 1].at + 1 = rest[i].at
               /\ rest[i + 1].copy = rest[i].copy /\ rest[i + 1].nexts > 0
    <3>. HIDE DEF rest, g, f
    <3>1. calls[i].at > 1 /\ rest[i].at = calls[i].at /\ rest[i].copy = calls[i].copy
      <4>1. CASE i = 1
        BY <4>1, <2>5, <2>1, <2>3, <2>4
      <4>2. CASE i # 1
        BY <4>2, <2>5, <2>4
      <4>. QED  BY <4>1, <4>2
    <3>2. i < Len(calls) /\ calls[i + 1].at + 1 = calls[i].at
          /\ calls[i + 1].copy = calls[i].copy /\ calls[i + 1].nexts > 0
      BY <3>1, <2>4, <1>1 DEF MwInv, MiddlewareOrder
    <3>3. i + 1 \in 2..Len(calls) /\ rest[i + 1] = calls[i + 1]
      BY <3>2, <2>4
    <3>. QED  BY <3>1, <3>2, <3>3, <2>4
  <2>6. CASE Continue(f) = <<>>
    <3>1. calls' = <<>> \o rest /\ chain' = chain
      BY SMTT(40), <1>4, <2>6, <2>8 DEF CallNext
    <3>2. calls' = rest
      BY <3>1, <2>4
    <3>. HIDE DEF rest, g, f
    <3>. QED  BY <1>1, <3>1, <3>2, <2>4, <2>5 DEF MwInv, MiddlewareOrder
  <2>7. CASE Continue(f) = <<[copy |-> f.copy, at |-> f.at + 1, nexts |-> 0]>>
    <3>. DEFINE entry == [copy |-> f.copy, at |-> f.at + 1, nexts |-> 0]
    <3>1. entry \in Step
      BY <2>2, EntryIsStep
    <3>5. calls' = <<entry>> \o rest
      <4>. HIDE DEF g
      <4>1. calls' = Continue(f) \o <<[f EXCEPT !.nexts = @ + 1]>> \o Tail(calls)
        BY <1>4 DEF CallNext
      <4>2. calls' = <<entry>> \o <<g>> \o Tail(calls)
        BY <4>1, <2>7, <2>8
      <4>. QED  BY <4>2, <2>1, <2>3, <3>1
    <3>. HIDE DEF entry, rest, g, f
    <3>2. calls' \in Seq(Step) /\ Len(calls') = Len(rest) + 1 /\ calls'[1] = entry
          /\ \A i \in 2..Len(calls') : calls'[i] = rest[i - 1]
      BY <3>1, <3>5, <2>4
    <3>3. entry.at = g.at + 1 /\ entry.copy = g.copy
      BY <2>3 DEF entry
    <3>4. ASSUME NEW i \in DOMAIN calls', calls'[i].at > 1
          PROVE  /\ i < Len(calls') /\ calls'[i + 1].at + 1 = calls'[i].at
                 /\ calls'[i + 1].copy = calls'[i].copy /\ calls'[i + 1].nexts > 0
      <4>1. CASE i = 1
        <5>1. 2 \in 2..Len(calls') /\ calls'[2] = g
          BY <3>2, <2>1, <2>4
        <5>. QED  BY <4>1, <5>1, <3>2, <3>3, <2>3, <2>2
      <4>2. CASE i # 1
        <5>1. i - 1 \in 1..Len(rest) /\ calls'[i] = rest[i - 1]
          BY <4>2, <3>2, <2>4
        <5>2. i - 1 < Len(rest) /\ rest[(i - 1) + 1].at + 1 = rest[i - 1].at
              /\ rest[(i - 1) + 1].copy = rest[i - 1].copy /\ rest[(i - 1) + 1].nexts > 0
          BY <5>1, <3>4, <2>5
        <5>3. i + 1 \in 2..Len(calls') /\ calls'[i + 1] = rest[i]
          BY <5>1, <5>2, <3>2, <2>4
        <5>. QED  BY <5>1, <5>2, <5>3, <2>4, <3>2
      <4>. QED  BY <4>1, <4>2
    <3>. QED  BY <1>1, <1>4, <3>2, <3>4 DEF CallNext, MwInv, MiddlewareOrder
  <2>. QED  BY <2>2, <2>6, <2>7, EnterIsShort DEF Continue
<1>5. CASE ElementReturns
  <2>1. calls # <<>> /\ calls' = Tail(calls) /\ chain' = chain
    BY <1>5 DEF ElementReturns
  <2>2. calls' \in Seq(Step) /\ Len(calls') = Len(calls) - 1
        /\ \A i \in 1..Len(calls') : calls'[i] = calls[i + 1]
    BY <1>1, <2>1
  <2>3. ASSUME NEW i \in DOMAIN calls', calls'[i].at > 1
        PROVE  /\ i < Len(calls') /\ calls'[i + 1].at + 1 = calls'[i].at
               /\ calls'[i + 1].copy = calls'[i].copy /\ calls'[i + 1].nexts > 0
    <3>1. i + 1 \in DOMAIN calls /\ calls'[i] = calls[i + 1]
      BY <1>1, <2>2
    <3>2. i + 1 < Len(calls) /\ calls[(i + 1) + 1].at + 1 = calls[i + 1].at
          /\ calls[(i + 1) + 1].copy = calls[i + 1].copy /\ calls[(i + 1) + 1].nexts > 0
      BY <3>1, <2>3 DEF MwInv, MiddlewareOrder
    <3>3. i + 1 \in 1..Len(calls') /\ calls'[i + 1] = calls[(i + 1) + 1]
      BY <3>1, <3>2, <2>2, <1>1
    <3>. QED  BY <3>1, <3>2, <3>3, <2>2, <1>1
  <2>. QED  BY <1>1, <2>1, <2>2, <2>3 DEF MwInv, MiddlewareOrder
<1>6. CASE UNCHANGED mwVars
  BY <1>6 DEF mwVars, MwInv, MiddlewareOrder
<1>. QED  BY <1>2, <1>3, <1>4, <1>5, <1>6 DEF MwNext

(* An element runs only inside a next() of the one before it in the same   *)
(* copy.                                                                   *)
THEOREM ChainInOrder == MwSpec => []MiddlewareOrder
<1>1. MwInit => MwInv
  BY DEF MwInit, MwInv, MiddlewareOrder
<1>2. MwInv => MiddlewareOrder
  BY DEF MwInv
<1>. QED  BY <1>1, <1>2, MwStep, PTL DEF MwSpec

-----------------------------------------------------------------------------
PlaneSpec == PlaneInit /\ [][PlaneNext]_planeVars

(* Why a post() may leave the hook alone: m_pending says that blobs wait   *)
(* already.                                                                *)
ArmedExact ==
  /\ \A n \in Names : armed[n] <=> waiting[n] > 0
  /\ \A n \in Names \ known : waiting[n] = 0

PlaneInv == NoChannelForgotten /\ ArmedExact

(* What an invariant state offers, in the form the steps need.             *)
LEMMA PlaneTypes ==
  ASSUME PlaneInv
  PROVE  /\ known \subseteq Names /\ hooked \subseteq known
         /\ waiting \in [Names -> 0..Capacity] /\ armed \in [Names -> BOOLEAN]
         /\ due \in BOOLEAN /\ passes \in Seq(Pass) /\ cut \subseteq Names
         /\ \A i \in DOMAIN passes : passes[i].at \in Names /\ passes[i].at \in Nat
<1>1. PlaneType
  BY DEF PlaneInv, NoChannelForgotten
<1>2. \A i \in DOMAIN passes : passes[i] \in Pass
  BY <1>1 DEF PlaneType
<1>3. \A f \in Pass : f.at \in Names /\ f.at \in Nat
  BY DataPlaneAssumption DEF Pass
<1>. QED  BY <1>1, <1>2, <1>3 DEF PlaneType

(* Channels are numbered in the order of their names.                      *)
LEMMA KnownAreNumbers ==
  ASSUME PlaneInv
  PROVE  known \subseteq Nat /\ hooked \subseteq Nat
BY PlaneTypes, DataPlaneAssumption

(* A channel that has fired its hook, and has blobs while no drain is due, *)
(* is still ahead of a loop of pumpAll().                                  *)
LEMMA Awaited ==
  ASSUME PlaneInv, NEW n \in hooked, n \notin cut, waiting[n] > 0, ~due
  PROVE  \E i \in DOMAIN passes : passes[i].at < n
BY DEF PlaneInv, NoChannelForgotten

(* One pump(): the passes `rest` go on behind it. Whatever waited for a    *)
(* pass that is gone, or for the request that is taken, comes after n.     *)
LEMMA PumpKeeps ==
  ASSUME PlaneInv, NEW n \in known, NEW rest \in Seq(Pass), PumpChannel(n, rest), due' \in BOOLEAN,
         ASSUME NEW k \in hooked, k \notin cut, k # n, waiting[k] > 0, ~due'
         PROVE  n < k \/ \E i \in DOMAIN rest : rest[i].at < k
  PROVE  PlaneInv'
<1>. USE DataPlaneAssumption
<1>. DEFINE entry == [at |-> n, busy |-> waiting[n] > 0]
<1>1. /\ known' = known /\ hooked' = hooked /\ cut' = cut \ {n}
      /\ waiting' = [waiting EXCEPT ![n] = 0] /\ armed' = [armed EXCEPT ![n] = FALSE]
      /\ passes' = <<entry>> \o rest
  BY DEF PumpChannel, Pumped
<1>2. entry \in Pass
  BY PlaneTypes DEF Pass
<1>3. /\ passes' \in Seq(Pass) /\ Len(passes') = Len(rest) + 1 /\ passes'[1] = entry
      /\ \A i \in 1..Len(rest) : passes'[i + 1] = rest[i]
  BY <1>1, <1>2
<1>4. PlaneType'
  BY <1>1, <1>3, PlaneTypes DEF PlaneType
<1>5. ArmedExact'
  BY <1>1, PlaneTypes DEF PlaneInv, ArmedExact
<1>6. ASSUME NEW k \in hooked', k \notin cut', waiting'[k] > 0, ~due'
      PROVE  \E i \in DOMAIN passes' : passes'[i].at < k
  <2>1. k \in hooked /\ k # n /\ k \notin cut /\ waiting[k] > 0
    BY <1>1, <1>6, PlaneTypes
  <2>2. CASE n < k
    BY <1>3, <2>2
  <2>3. CASE \E i \in DOMAIN rest : rest[i].at < k
    <3>1. PICK i \in 1..Len(rest) : rest[i].at < k
      BY <2>3
    <3>2. i + 1 \in DOMAIN passes' /\ passes'[i + 1].at < k
      BY <1>3, <3>1
    <3>. QED  BY <3>2
  <2>. QED  BY <1>6, <2>1, <2>2, <2>3
<1>. QED  BY <1>4, <1>5, <1>6 DEF PlaneInv, NoChannelForgotten

(* A pass ends: nothing else changes than what a pass that threw has cut.  *)
LEMMA PopKeeps ==
  ASSUME PlaneInv, passes # <<>>, passes' = Tail(passes), cut' \subseteq Names, cut \subseteq cut',
         UNCHANGED <<known, hooked, waiting, armed, due>>,
         \A k \in known : k > Head(passes).at => k \in cut'
  PROVE  PlaneInv'
<1>. USE DataPlaneAssumption
<1>1. /\ passes' \in Seq(Pass) /\ Len(passes') = Len(passes) - 1 /\ passes[1] = Head(passes)
      /\ Len(passes) >= 1 /\ \A i \in 2..Len(passes) : passes'[i - 1] = passes[i]
  BY PlaneTypes
<1>2. PlaneType' /\ ArmedExact'
  BY <1>1, PlaneTypes DEF PlaneType, PlaneInv, ArmedExact
<1>3. ASSUME NEW k \in hooked', k \notin cut', waiting'[k] > 0, ~due'
      PROVE  \E i \in DOMAIN passes' : passes'[i].at < k
  <2>1. k \in hooked /\ k \notin cut /\ waiting[k] > 0 /\ ~due
    BY <1>3
  <2>2. PICK i \in DOMAIN passes : passes[i].at < k
    BY <2>1, Awaited
  <2>3. i # 1
    BY <1>1, <1>3, <2>1, <2>2, PlaneTypes
  <2>4. i \in 2..Len(passes)
    BY <2>2, <2>3, PlaneTypes
  <2>5. i - 1 \in DOMAIN passes' /\ passes'[i - 1].at < k
    BY <1>1, <2>2, <2>4
  <2>. QED  BY <2>5
<1>. QED  BY <1>2, <1>3 DEF PlaneInv, NoChannelForgotten

(* Every step of channels, posts and pumpAll() keeps that.                 *)
THEOREM PlaneStep == PlaneInv /\ [PlaneNext]_planeVars => PlaneInv'
<1>. SUFFICES ASSUME PlaneInv, [PlaneNext]_planeVars PROVE PlaneInv'
  OBVIOUS
<1>. USE DataPlaneAssumption
<1>1. ASSUME NEW n \in Names, Channel(n) PROVE PlaneInv'
  BY <1>1, PlaneTypes DEF Channel, PlaneInv, NoChannelForgotten, PlaneType, ArmedExact
<1>2. ASSUME NEW n \in Names, HookChannel(n) PROVE PlaneInv'
  BY <1>2, PlaneTypes DEF HookChannel, PlaneInv, NoChannelForgotten, PlaneType, ArmedExact
<1>3. ASSUME NEW n \in Names, PostTo(n) PROVE PlaneInv'
  <2>1. PlaneType'
    <3>1. \A k \in 0..Capacity : (IF k = Capacity THEN Capacity ELSE k + 1) \in 0..Capacity
      OBVIOUS
    <3>2. waiting' \in [Names -> 0..Capacity] /\ armed' \in [Names -> BOOLEAN]
      BY <1>3, <3>1, PlaneTypes DEF PostTo, PlaneType
    <3>3. due' \in BOOLEAN /\ UNCHANGED <<known, hooked, passes, cut>>
      BY <1>3, PlaneTypes DEF PostTo, PlaneType
    <3>. QED  BY <3>2, <3>3, PlaneTypes DEF PlaneType
  <2>2. waiting'[n] > 0 /\ armed'[n] /\ \A k \in Names \ {n} : waiting'[k] = waiting[k] /\ armed'[k] = armed[k]
    BY <1>3, PlaneTypes DEF PostTo
  <2>3. ArmedExact'
    BY <1>3, <2>1, <2>2 DEF PostTo, PlaneInv, ArmedExact, PlaneType
  <2>4. ASSUME NEW k \in hooked', k \notin cut', waiting'[k] > 0, ~due'
        PROVE  \E i \in DOMAIN passes' : passes'[i].at < k
    <3>1. k \in hooked /\ k \notin cut /\ ~due /\ passes' = passes /\ (k = n => armed[n])
      BY <1>3, <2>4 DEF PostTo
    <3>2. waiting[k] > 0
      BY <2>2, <2>4, <3>1, PlaneTypes DEF PlaneInv, ArmedExact
    <3>. QED  BY <3>1, <3>2, Awaited
  <2>. QED  BY <2>1, <2>3, <2>4 DEF PlaneInv, NoChannelForgotten
<1>4. CASE PumpAll
  <2>1. PICK n \in First : PumpChannel(n, passes)
    BY <1>4 DEF PumpAll
  <2>2. n \in known /\ \A k \in known : n <= k
    BY <2>1 DEF First
  <2>3. due' \in BOOLEAN
    BY <1>4, PlaneTypes DEF PumpAll
  <2>4. ASSUME NEW k \in hooked, k \notin cut, k # n, waiting[k] > 0, ~due'
        PROVE  n < k \/ \E i \in DOMAIN passes : passes[i].at < k
    <3>1. k \in known /\ n \in Nat /\ k \in Nat
      BY <2>2, PlaneTypes, KnownAreNumbers
    <3>. QED  BY <2>2, <2>4, <3>1
  <2>. QED  BY <2>1, <2>2, <2>3, <2>4, PlaneTypes, PumpKeeps
<1>5. CASE PumpFollowing
  <2>1. PICK n \in Following(Head(passes).at) : PumpChannel(n, Tail(passes))
    BY <1>5 DEF PumpFollowing
  <2>2. n \in known /\ \A k \in known : k > Head(passes).at => n <= k
    BY <2>1 DEF Following
  <2>3. /\ passes # <<>> /\ due' = due /\ due' \in BOOLEAN /\ Tail(passes) \in Seq(Pass)
        /\ Head(passes) = passes[1] /\ Len(passes) >= 1
        /\ \A i \in 2..Len(passes) : i - 1 \in DOMAIN Tail(passes) /\ Tail(passes)[i - 1] = passes[i]
    BY <1>5, PlaneTypes DEF PumpFollowing
  <2>4. ASSUME NEW k \in hooked, k \notin cut, k # n, waiting[k] > 0, ~due'
        PROVE  n < k \/ \E i \in DOMAIN Tail(passes) : Tail(passes)[i].at < k
    <3>1. PICK i \in DOMAIN passes : passes[i].at < k
      BY <2>3, <2>4, Awaited
    <3>2. CASE i = 1
      <4>1. k \in known /\ n \in Nat /\ k \in Nat /\ Head(passes).at \in Nat
        BY <2>2, <2>3, PlaneTypes, KnownAreNumbers
      <4>2. k > Head(passes).at
        BY <2>3, <3>1, <3>2, <4>1
      <4>. QED  BY <2>2, <2>4, <4>1, <4>2
    <3>3. CASE i # 1
      <4>1. i \in 2..Len(passes)
        BY <3>1, <3>3, PlaneTypes
      <4>. QED  BY <2>3, <3>1, <4>1
    <3>. QED  BY <3>2, <3>3
  <2>. QED  BY <2>1, <2>2, <2>3, <2>4, PumpKeeps
<1>6. CASE PassEnds
  <2>1. \A k \in known : ~(k > Head(passes).at)
    <3>1. passes # <<>> /\ \A k \in known : k <= Head(passes).at
      BY <1>6 DEF PassEnds
    <3>2. Head(passes) = passes[1] /\ Head(passes).at \in Nat
      BY <3>1, PlaneTypes
    <3>. QED  BY <3>1, <3>2, KnownAreNumbers
  <2>. QED  BY <1>6, <2>1, PopKeeps, PlaneTypes DEF PassEnds
<1>7. CASE SubscribersReturn
  <2>. DEFINE f == [Head(passes) EXCEPT !.busy = FALSE]
  <2>1. passes # <<>> /\ passes' = <<f>> \o Tail(passes) /\ Head(passes) = passes[1] /\ passes[1] \in Pass
        /\ UNCHANGED <<known, hooked, waiting, armed, due, cut>>
    BY <1>7, PlaneTypes DEF SubscribersReturn
  <2>2. f \in Pass /\ f.at = passes[1].at
    BY <2>1 DEF Pass
  <2>. HIDE DEF f
  <2>3. passes' \in Seq(Pass) /\ Len(passes') = Len(passes)
        /\ \A i \in DOMAIN passes : i \in DOMAIN passes' /\ passes'[i].at = passes[i].at
    BY <2>1, <2>2, PlaneTypes
  <2>. QED  BY <2>1, <2>3, PlaneTypes DEF PlaneInv, NoChannelForgotten, PlaneType, ArmedExact
<1>8. CASE SubscriberThrows
  <2>. DEFINE later == {k \in known : k > Head(passes).at}
  <2>1. passes # <<>> /\ passes' = Tail(passes) /\ cut' = cut \cup later
        /\ UNCHANGED <<known, hooked, waiting, armed, due>>
    BY <1>8 DEF SubscriberThrows
  <2>. QED  BY <2>1, PopKeeps, PlaneTypes
<1>9. CASE UNCHANGED planeVars
  BY <1>9 DEF planeVars, PlaneInv, NoChannelForgotten, PlaneType, ArmedExact
<1>. QED  BY <1>1, <1>2, <1>3, <1>4, <1>5, <1>6, <1>7, <1>8, <1>9 DEF PlaneNext

(* A blob that waits behind a hook is waited for, by a pumpAll() scheduled *)
(* or by one in progress, whatever is posted, made and pumped under the    *)
(* loop.                                                                   *)
THEOREM ChannelsRemembered == PlaneSpec => []NoChannelForgotten
<1>1. PlaneInit => PlaneInv
  <2>. SUFFICES ASSUME PlaneInit PROVE PlaneInv
    OBVIOUS
  <2>1. PlaneType
    <3>1. known \subseteq Names /\ hooked \subseteq known /\ cut \subseteq Names /\ due \in BOOLEAN
      BY DEF PlaneInit
    <3>2. waiting \in [Names -> 0..Capacity]
      BY DataPlaneAssumption DEF PlaneInit
    <3>3. armed \in [Names -> BOOLEAN] /\ passes = <<>>
      BY Zenon DEF PlaneInit
    <3>4. passes \in Seq(Pass)
      BY <3>3
    <3>. QED  BY <3>1, <3>2, <3>3, <3>4 DEF PlaneType
  <2>2. ArmedExact
    BY DataPlaneAssumption DEF PlaneInit, ArmedExact
  <2>. QED  BY <2>1, <2>2 DEF PlaneInit, PlaneInv, NoChannelForgotten
<1>2. PlaneInv => NoChannelForgotten
  BY DEF PlaneInv
<1>. QED  BY <1>1, <1>2, PlaneStep, PTL DEF PlaneSpec
=============================================================================
