------------------------------ MODULE EventBus ------------------------------
(***************************************************************************)
(* The synchronous event bus (EventBus.cpp) on the host thread. A handler  *)
(* runs inside emitEvent() and may subscribe, release connections and emit *)
(* again, also the event it handles; `stack` holds the emitEvent() calls   *)
(* in progress, innermost first, each with the handlers it copied and has  *)
(* still to call.                                                          *)
(*                                                                         *)
(* A subscription is known by its token; who holds its RAII handle, and    *)
(* who takes these steps in which order, is ScopeDispatch's matter.        *)
(***************************************************************************)
EXTENDS Naturals, SequencesExt

CONSTANTS
  Events,
  Tokens,         (* the tokens m_nextToken can take: 1..n                 *)
  Emits,          (* event -> events a handler of it may emit              *)
  Throws,         (* may handlers throw?                                   *)
  KMaxRecurse     (* the cap on nested emits                               *)

ASSUME BusAssumption ==
  /\ Tokens \subseteq Nat \ {0} /\ Emits \in [Events -> SUBSET Events]
  /\ Throws \in BOOLEAN /\ KMaxRecurse \in Nat

VARIABLES
  handlers,       (* m_handlers: the tokens subscribed to each event, in order *)
  nextToken,      (* m_nextToken                                               *)
  depth,          (* m_depth                                                   *)
  stack           (* emitEvent() calls in progress                             *)

vars == <<handlers, nextToken, depth, stack>>

(* `token` is the handler being called, 0 between two calls; `may` are the *)
(* events that handler has not emitted yet (a bound: once each).           *)
Frame == [event : Events, todo : Seq(Tokens), token : Tokens \cup {0}, may : SUBSET Events]

TypeOK ==
  /\ handlers \in [Events -> Seq(Tokens)]
  /\ nextToken \in Nat
  /\ depth \in Nat
  /\ stack \in Seq(Frame)

Init ==
  /\ handlers = [e \in Events |-> <<>>]
  /\ nextToken = 1 /\ depth = 0 /\ stack = <<>>

InClient == IF stack = <<>> THEN TRUE ELSE Head(stack).token # 0
Subscribed == UNION {ToSet(handlers[e]) : e \in Events}

On(e) ==
  /\ InClient /\ nextToken \in Tokens
  /\ handlers' = [handlers EXCEPT ![e] = Append(@, nextToken)]
  /\ nextToken' = nextToken + 1
  /\ UNCHANGED <<depth, stack>>

(* off(): the entry of the token leaves its vector, the others keep their  *)
(* places.                                                                 *)
Removed_Swap(q, t) ==
  IF t \notin ToSet(q) THEN q
  ELSE LET i == CHOOSE j \in DOMAIN q : q[j] = t IN Front([q EXCEPT ![i] = Last(q)])
Removed(q, t) == RemoveFirst(q, t)

Off(table, t) == [e \in Events |-> Removed(table[e], t)]

(* A handle is released once, by the host or by a handler.                 *)
Release(t) ==
  /\ InClient /\ t \in Subscribed
  /\ handlers' = Off(handlers, t)
  /\ UNCHANGED <<nextToken, depth, stack>>

(* The event may be emitted by the host, or by the running handler.        *)
MayEmit(e) == IF stack = <<>> THEN TRUE ELSE Head(stack).token # 0 /\ e \in Head(stack).may

Emitter(e) ==
  IF stack = <<>> THEN <<>>
  ELSE <<[Head(stack) EXCEPT !.may = @ \ {e}]>> \o Tail(stack)

(* emitEvent(): dropped at the cap; nothing to do when nobody has          *)
(* subscribed (the guard has taken the depth back); otherwise the handlers *)
(* are copied.                                                             *)
TooDeep_Later == depth > KMaxRecurse
TooDeep == depth >= KMaxRecurse

Nobody(e) == handlers[e] = <<>> /\ UNCHANGED depth

EmitNothing(e) ==
  /\ MayEmit(e)
  /\ \/ TooDeep /\ UNCHANGED depth
     \/ ~TooDeep /\ Nobody(e)
  /\ stack' = Emitter(e)
  /\ UNCHANGED <<handlers, nextToken>>

Emit(e) ==
  /\ MayEmit(e) /\ ~TooDeep /\ handlers[e] # <<>>
  /\ depth' = depth + 1
  /\ stack' = <<[event |-> e, todo |-> handlers[e], token |-> 0, may |-> {}]>> \o Emitter(e)
  /\ UNCHANGED <<handlers, nextToken>>

CallHandler ==
  /\ stack # <<>> /\ Head(stack).token = 0 /\ Head(stack).todo # <<>>
  /\ stack' = <<[Head(stack) EXCEPT !.token = Head(Head(stack).todo), !.todo = Tail(@),
                                    !.may = Emits[Head(stack).event]]>> \o Tail(stack)
  /\ UNCHANGED <<handlers, nextToken, depth>>

HandlerReturns ==
  /\ stack # <<>> /\ Head(stack).token # 0
  /\ stack' = <<[Head(stack) EXCEPT !.token = 0, !.may = {}]>> \o Tail(stack)
  /\ UNCHANGED <<handlers, nextToken, depth>>

(* An exception ends its handler and is logged; the loop goes on.          *)
Caught_EndsLoop(f) == [f EXCEPT !.token = 0, !.may = {}, !.todo = <<>>]
Caught(f) == [f EXCEPT !.token = 0, !.may = {}]

HandlerThrows ==
  /\ Throws /\ stack # <<>> /\ Head(stack).token # 0
  /\ stack' = <<Caught(Head(stack))>> \o Tail(stack)
  /\ UNCHANGED <<handlers, nextToken, depth>>

EmitReturns ==
  /\ stack # <<>> /\ Head(stack).token = 0 /\ Head(stack).todo = <<>>
  /\ depth' = depth - 1
  /\ stack' = Tail(stack)
  /\ UNCHANGED <<handlers, nextToken>>

-----------------------------------------------------------------------------
(* "Storm guard": m_depth counts the emitEvent() calls in progress, on     *)
(* every way out of one, and a cycle of handlers that emit again never     *)
(* nests deeper than the cap.                                              *)
DepthExact == TypeOK /\ depth = Len(stack) /\ depth <= KMaxRecurse

Increasing(q) == \A i, j \in DOMAIN q : i < j => q[i] < q[j]

(* "Handlers of one event fire in SUBSCRIPTION order", whatever handlers   *)
(* come and go in between, and no token is subscribed to two events.       *)
SubscriptionOrder ==
  /\ \A e \in Events : Increasing(handlers[e])
  /\ \A i \in DOMAIN stack : Increasing(stack[i].todo)
  /\ \A e, f \in Events : e # f => ToSet(handlers[e]) \cap ToSet(handlers[f]) = {}

(* "One bad handler never breaks the rest of the fan-out": the handlers a  *)
(* call still has to make are taken off one by one, each by being called,  *)
(* whatever other handlers throw, emit or release.                         *)
FanoutComplete ==
  [][\A i \in DOMAIN stack : stack[i].todo # <<>> =>
       LET k == i + Len(stack') - Len(stack)
           next == Head(stack[i].todo) IN
       /\ k \in DOMAIN stack'
       /\ \/ stack'[k].todo = stack[i].todo
          \/ stack'[k].todo = Tail(stack[i].todo) /\ stack'[k].token = next]_vars
=============================================================================
