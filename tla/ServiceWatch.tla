---------------------------- MODULE ServiceWatch ----------------------------
(***************************************************************************)
(* The registry with arbitrary clients on the host thread. A client calls  *)
(* provide, revoke, watch and unwatch at any time the thread is idle and   *)
(* again from inside a watcher callback: fireWatchers() runs the callbacks *)
(* outside the mutex so that "a watcher may itself call                    *)
(* provide/revoke/watch (re-entrancy)". Every fireWatchers() loop in       *)
(* progress is a frame of `stack`, newest first, holding the value and the *)
(* watchers it copied before its first callback.                           *)
(***************************************************************************)
EXTENDS ServiceRegistry, Sequences

CONSTANT
  MaxDepth        (* bound: nested fireWatchers() loops                    *)

ASSUME WatchAssumption == MaxDepth \in Nat

VARIABLES
  stack,          (* fireWatchers() loops on the host thread's call stack   *)
  seen,           (* last value delivered to each token: the watcher's view *)
  overtaken       (* watchers whose id has changed while a loop over it had *)
                  (* still to call them                                     *)

watchVars == <<services, watchers, stack, seen, overtaken>>

Watcher == [tok : Tokens, svc : Services]

(* A loop: the id, `current` (TRUE when non-null), the watchers still to   *)
(* be called, and whether one of its callbacks is running now.             *)
Frame == [svc : Services, val : BOOLEAN, todo : SUBSET Watcher, calling : BOOLEAN]

WatchTypeOK ==
  /\ services \in [Services -> ScopeIds \cup {NoScope}]
  /\ watchers \in SUBSET Watcher
  /\ stack \in Seq(Frame)
  /\ seen \in [Tokens -> BOOLEAN]
  /\ overtaken \in SUBSET Watcher

WatchInit ==
  /\ services = [s \in Services |-> NoScope]
  /\ watchers = {}
  /\ stack = <<>>
  /\ seen = [t \in Tokens |-> FALSE]
  /\ overtaken = {}

(* The host thread is in client code: between two calls, or in a callback. *)
InClient == IF stack = <<>> THEN TRUE ELSE Head(stack).calling

MayCall == InClient /\ Len(stack) < MaxDepth

Loop(s, v, todo) == [svc |-> s, val |-> v, todo |-> todo, calling |-> FALSE]

StillToCall == UNION {stack[i].todo : i \in DOMAIN stack}

(* What s is now the new loop tells every watcher of s, those registered   *)
(* from now on included; what an older loop of s has still to say is old.  *)
FireWatchers(s, v) ==
  /\ stack' = <<Loop(s, v, Snapshot(s))>> \o stack
  /\ overtaken' = {w \in overtaken : w.svc # s} \cup {w \in StillToCall : w.svc = s}

Provide(s, o) ==
  /\ MayCall
  /\ ProvideEntry(s, o)
  /\ IF Appears(s, o) THEN FireWatchers(s, TRUE) ELSE UNCHANGED <<stack, overtaken>>
  /\ UNCHANGED <<watchers, seen>>

Revoke(s, o) ==
  /\ MayCall
  /\ RevokeEntry(s, o)
  /\ IF Disappears(s, o) THEN FireWatchers(s, FALSE) ELSE UNCHANGED <<stack, overtaken>>
  /\ UNCHANGED <<watchers, seen>>

TokensInUse == {w.tok : w \in watchers \cup StillToCall}

(* watch(): insert and read the current value under the lock, then deliver *)
(* it at once.  The first callback is a loop over the new watcher alone.   *)
Watch(s) ==
  /\ MayCall
  /\ \E t \in Tokens :
       /\ IsFreshToken(t, TokensInUse)
       /\ Register([tok |-> t, svc |-> s])
       /\ overtaken' = overtaken \ {[tok |-> t, svc |-> s]}
       /\ stack' = <<Loop(s, Available(s), {[tok |-> t, svc |-> s]})>> \o stack
  /\ UNCHANGED <<services, seen>>

Unwatch(t) ==
  /\ InClient
  /\ \E w \in watchers : w.tok = t
  /\ UnwatchAll({t})
  /\ UNCHANGED <<services, stack, seen, overtaken>>

(* One iteration of the loop: the next watcher is called with the value    *)
(* that was current when the loop took its snapshot.                       *)
Deliver ==
  /\ ~InClient
  /\ \E w \in Head(stack).todo :
       /\ IsNext(w, Head(stack).todo)
       /\ seen' = [seen EXCEPT ![w.tok] = Head(stack).val]
       /\ stack' = <<[Head(stack) EXCEPT !.todo = @ \ {w}, !.calling = TRUE]>> \o Tail(stack)
  /\ UNCHANGED <<services, watchers, overtaken>>

CallbackReturns ==
  /\ stack # <<>>
  /\ Head(stack).calling
  /\ stack' = <<[Head(stack) EXCEPT !.calling = FALSE]>> \o Tail(stack)
  /\ UNCHANGED <<services, watchers, seen, overtaken>>

LoopEnds ==
  /\ ~InClient
  /\ Head(stack).todo = {}
  /\ stack' = Tail(stack)
  /\ UNCHANGED <<services, watchers, seen, overtaken>>

WatchNext ==
  \/ \E s \in Services, o \in ScopeIds : Provide(s, o) \/ Revoke(s, o)
  \/ \E s \in Services : Watch(s)
  \/ \E t \in Tokens : Unwatch(t)
  \/ Deliver \/ CallbackReturns \/ LoopEnds

WatchSpec == WatchInit /\ [][WatchNext]_watchVars

-----------------------------------------------------------------------------
(* Late binding (ServiceRegistry.h:26), while loops run and callbacks make *)
(* any call: a watcher that was last told what is not true now is still to *)
(* be called by a loop that carries the right value, and that is the       *)
(* outermost one: nothing older will overwrite it. Between calls, then, it *)
(* knows what is true. The one exception are overtaken watchers: their id  *)
(* changed again before a loop over it came to them, and that older loop   *)
(* may be the last to call them.                                           *)
StaleIsPending ==
  /\ WatchTypeOK
  /\ \A w \in watchers \ overtaken :
       seen[w.tok] # Available(w.svc) =>
         \E i \in DOMAIN stack :
           /\ w \in stack[i].todo
           /\ stack[i].val = Available(w.svc)
           /\ \A j \in DOMAIN stack : j > i => w \notin stack[j].todo
=============================================================================
