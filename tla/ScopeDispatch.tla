---------------------------- MODULE ScopeDispatch ----------------------------
(***************************************************************************)
(* The event bus under a Context tree. Context::on() keeps the connection  *)
(* in the scope, which releases it when it dies (~Context phase 3); the    *)
(* host may also subscribe on the bus itself and hold the handle. Scopes   *)
(* are born and destroyed by client code, handlers of other scopes         *)
(* included, so a scope may die while emitEvent() calls with copies of its *)
(* handlers are in progress. A scope here is one activation; it is not     *)
(* born again.                                                             *)
(***************************************************************************)
EXTENDS EventBus

CONSTANTS
  Scopes,
  Host,           (* who holds the handles of bus().on() ...               *)
  Manual,         (* ... and the events it subscribes to there             *)
  Parent          (* scope -> the scope or the host it is loaded in        *)

ASSUME ScopeAssumption ==
  /\ Host \notin Scopes /\ Manual \subseteq Events /\ Parent \in [Scopes -> Scopes \cup {Host}]

VARIABLES
  life,           (* of each scope: "unborn", "live" or "dead"              *)
  conns,          (* m_connections of each scope, and the host's handles    *)
  gone            (* history: for each call of `stack`, the tokens released *)
                  (* since it made its copy                                 *)

scopeVars == <<life, conns, gone>>
allVars == <<vars, scopeVars>>

Owners == Scopes \cup {Host}

DispatchInit ==
  /\ Init
  /\ life = [s \in Scopes |-> "unborn"]
  /\ conns = [o \in Owners |-> {}]
  /\ gone = <<>>

Lives(o) == IF o = Host THEN TRUE ELSE life[o] = "live"

(* ensureStarted() makes the scope of an activation.                       *)
Born(s) ==
  /\ InClient /\ life[s] = "unborn" /\ Lives(Parent[s])
  /\ life' = [life EXCEPT ![s] = "live"]
  /\ UNCHANGED <<vars, conns, gone>>

(* Context::on() and, for the host, bus().on().                            *)
OnIn(o, e) ==
  /\ Lives(o) /\ (o = Host => e \in Manual) /\ On(e)
  /\ conns' = [conns EXCEPT ![o] = @ \cup {nextToken}]
  /\ UNCHANGED <<life, gone>>

HostReleases(t) ==
  /\ t \in conns[Host] /\ Release(t)
  /\ conns' = [conns EXCEPT ![Host] = @ \ {t}]
  /\ gone' = [i \in DOMAIN gone |-> gone[i] \cup {t}]
  /\ UNCHANGED life

(* A plugin does not unload itself from its own handler.                   *)
Busy(s) == \E i \in DOMAIN stack : stack[i].token \in conns[s]

(* ~Context of a scope: its children are gone (phase 1), phase 3 releases  *)
(* every connection. What happens to the rest of the tree is Context's     *)
(* matter.                                                                 *)
Disconnected_First(s) ==
  IF conns[s] = {} THEN handlers ELSE Off(handlers, CHOOSE t \in conns[s] : TRUE)
Disconnected(s) == FoldSet(LAMBDA t, table : Off(table, t), handlers, conns[s])

Dies(s) ==
  /\ InClient /\ life[s] = "live" /\ ~Busy(s)
  /\ \A c \in Scopes : Parent[c] = s => life[c] # "live"
  /\ handlers' = Disconnected(s)
  /\ life' = [life EXCEPT ![s] = "dead"]
  /\ conns' = [conns EXCEPT ![s] = {}]
  /\ gone' = [i \in DOMAIN gone |-> gone[i] \cup conns[s]]
  /\ UNCHANGED <<nextToken, depth, stack>>

(* The steps of emitEvent() itself; a copy is made when a call begins.     *)
Dispatch ==
  /\ \/ \E e \in Events : Emit(e) \/ EmitNothing(e)
     \/ CallHandler \/ HandlerReturns \/ HandlerThrows \/ EmitReturns
  /\ gone' = (IF Len(stack') > Len(stack) THEN <<{}>> ELSE <<>>)
             \o SubSeq(gone, 1 + Len(stack) - Min({Len(stack), Len(stack')}), Len(stack))
  /\ UNCHANGED <<life, conns>>

DispatchNext ==
  \/ \E s \in Scopes : Born(s) \/ Dies(s)
  \/ \E o \in Owners, e \in Events : OnIn(o, e)
  \/ \E t \in Tokens : HostReleases(t)
  \/ Dispatch

DispatchSpec == DispatchInit /\ [][DispatchNext]_allVars

-----------------------------------------------------------------------------
(* RAII on the bus: the tables hold exactly the subscriptions whose handle *)
(* is alive, so the scopes that died left none behind and lost none of     *)
(* others; and what a call in progress still holds of a released           *)
(* subscription was released while that very call was running, never       *)
(* before it.                                                              *)
SubscriptionsOwned ==
  /\ Subscribed = UNION {conns[o] : o \in Owners}
  /\ \A o \in Owners : ~Lives(o) => conns[o] = {}
  /\ \A i \in DOMAIN stack :
       ToSet(stack[i].todo) \cup ({stack[i].token} \ {0}) \subseteq Subscribed \cup gone[i]

(* plugin-lifecycle.md section 9: subscriptions of a scope look after      *)
(* themselves, so a handler is called only while its subscription exists.  *)
Calls(t) ==
  /\ stack # <<>> /\ Len(stack') = Len(stack)
  /\ Head(stack).token = 0 /\ Head(stack').token = t

CalledWhileSubscribed == [][\A t \in Tokens : Calls(t) => t \in Subscribed]_allVars
=============================================================================
