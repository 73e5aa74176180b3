--------------------------- MODULE ServiceRegistry ---------------------------
(***************************************************************************)
(* The service registry shared by every scope of a Context tree            *)
(* (ServiceRegistry.cpp).  It keeps two maps: service id -> owning scope,  *)
(* and watch token -> watcher.  This module holds that state and the       *)
(* effect each operation has on it under its mutex.  What provide() and    *)
(* revoke() do afterwards - call the watchers they found, outside the      *)
(* mutex - is a loop over callbacks: the modules that EXTEND this one give *)
(* that loop its place on the host thread's call stack.                    *)
(*                                                                         *)
(* A service is represented by its owner: the type and the instance are    *)
(* payload no transition depends on (a same-owner provide() replaces them  *)
(* silently).                                                              *)
(***************************************************************************)
EXTENDS Naturals

CONSTANTS
  Services,     (* service ids                                             *)
  ScopeIds,       (* scopes a service can belong to                        *)
  NoScope,      (* "no entry in m_services"                                *)
  Tokens        (* watch tokens; a token is fresh when it is larger than   *)
                (* every token still in use                                *)

ASSUME RegistryAssumption == NoScope \notin ScopeIds /\ Tokens \subseteq Nat

VARIABLES
  services,     (* m_services: the owner of each service id, or NoScope    *)
  watchers      (* m_watchers: records with (at least) a token and a svc   *)

Available(s) == services[s] # NoScope

(* The entries fireWatchers() copies under the lock.                       *)
Snapshot_First(s) == {w \in watchers : w.svc = s /\ \A v \in watchers : v.svc = s => w.tok <= v.tok}
Snapshot(s) == {w \in watchers : w.svc = s}

(* provide(): the first owner of an id wins; the same owner replaces in    *)
(* place; anyone else is ignored.                                          *)
Appears(s, o) == services[s] = NoScope

ProvideEntry_LastWins(s, o) == services' = [services EXCEPT ![s] = o]
ProvideEntry(s, o) ==
  services' = IF Appears(s, o) THEN [services EXCEPT ![s] = o] ELSE services

(* revoke(): only the owner's call removes the entry.                      *)
Disappears_AnyOwner(s, o) == services[s] # NoScope
Disappears(s, o) == services[s] = o

RevokeEntry(s, o) ==
  services' = IF Disappears(s, o) THEN [services EXCEPT ![s] = NoScope] ELSE services

(* watch() inserts under ++m_nextWatchToken, so a new token is larger than *)
(* every live one; the smallest such token keeps the state space finite.   *)
IsFreshToken(t, used) ==
  /\ t \in Tokens
  /\ \A u \in used : u < t
  /\ \A v \in Tokens : (\A u \in used : u < v) => t <= v

Register(w) == watchers' = watchers \cup {w}

UnwatchAll_First(toks) ==
  watchers' = {w \in watchers : w.tok \notin toks \/ \E t \in toks : t < w.tok}
UnwatchAll(toks) == watchers' = {w \in watchers : w.tok \notin toks}

(* The watcher map iterates in token order: a loop over a snapshot takes   *)
(* the watcher with the smallest token next.                               *)
IsNext(w, todo) == w \in todo /\ \A v \in todo : w.tok <= v.tok
=============================================================================
