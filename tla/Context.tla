------------------------------- MODULE Context -------------------------------
(***************************************************************************)
(* The Context tree and the life cycle of plugin records (Context.cpp).    *)
(*                                                                         *)
(* Everything runs on one host thread, but almost every call runs          *)
(* callbacks: provide() and revoke() call dependency watchers, a watcher   *)
(* starts or stops a record, starting runs the plugin's apply(), stopping  *)
(* destroys a scope, and both provide and revoke again. The interleavings  *)
(* that matter are those of suspended calls, so the state has the thread's *)
(* call stack: each frame is a call that is waiting for the one above it   *)
(* to return, with the locals it will go on with. One action is one        *)
(* stretch of code between two callbacks.                                  *)
(*                                                                         *)
(* Addresses of records and contexts and watch tokens are taken from       *)
(* finite sets; one is reused only when nothing - not even a stale pointer *)
(* - refers to it any more. Using an address with nothing at it is         *)
(* undefined: the step is disabled, so the thread never moves again and a  *)
(* run that checks deadlock reports it. m_startingRecord is not kept: it   *)
(* is read only by a class-form closure at the very start of apply(),      *)
(* right after ensureStarted() has set it. Watchers installed by plugins,  *)
(* events and blob subscriptions of a scope are not part of this module.   *)
(***************************************************************************)
EXTENDS ServiceRegistry, SequencesExt, FiniteSets

CONSTANTS
  Plugins,        (* plugin names                                           *)
  Form,           (* plugin -> "function", "class", "object" or "dynamic"   *)
  Requires,       (* plugin -> sequence of required service ids             *)
  Provides,       (* plugin -> service ids its apply() may provide          *)
  Offers,         (* service id -> how often one scope may provide it       *)
  Loads,          (* plugin -> plugins its apply() may load into its scope  *)
  Evicts,         (* plugin -> siblings its apply() may unload              *)
  Throws,         (* plugins whose apply() may throw                        *)
  Products,       (* what a host may be set up with (see Product)           *)
  HostUnloads,    (* plugins the host unloads again                         *)
  HostWatchers,   (* the host's own root.watch() registrations              *)
  Fallback,       (* service id -> plugins the host's watcher may load when *)
                  (* it hears that the id disappeared                       *)
  Retire,         (* service id -> plugins it may unload then               *)
  RecIds, NoRec,  (* LoadRecord addresses, and the null pointer             *)
  Root,           (* the root scope                                         *)
  Gone            (* a scope address with no Context at it                  *)

VARIABLES
  recs,           (* LoadRecord at each address, or NoRec                  *)
  scopes,         (* Context at each address, or Gone                      *)
  stack           (* suspended calls of the host thread, innermost first   *)

vars == <<services, watchers, recs, scopes, stack>>

Forms == {"function", "class", "object", "dynamic"}
States == {"Deferred", "Active", "Failed", "Disposed"}

(* One host program: its plugins, those the host itself loads, the         *)
(* services it provides in the root scope, and the bounds: the names it    *)
(* may load twice, the records it has at once, and the tokens that must be *)
(* left when it calls.                                                     *)
Product ==
  [plugins : SUBSET Plugins, loads : SUBSET Plugins, provides : SUBSET Services,
   twice : SUBSET Plugins, size : Nat, reserve : Nat]

ASSUME ContextAssumption ==
  /\ Form \in [Plugins -> Forms]
  /\ Requires \in [Plugins -> Seq(Services)]
  /\ Provides \in [Plugins -> SUBSET Services]
  /\ Offers \in [Services -> Nat]
  /\ Loads \in [Plugins -> SUBSET Plugins]
  /\ Evicts \in [Plugins -> SUBSET Plugins]
  /\ Fallback \in [Services -> SUBSET Plugins]
  /\ Retire \in [Services -> SUBSET Plugins]
  /\ Products \subseteq Product
  /\ Throws \subseteq Plugins
  /\ HostUnloads \subseteq Plugins
  /\ RecIds \subseteq Nat /\ ScopeIds \subseteq Nat
  /\ IsFiniteSet(Tokens)
  /\ NoRec \notin RecIds /\ Root \in ScopeIds
  /\ HostWatchers \subseteq [tok : Tokens, svc : Services, rec : {NoRec}, host : {Root}]

(* A sentinel's closure holds its record and the liveness token of the     *)
(* record's host scope; the host's own watchers have no record.            *)
Watcher == [tok : Tokens, svc : Services, rec : RecIds \cup {NoRec}, host : ScopeIds]

(* `inst` counts activation-owned instances (objectInstance or owned),     *)
(* `lib` says the record holds its mapped library, `uses` names the        *)
(* dynamic plugins whose service objects the activation injected.          *)
LoadRecord ==
  [plugin : Plugins, host : ScopeIds, state : States,
   scope : ScopeIds \cup {NoScope}, tokens : SUBSET Tokens, inst : Nat,
   lib : BOOLEAN, uses : SUBSET Plugins]

(* `alive` is the m_alive token, `retired` the libraries of unloaded       *)
(* plugins.                                                                *)
Scope ==
  [alive : BOOLEAN, records : Seq(RecIds), provided : Seq(Services),
   retired : SUBSET Plugins]

(* A null pointer is no record, and an empty address no Context.           *)
ASSUME NullAssumption == NoRec \notin LoadRecord /\ Gone \notin Scope

NewScope == [alive |-> TRUE, records |-> <<>>, provided |-> <<>>, retired |-> {}]

(* arm: armDependencyWatchers; apply: the plugin's body; stop: stopRecord  *)
(* after scope.reset(); dtor, revoke: ~Context before and in phase 4;      *)
(* erase: unload after stopRecord; fire: fireWatchers; callback: a host    *)
(* watcher.                                                                *)
Ops == {"arm", "apply", "stop", "dtor", "revoke", "erase", "fire", "callback"}

Frame ==
  [op : Ops, rec : RecIds \cup {NoRec}, scope : ScopeIds \cup {NoScope},
   ix : Nat, val : BOOLEAN, todo : SUBSET Watcher]

Call(op, r, sc) ==
  [op |-> op, rec |-> r, scope |-> sc, ix |-> 0, val |-> FALSE, todo |-> {}]

FireWatchers(v, ws) == [Call("fire", NoRec, NoScope) EXCEPT !.val = v, !.todo = ws]

TypeOK ==
  /\ services \in [Services -> ScopeIds \cup {NoScope}]
  /\ watchers \in SUBSET Watcher
  /\ recs \in [RecIds -> LoadRecord \cup {NoRec}]
  /\ scopes \in [ScopeIds -> Scope \cup {Gone}]
  /\ stack \in Seq(Frame)

Init ==
  /\ services = [s \in Services |-> NoScope]
  /\ watchers = HostWatchers
  /\ recs = [r \in RecIds |-> NoRec]
  /\ scopes = [sc \in ScopeIds |-> IF sc = Root THEN NewScope ELSE Gone]
  /\ stack = <<>>

-----------------------------------------------------------------------------
(* Addresses and tokens                                                    *)

Live(r) == r \in RecIds /\ recs[r] # NoRec
Exists(sc) == sc \in ScopeIds /\ scopes[sc] # Gone
Required(r) == ToSet(Requires[recs[r].plugin])

Closures == watchers \cup UNION {stack[i].todo : i \in DOMAIN stack}

UsedRecs ==
  {r \in RecIds : Live(r)} \cup {w.rec : w \in Closures}
  \cup {stack[i].rec : i \in DOMAIN stack}

UsedScopes ==
  {sc \in ScopeIds : Exists(sc)} \cup {w.host : w \in Closures}
  \cup {stack[i].scope : i \in DOMAIN stack}

TokensInUse ==
  {w.tok : w \in Closures} \cup UNION {recs[r].tokens : r \in {q \in RecIds : Live(q)}}

IsFresh(a, ids, used) ==
  a \in ids \ used /\ \A b \in ids \ used : a <= b

-----------------------------------------------------------------------------
(* The calls.  Each takes the frames that wait for it (`rest`).            *)

Return(rest) == stack' = rest /\ UNCHANGED <<recs, scopes>>

RequiresMet(r) == \A s \in Required(r) : Available(s)

(* Dynamic plugins that own a service r requires: inject() hands out       *)
(* objects whose code is in their libraries.                               *)
Injected(r) ==
  {recs[q].plugin : q \in {p \in RecIds :
      Live(p) /\ recs[p].lib /\ \E s \in Required(r) : services[s] = recs[p].scope}}

HasInstance(p) == Form[p] \in {"object", "dynamic"}

(* ensureStarted: state first, then a fresh child scope, then apply(). The *)
(* object and dynamic forms bind or create the instance before anything    *)
(* else.                                                                   *)
CanStart_Again(r) == recs[r].state \in {"Deferred", "Failed"} /\ RequiresMet(r)
CanStart_Twice(r) == recs[r].state \in {"Deferred", "Active"} /\ RequiresMet(r)
CanStart_Stopped(r) == recs[r].state \in {"Deferred", "Disposed"} /\ RequiresMet(r)
CanStart(r) == recs[r].state = "Deferred" /\ RequiresMet(r)

Started(r, sc) ==
  [recs[r] EXCEPT !.state = "Active", !.scope = sc, !.uses = Injected(r),
                  !.inst = IF HasInstance(recs[r].plugin) THEN 1 ELSE 0]

EnsureStarted(r, rest) ==
  IF CanStart(r)
  THEN \E sc \in ScopeIds :
         /\ IsFresh(sc, ScopeIds, UsedScopes)
         /\ recs' = [recs EXCEPT ![r] = Started(r, sc)]
         /\ scopes' = [scopes EXCEPT ![sc] = NewScope]
         /\ stack' = <<Call("apply", r, sc)>> \o rest
  ELSE Return(rest)

(* stopRecord: state first, then scope.reset(), which runs ~Context: its   *)
(* phase 0 drops the liveness token.  The rest waits in a "stop" frame.    *)
Stopped_Unmaps(r, target) ==
  [recs[r] EXCEPT !.state = target, !.scope = NoScope, !.lib = FALSE]
Stopped(r, target) == [recs[r] EXCEPT !.state = target, !.scope = NoScope]

MustStop(r) == recs[r].state \in {"Active", "Failed"}

StopRecord(r, target, rest) ==
  IF MustStop(r)
  THEN LET sc == recs[r].scope IN
       /\ recs' = [recs EXCEPT ![r] = Stopped(r, target)]
       /\ IF sc = NoScope
          THEN /\ UNCHANGED scopes
               /\ stack' = <<Call("stop", r, NoScope)>> \o rest
          ELSE /\ Exists(sc)
               /\ scopes' = [scopes EXCEPT ![sc].alive = FALSE]
               /\ stack' = <<[Call("dtor", NoRec, sc) EXCEPT !.ix = Len(scopes[sc].records)],
                             Call("stop", r, NoScope)>> \o rest
  ELSE Return(rest)

(* The body of a watcher: armDependencyWatchers' lambda, or the host's.    *)
HostAlive(w) == IF Exists(w.host) THEN scopes[w.host].alive ELSE FALSE

CallWatcher(w, v, rest) ==
  IF ~HostAlive(w) THEN Return(rest)
  ELSE IF w.rec = NoRec
  THEN Return(<<[Call("callback", NoRec, NoScope) EXCEPT !.val = v, !.todo = {w}]>> \o rest)
  ELSE /\ Live(w.rec)
       /\ IF v THEN EnsureStarted(w.rec, rest)
          ELSE IF recs[w.rec].state = "Active" THEN StopRecord(w.rec, "Deferred", rest)
          ELSE Return(rest)

(* m_records of sc changes from position n on: the iterators that unload() *)
(* calls in progress keep there are invalid now; their frames remember it  *)
(* in `val`.                                                               *)
Invalidate(rest, sc, n) ==
  [i \in 1..Len(rest) |->
     IF rest[i].op = "erase" /\ rest[i].scope = sc /\ rest[i].ix >= n
     THEN [rest[i] EXCEPT !.val = TRUE] ELSE rest[i]]

(* plugin(), pluginFromLibrary(), loadRegistered(): a record is appended   *)
(* to the scope's list and addRecord() goes on to arm its sentinels.       *)
AddRecord(sc, p, rest) ==
  \E r \in RecIds :
    /\ IsFresh(r, RecIds, UsedRecs)
    /\ recs' = [recs EXCEPT ![r] =
         [plugin |-> p, host |-> sc, state |-> "Deferred", scope |-> NoScope,
          tokens |-> {}, inst |-> 0, lib |-> Form[p] = "dynamic", uses |-> {}]]
    /\ scopes' = [scopes EXCEPT ![sc].records = Append(@, r)]
    /\ stack' = <<[Call("arm", r, sc) EXCEPT !.ix = 1]>> \o Invalidate(rest, sc, 1)
    /\ UNCHANGED <<services, watchers>>

(* What unload() and pluginState() find: the first record named p.         *)
Named(sc, p) == {i \in DOMAIN scopes[sc].records : recs[scopes[sc].records[i]].plugin = p}

IsFirst(i, sc, p) == i \in Named(sc, p) /\ \A j \in Named(sc, p) : i <= j

Unload(sc, p, rest) ==
  /\ \E i \in Named(sc, p) :
       /\ IsFirst(i, sc, p)
       /\ LET r == scopes[sc].records[i] IN
          /\ Live(r)
          /\ StopRecord(r, "Disposed", <<[Call("erase", r, sc) EXCEPT !.ix = i]>> \o rest)
  /\ UNCHANGED <<services, watchers>>

ProvideService(s, sc, rest) ==
  /\ ProvideEntry(s, sc)
  /\ scopes' = [scopes EXCEPT ![sc].provided = Append(@, s)]
  /\ stack' = (IF Appears(s, sc) THEN <<FireWatchers(TRUE, Snapshot(s))>> ELSE <<>>) \o rest
  /\ UNCHANGED <<watchers, recs>>

(* A scope may provide an id again; m_providedNames then has it twice.     *)
MayProvide(s, sc) ==
  Cardinality({i \in DOMAIN scopes[sc].provided : scopes[sc].provided[i] = s}) < Offers[s]

-----------------------------------------------------------------------------
(* The host, between two calls                                             *)

Idle == stack = <<>> /\ Exists(Root)

TokensLeft(n) == Cardinality({t \in Tokens : \A v \in TokensInUse : v < t}) >= n

Loaded == {r \in RecIds : Live(r)}

(* The tree holds nothing that is not of product d, and there are tokens   *)
(* left.                                                                   *)
HasRoom(d) ==
  /\ {recs[r].plugin : r \in Loaded} \cup scopes[Root].retired \subseteq d.plugins
  /\ ToSet(scopes[Root].provided) \subseteq d.provides
  /\ TokensLeft(d.reserve)

MayLoad(d, p) ==
  /\ HasRoom(d) /\ Cardinality(Loaded) < d.size
  /\ Named(Root, p) = {} \/ (p \in d.twice /\ Cardinality(Named(Root, p)) < 2)

HostLoad(p) ==
  /\ Idle
  /\ \E d \in Products : p \in d.loads /\ MayLoad(d, p)
  /\ AddRecord(Root, p, <<>>)

HostUnload(p) == Idle /\ Unload(Root, p, <<>>)

HostProvide(s) ==
  /\ Idle
  /\ \E d \in Products : s \in d.provides /\ HasRoom(d)
  /\ MayProvide(s, Root)
  /\ ProvideService(s, Root, <<>>)

(* The root scope goes out of scope: ~Context of the whole tree.           *)
HostDestroy ==
  /\ Idle
  /\ scopes' = [scopes EXCEPT ![Root].alive = FALSE]
  /\ stack' = <<[Call("dtor", NoRec, Root) EXCEPT !.ix = Len(scopes[Root].records)]>>
  /\ UNCHANGED <<services, watchers, recs>>

Terminated == stack = <<>> /\ ~Exists(Root) /\ UNCHANGED vars

-----------------------------------------------------------------------------
(* One step of the innermost call                                          *)

Top == Head(stack)
Below == Tail(stack)

Running(op) == IF stack = <<>> THEN FALSE ELSE Top.op = op

(* The call goes on later as frame g, after the calls pushed above it.     *)
Resume(g) == <<g>> \o Below

(* armDependencyWatchers: one watch() per requirement, which delivers the  *)
(* present value before it returns the token ...                           *)
ArmNext ==
  /\ Running("arm") /\ Top.todo = {}
  /\ Live(Top.rec) /\ Exists(Top.scope)
  /\ Top.ix \in DOMAIN Requires[recs[Top.rec].plugin]
  /\ \E t \in Tokens :
       LET s == Requires[recs[Top.rec].plugin][Top.ix]
           w == [tok |-> t, svc |-> s, rec |-> Top.rec, host |-> Top.scope] IN
       /\ IsFreshToken(t, TokensInUse)
       /\ Register(w)
       /\ CallWatcher(w, Available(s), Resume([Top EXCEPT !.todo = {w}]))
  /\ UNCHANGED services

(* ... and the token is kept for teardown only then.                       *)
ArmToken ==
  /\ Running("arm") /\ Top.todo # {}
  /\ Live(Top.rec)
  /\ recs' = [recs EXCEPT ![Top.rec].tokens = @ \cup {w.tok : w \in Top.todo}]
  /\ stack' = Resume([Top EXCEPT !.todo = {}, !.ix = Top.ix + 1])
  /\ UNCHANGED <<services, watchers, scopes>>

(* addRecord: the record is started if it can be and has not been already. *)
ArmStarts ==
  /\ Running("arm") /\ Top.todo = {}
  /\ Live(Top.rec) /\ Exists(Top.scope)
  /\ Top.ix \notin DOMAIN Requires[recs[Top.rec].plugin]
  /\ EnsureStarted(Top.rec, Below)
  /\ UNCHANGED <<services, watchers>>

(* The plugin's body works in its own scope: it provides services, loads   *)
(* children, may unload a sibling, and returns or throws.                  *)
Applying == Running("apply") /\ Live(Top.rec) /\ Exists(Top.scope)

ApplyProvide(s) ==
  /\ Applying
  /\ s \in Provides[recs[Top.rec].plugin] /\ MayProvide(s, Top.scope)
  /\ ProvideService(s, Top.scope, stack)

ApplyLoad(c) ==
  /\ Applying
  /\ c \in Loads[recs[Top.rec].plugin] /\ Named(Top.scope, c) = {}
  /\ AddRecord(Top.scope, c, stack)

ApplyEvict(q) ==
  /\ Applying /\ Exists(recs[Top.rec].host)
  /\ q \in Evicts[recs[Top.rec].plugin]
  /\ Unload(recs[Top.rec].host, q, stack)

(* The class form's constructor is its body: the instance is kept after    *)
(* it.                                                                     *)
ApplyReturns ==
  /\ Running("apply") /\ Live(Top.rec)
  /\ recs' = [recs EXCEPT ![Top.rec].inst = @ + (IF Form[recs[Top.rec].plugin] = "class" THEN 1 ELSE 0)]
  /\ stack' = Below
  /\ UNCHANGED <<services, watchers, scopes>>

ApplyThrows ==
  /\ Running("apply") /\ Live(Top.rec)
  /\ recs[Top.rec].plugin \in Throws
  /\ StopRecord(Top.rec, "Failed", Below)
  /\ UNCHANGED <<services, watchers>>

(* stopRecord after scope.reset(): dispose, destroy, owned.clear().        *)
Released_Instances(r) == [recs[r] EXCEPT !.inst = 0]
Released(r) == [recs[r] EXCEPT !.inst = 0, !.uses = {}]

StopRelease ==
  /\ Running("stop") /\ Live(Top.rec)
  /\ recs' = [recs EXCEPT ![Top.rec] = Released(Top.rec)]
  /\ stack' = Below
  /\ UNCHANGED <<services, watchers, scopes>>

(* The loops of ~Context run over indices, downwards.                      *)
Earlier_Never(g) == [g EXCEPT !.val = FALSE]
Earlier(g) == [g EXCEPT !.ix = g.ix - 1, !.val = FALSE]

(* ~Context phase 1, newest record first: stop it ...                      *)
DtorStop ==
  /\ Running("dtor") /\ Exists(Top.scope) /\ ~Top.val
  /\ Top.ix \in DOMAIN scopes[Top.scope].records
  /\ Live(scopes[Top.scope].records[Top.ix])
  /\ StopRecord(scopes[Top.scope].records[Top.ix], "Disposed",
                Resume([Top EXCEPT !.val = TRUE]))
  /\ UNCHANGED <<services, watchers>>

(* ... then unmap its library and drop its sentinels.                      *)
DtorRelease ==
  /\ Running("dtor") /\ Exists(Top.scope) /\ Top.val
  /\ Top.ix \in DOMAIN scopes[Top.scope].records
  /\ LET r == scopes[Top.scope].records[Top.ix] IN
     /\ Live(r)
     /\ UnwatchAll(recs[r].tokens)
     /\ recs' = [recs EXCEPT ![r].lib = FALSE, ![r].tokens = {}]
  /\ stack' = Resume(Earlier(Top))
  /\ UNCHANGED <<services, scopes>>

(* The records and the retired libraries go, and (phase 2) the watchers    *)
(* the host registered through this scope.                                 *)
DtorClear ==
  /\ Running("dtor") /\ Exists(Top.scope) /\ Top.ix = 0
  /\ LET sc == Top.scope IN
     /\ recs' = [r \in RecIds |-> IF r \in ToSet(scopes[sc].records) THEN NoRec ELSE recs[r]]
     /\ scopes' = [scopes EXCEPT ![sc].records = <<>>, ![sc].retired = {}]
     /\ watchers' = {w \in watchers : ~(w.rec = NoRec /\ w.host = sc)}
     /\ stack' = Resume([Call("revoke", NoRec, sc) EXCEPT !.ix = Len(scopes[sc].provided)])
  /\ UNCHANGED services

(* Phase 4, newest service first; then the address is free.                *)
RevokeNext ==
  /\ Running("revoke") /\ Exists(Top.scope)
  /\ Top.ix \in DOMAIN scopes[Top.scope].provided
  /\ LET s == scopes[Top.scope].provided[Top.ix] IN
     /\ RevokeEntry(s, Top.scope)
     /\ stack' = (IF Disappears(s, Top.scope) THEN <<FireWatchers(FALSE, Snapshot(s))>>
                  ELSE <<>>) \o Resume(Earlier(Top))
  /\ UNCHANGED <<watchers, recs, scopes>>

RevokeDone_Early ==
  /\ Running("revoke") /\ Exists(Top.scope) /\ Top.ix <= 1
  /\ scopes' = [scopes EXCEPT ![Top.scope] = Gone]
  /\ stack' = Below
  /\ UNCHANGED <<services, watchers, recs>>
RevokeDone ==
  /\ Running("revoke") /\ Exists(Top.scope) /\ Top.ix = 0
  /\ scopes' = [scopes EXCEPT ![Top.scope] = Gone]
  /\ stack' = Below
  /\ UNCHANGED <<services, watchers, recs>>

(* unload() after stopRecord: a hosted library is retired, not unmapped,   *)
(* and the record erased at the iterator found before.                     *)
Retired_None(r) == {}
Retired(r) == IF recs[r].lib THEN {recs[r].plugin} ELSE {}

Erase ==
  /\ Running("erase") /\ Live(Top.rec) /\ Exists(Top.scope) /\ ~Top.val
  /\ Top.ix \in DOMAIN scopes[Top.scope].records
  /\ LET r == Top.rec IN
     /\ UnwatchAll(recs[r].tokens)
     /\ scopes' = [scopes EXCEPT
          ![Top.scope].retired = @ \cup Retired(r),
          ![Top.scope].records = RemoveAt(@, Top.ix)]
     /\ recs' = [recs EXCEPT ![r] = NoRec]
     /\ stack' = Invalidate(Below, Top.scope, Top.ix)
  /\ UNCHANGED services

FireNext ==
  /\ Running("fire")
  /\ \E w \in Top.todo :
       /\ IsNext(w, Top.todo)
       /\ CallWatcher(w, Top.val, Resume([Top EXCEPT !.todo = Top.todo \ {w}]))
  /\ UNCHANGED <<services, watchers>>

FireDone ==
  /\ Running("fire") /\ Top.todo = {}
  /\ stack' = Below
  /\ UNCHANGED <<services, watchers, recs, scopes>>

(* The host's own watcher may answer the loss of a service with one call.  *)
CallbackLoads(p) ==
  /\ Running("callback") /\ ~Top.val /\ Exists(Root)
  /\ \E w \in Top.todo : p \in Fallback[w.svc]
  /\ \E d \in Products : p \in d.plugins /\ MayLoad(d, p)
  /\ AddRecord(Root, p, Below)

CallbackUnloads(p) ==
  /\ Running("callback") /\ ~Top.val /\ Exists(Root)
  /\ \E w \in Top.todo : p \in Retire[w.svc]
  /\ Unload(Root, p, Below)

CallbackReturns ==
  /\ Running("callback")
  /\ stack' = Below
  /\ UNCHANGED <<services, watchers, recs, scopes>>

HostCalls ==
  \/ \E p \in Plugins : HostLoad(p)
  \/ \E p \in HostUnloads : HostUnload(p)
  \/ \E s \in Services : HostProvide(s)
  \/ HostDestroy

ThreadSteps ==
  \/ ArmNext \/ ArmToken \/ ArmStarts
  \/ \E s \in Services : ApplyProvide(s)
  \/ \E p \in Plugins : ApplyLoad(p) \/ ApplyEvict(p) \/ CallbackLoads(p) \/ CallbackUnloads(p)
  \/ ApplyReturns \/ ApplyThrows \/ StopRelease
  \/ DtorStop \/ DtorRelease \/ DtorClear \/ RevokeNext \/ RevokeDone
  \/ Erase \/ FireNext \/ FireDone \/ CallbackReturns

Next == HostCalls \/ ThreadSteps \/ Terminated

Spec == Init /\ [][Next]_vars

(* A call that has started runs on: the thread is scheduled, and plugin    *)
(* code and callbacks return. Nothing obliges the host to call.            *)
FairSpec == Spec /\ WF_vars(ThreadSteps)

-----------------------------------------------------------------------------
(* What a record requires, read from the registry's entries.               *)
HasAll(r) == \A s \in Required(r) : services[s] # NoScope

OnStack(op, r) == \E i \in DOMAIN stack : stack[i].op = op /\ stack[i].rec = r
TearingDown(sc) ==
  \E i \in DOMAIN stack : stack[i].op \in {"dtor", "revoke"} /\ stack[i].scope = sc
PendingFire(r, v) ==
  \E i \in DOMAIN stack :
    stack[i].op = "fire" /\ stack[i].val = v /\ \E w \in stack[i].todo : w.rec = r
HostIsAlive(r) == scopes[recs[r].host].alive
Records == {r \in RecIds : Live(r)}

(* Records and scopes form a tree at every instant of a cascade: exactly   *)
(* the Active records own a scope, no two own the same one, and a scope    *)
(* nobody owns any more is being destroyed. And no chain of callbacks that *)
(* a plugin's body started (provide, load, unload) tears the body's own    *)
(* scope down underneath it (ensureStarted's "set first: re-entrancy       *)
(* guard").                                                                *)
ScopeTree ==
  /\ TypeOK
  /\ \A r \in Records :
       /\ (recs[r].state = "Active") <=> (recs[r].scope # NoScope)
       /\ Exists(recs[r].host)
       /\ r \in ToSet(scopes[recs[r].host].records)
       /\ recs[r].scope # NoScope => Exists(recs[r].scope) /\ scopes[recs[r].scope].alive
       /\ \A q \in Records \ {r} : recs[q].scope = recs[r].scope => recs[r].scope = NoScope
  /\ \A sc \in ScopeIds \ {Root} : Exists(sc) =>
       TearingDown(sc) \/ \E r \in Records : recs[r].scope = sc
  /\ \A i \in DOMAIN stack : stack[i].op = "apply" =>
       Live(stack[i].rec) /\ recs[stack[i].rec].scope = stack[i].scope

(* A service in the registry belongs to a scope that exists and still has  *)
(* it on its revoke list: ~Context phase 4 misses none, and no entry       *)
(* outlives its provider.                                                  *)
ServicesOwned ==
  \A s \in Services : services[s] # NoScope =>
    LET sc == services[s] IN
    /\ Exists(sc)
    /\ s \in ToSet(scopes[sc].provided)
    /\ \A i \in DOMAIN stack : stack[i].op = "revoke" /\ stack[i].scope = sc =>
         \E j \in 1..stack[i].ix : scopes[sc].provided[j] = s

(* Dependency liveness (plugin-lifecycle.md section 6) while callbacks     *)
(* nest: a record that runs without its requirements, or waits although it *)
(* has them, is about to be told by a loop that has not reached its        *)
(* sentinel, or is still being loaded.                                     *)
DependenciesTracked ==
  \A r \in Records : HostIsAlive(r) =>
    /\ recs[r].state = "Active" /\ ~HasAll(r) => PendingFire(r, FALSE)
    /\ recs[r].state = "Deferred" /\ HasAll(r) => PendingFire(r, TRUE) \/ OnStack("arm", r)

(* Between two host calls a record is Active or Deferred exactly as its    *)
(* requirements are available, and no stopped record is still listed.      *)
LateBinding ==
  stack = <<>> => \A r \in Records :
    /\ recs[r].state = "Active" => HasAll(r)
    /\ recs[r].state = "Deferred" => ~HasAll(r)
    /\ recs[r].state # "Disposed"

(* Between two host calls the registry holds exactly the sentinels of the  *)
(* records that are loaded, one for each requirement, and each record can  *)
(* cancel all of its own.                                                  *)
SentinelsExact ==
  stack = <<>> =>
    LET sentinels == {w \in watchers : w.rec # NoRec} IN
    /\ \A w \in sentinels : Live(w.rec) /\ w.tok \in recs[w.rec].tokens
    /\ \A r \in Records : {w.svc : w \in {x \in sentinels : x.rec = r}} = Required(r)
    /\ \A r \in Records : Cardinality(recs[r].tokens) = Len(Requires[recs[r].plugin])

(* unload() erases the record it found, however stopRecord() in between    *)
(* nests: the record waits, stopped for good, until the erase, nothing     *)
(* that runs in between starts it again, and the iterator points at it     *)
(* unless the list has changed at or before it (then it is invalid, and    *)
(* what the erase does is undefined).                                      *)
ErasesItsOwn ==
  \A i \in DOMAIN stack :
    LET f == stack[i] IN
    f.op = "erase" /\ Live(f.rec) =>
      /\ recs[f.rec].state \in {"Disposed"} \cup (IF i = 1 THEN {"Deferred"} ELSE {})
      /\ Exists(f.scope) /\ ~f.val =>
           /\ f.ix \in DOMAIN scopes[f.scope].records
           /\ scopes[f.scope].records[f.ix] = f.rec

(* "Record addresses are stable, so what a sentinel captured is safe": a   *)
(* sentinel that is registered, or that a loop has copied, refers to a     *)
(* record that exists as long as its host scope is alive                   *)
(* (ccordis-plugin-system-design.md section 4.8).                          *)
SentinelsSafe == \A w \in Closures : w.rec # NoRec /\ HostAlive(w) => Live(w.rec)

(* An activation owns at most one instance; a record that is not Active    *)
(* has none left once its stop has run, and an Active one has its own once *)
(* apply() is over.                                                        *)
InstancesMatch ==
  \A r \in Records :
    /\ recs[r].inst <= 1
    /\ recs[r].state # "Active" /\ ~OnStack("stop", r) => recs[r].inst = 0 /\ recs[r].uses = {}
    /\ recs[r].state = "Active" /\ ~OnStack("apply", r) =>
         recs[r].inst = IF Form[recs[r].plugin] = "function" THEN 0 ELSE 1

(* Code of a dynamic plugin is mapped while a record holds its library or  *)
(* a scope has retired it.                                                 *)
Resident(p) ==
  \/ \E r \in Records : recs[r].lib /\ recs[r].plugin = p
  \/ \E sc \in ScopeIds : Exists(sc) /\ p \in scopes[sc].retired

(* An activation whose host scope is alive never holds a service object    *)
(* whose code is unmapped.                                                 *)
ResidentWhileUsed ==
  \A r \in Records : HostIsAlive(r) => \A p \in recs[r].uses : Resident(p)

(* The same for every activation, those that teardown has not reached      *)
(* included: "libraries unload after every record stopped".                *)
StoppedBeforeUnmap == \A r \in Records : \A p \in recs[r].uses : Resident(p)

(* Records change state only as the life cycle says, and for its reasons:  *)
(* a record starts only when all it requires is available, goes back to    *)
(* Deferred only when something is not, and Failed is left only by         *)
(* unloading.                                                              *)
LegalStep(r) ==
  LET a == recs[r].state
      b == recs'[r].state IN
  \/ a = b
  \/ a = "Deferred" /\ b = "Active" /\ HasAll(r)
  \/ a = "Active" /\ b = "Deferred" /\ ~HasAll(r)
  \/ a = "Active" /\ b \in {"Failed", "Disposed"}
  \/ a = "Failed" /\ b = "Disposed"

LifeCycle == [][\A r \in Records : recs'[r] # NoRec => LegalStep(r)]_vars

(* A dynamic plugin's code, once mapped for a scope, stays mapped until    *)
(* that scope is torn down, however often the plugin stops, restarts or is *)
(* unloaded (plugin-lifecycle.md section 8: retired libraries).            *)
Mapped(sc) ==
  {recs[r].plugin : r \in {q \in Records : recs[q].host = sc /\ recs[q].lib}}
    \cup scopes[sc].retired

CodeStaysMapped ==
  [][\A sc \in ScopeIds :
       Exists(sc) /\ scopes[sc].alive => Mapped(sc) \subseteq Mapped(sc)']_vars

(* Only the death of its owner takes a service away: while the scope that  *)
(* provided it is alive, no competing provider, no loss of what it         *)
(* requires and nobody else's teardown moves the id or removes it.         *)
ServesWhileAlive ==
  [][\A s \in Services :
       services[s] # NoScope /\ services'[s] # services[s] =>
         services'[s] = NoScope /\ ~scopes[services[s]].alive]_vars

(* The records of the root scope implement PluginRecords, however starts,  *)
(* stops and loads nest: no record is forgotten while it runs, none leaves *)
(* Failed but by unloading, and the list is cleared only when everything   *)
(* has stopped.                                                            *)
RootRecords ==
  IF Exists(Root)
  THEN [i \in DOMAIN scopes[Root].records |->
          [name |-> recs[scopes[Root].records[i]].plugin,
           state |-> recs[scopes[Root].records[i]].state]]
  ELSE <<>>

Promise == INSTANCE PluginRecords WITH records <- RootRecords, Names <- Plugins

RecordsAsPromised == Promise!Spec

(* Every host call returns: cascades, restarts and teardown come to an     *)
(* end.                                                                    *)
CallsReturn == []<>(stack = <<>>)
=============================================================================
