------------------------- MODULE ContextLayerProofs -------------------------
(***************************************************************************)
(* What holds of nested calls in a Context tree, for every set of plugins, *)
(* services and addresses and every layered product (ContextLayers).       *)
(*                                                                         *)
(* Every call of Context.cpp that changes something may call plugins,      *)
(* watchers and other Contexts before it returns, and goes on with what it *)
(* held before. Layers says why that is safe: whatever runs above a        *)
(* waiting call concerns only plugins on higher levels than its own. Its   *)
(* proof follows the shape of the code: what ensureStarted(),              *)
(* stopRecord(), addRecord(), provide() and a watcher do to the stack      *)
(* (StartEffect, StopShape, AddShape, ProvideShape), a lemma for each that *)
(* it keeps the calls apart, and one for each action of Context.           *)
(*                                                                         *)
(* From it follow that records and scopes form a tree (ScopeTree), and,    *)
(* through Turned, which says how a step may change a record, that         *)
(* instances and injected services are paired with starts and stops        *)
(* (InstancesMatch) and that a record only takes the legal steps of its    *)
(* life cycle (LifeCycle).                                                 *)
(***************************************************************************)
EXTENDS ContextProofs, ContextLayers

(* A sequence in which every element may stand before all that follow it.  *)
Sorted(q, P) == \A i, j \in DOMAIN q : i < j => <<q[i], q[j]>> \in P

(* A call that may stand before all that wait for it is pushed ...         *)
LEMMA SortedPush ==
  ASSUME NEW S, NEW P, NEW q \in Seq(S), Sorted(q, P), NEW x \in S,
         \A j \in DOMAIN q : <<x, q[j]>> \in P
  PROVE  Sorted(<<x>> \o q, P)
<1>. DEFINE p == <<x>> \o q
<1>1. /\ p[1] = x /\ DOMAIN q \subseteq Nat \ {0} /\ DOMAIN p \subseteq Nat \ {0}
      /\ \A i \in DOMAIN p : i = 1 \/ (i - 1 \in DOMAIN q /\ p[i] = q[i - 1])
  BY PushedPositions
<1>. HIDE DEF p
<1>2. SUFFICES ASSUME NEW i \in DOMAIN p, NEW j \in DOMAIN p, i < j PROVE <<p[i], p[j]>> \in P
  BY DEF Sorted, p
<1>3. j # 1 /\ j - 1 \in DOMAIN q /\ p[j] = q[j - 1]
  BY <1>1, <1>2
<1>4. CASE i = 1
  BY <1>1, <1>3, <1>4
<1>5. CASE i # 1
  <2>1. i - 1 \in DOMAIN q /\ p[i] = q[i - 1] /\ i - 1 < j - 1
    BY <1>1, <1>2, <1>3, <1>5
  <2>. QED  BY <1>3, <2>1 DEF Sorted
<1>. QED  BY <1>4, <1>5

(* ... and when it returns, the others are still in order.                 *)
LEMMA SortedPop ==
  ASSUME NEW S, NEW P, NEW q \in Seq(S), NEW x \in S, Sorted(<<x>> \o q, P)
  PROVE  Sorted(q, P) /\ \A j \in DOMAIN q : <<x, q[j]>> \in P
<1>. DEFINE p == <<x>> \o q
<1>1. /\ p[1] = x /\ 1 \in DOMAIN p /\ DOMAIN q \subseteq Nat \ {0}
      /\ \A i \in DOMAIN q : i + 1 \in DOMAIN p /\ p[i + 1] = q[i]
  BY PushedPositions
<1>. HIDE DEF p
<1>2. Sorted(p, P)
  BY DEF p
<1>3. ASSUME NEW i \in DOMAIN q, NEW j \in DOMAIN q, i < j PROVE <<q[i], q[j]>> \in P
  <2>1. i + 1 < j + 1
    BY <1>1, <1>3
  <2>. QED  BY <1>1, <1>2, <2>1 DEF Sorted
<1>4. ASSUME NEW j \in DOMAIN q PROVE <<x, q[j]>> \in P
  <2>1. 1 < j + 1
    BY <1>1
  <2>. QED  BY <1>1, <1>2, <2>1 DEF Sorted
<1>. QED  BY <1>3, <1>4 DEF Sorted

-----------------------------------------------------------------------------
(* What the running calls may still concern.                               *)

(* Record r, unless it is gone, belongs to a plugin of A.                  *)
Of(r, A) == Live(r) => recs[r].plugin \in A

(* Whatever call f may still touch belongs to plugins of A: the record it  *)
(* works on, the records of the scope it tears down and all that hear of   *)
(* the services which that scope still provides, the watchers it has still *)
(* to call.                                                                *)
Within(f, A) ==
  /\ f.op \in {"arm", "apply", "stop", "erase"} => Of(f.rec, A)
  /\ f.op \in {"dtor", "revoke"} =>
       /\ \A r \in ToSet(scopes[f.scope].records) : Of(r, A)
       /\ \A s \in Services : services[s] = f.scope => Hears(s) \subseteq A
  /\ f.op \in {"fire", "callback"} => \A w \in f.todo :
       /\ Of(w.rec, A)
       /\ w.rec = NoRec /\ ~f.val => Fallback[w.svc] \cup Retire[w.svc] \subseteq A

(* The plugins that call g concerns itself: that of its record, or, in a   *)
(* fireWatchers() loop, those that can provide the service.                *)
Bases(g) ==
  {p \in Plugins :
     \/ g.op \in {"arm", "apply", "stop"} /\ Live(g.rec) /\ recs[g.rec].plugin = p
     \/ g.op = "fire" /\ \E w \in g.todo : Provider(p, w.svc)}

(* The plugins strictly above all that g concerns: all that a call which g *)
(* waits for may touch.                                                    *)
Over(g) == {q \in Plugins : \A p \in Bases(g) : Level[p] < Level[q]}

(* A call that addRecord() makes on behalf of the record it is arming.     *)
Arming(f, g) == g.op = "arm" /\ f.op \in {"apply", "stop"} /\ f.rec = g.rec

(* Call f may run while g waits: f stays above what g concerns, or is part *)
(* of g's own addRecord(); it tears down neither the root scope nor a      *)
(* scope that g is already tearing down.                                   *)
Apart(f, g) ==
  /\ Within(f, Over(g)) \/ Arming(f, g)
  /\ f.op \in {"dtor", "revoke"} =>
       f.scope # Root /\ ~(g.op \in {"dtor", "revoke"} /\ g.scope = f.scope)

(* The pairs of calls of which the first may run above the second.         *)
ApartPairs == {fg \in Frame \X Frame : Apart(fg[1], fg[2])}

(* The sentinel of a record watches one of the services it requires.       *)
HeardRight(w) == Live(w.rec) => w.svc \in Required(w.rec)

(* What each call on the stack can rely on when it goes on: apply() runs   *)
(* in the open scope of a record whose services are all there,             *)
(* stopRecord() works on a record that is no longer Active, a scope being  *)
(* torn down still exists, and while watchers hear that a service is lost, *)
(* it is lost.                                                             *)
Good ==
  {f \in Frame :
     /\ f.op = "apply" =>
          /\ Live(f.rec) /\ recs[f.rec].scope = f.scope /\ f.scope # NoScope /\ HasAll(f.rec)
          /\ recs[f.rec].inst = IF HasInstance(recs[f.rec].plugin) THEN 1 ELSE 0
     /\ f.op = "stop" => Live(f.rec) /\ recs[f.rec].state # "Active"
     /\ f.op \in {"dtor", "revoke"} => Exists(f.scope)
     /\ f.op = "fire" /\ ~f.val => \A w \in f.todo : services[w.svc] = NoScope
     /\ f.op = "callback" => \A w \in f.todo : w.rec = NoRec
     /\ \A w \in f.todo : HeardRight(w) /\ \A v \in f.todo : v.svc = w.svc}

(* A stack of calls each of which stays apart from all those it returns    *)
(* to.                                                                     *)
Nested(q) == q \in Seq(Good) /\ Sorted(q, ApartPairs)

(* A set of plugins that includes all its members can set off: the plugins *)
(* they load or evict, and those that hear of the services they provide.   *)
Closed(A) ==
  /\ A \subseteq Plugins
  /\ \A p \in A :
       /\ Loads[p] \cup Evicts[p] \subseteq A
       /\ \A s \in Services : Provider(p, s) => Hears(s) \subseteq A

(* Only plugins hear of a service.                                         *)
LEMMA HearsPlugins == \A s \in Services : Hears(s) \subseteq Plugins
BY ContextAssumption DEF Hears

(* Layering makes the plugins above a call a closed set.                   *)
LEMMA OverClosed ==
  ASSUME Layered, NEW g
  PROVE  Closed(Over(g))
<1>1. /\ \A p \in Plugins : Loads[p] \subseteq Plugins /\ Evicts[p] \subseteq Plugins
      /\ \A s \in Services : Hears(s) \subseteq Plugins
  BY ContextAssumption, HearsPlugins
<1>2. /\ \A p \in Plugins : Level[p] \in Nat
      /\ \A p \in Plugins : \A q \in Loads[p] \cup Evicts[p] : Level[p] < Level[q]
      /\ \A p \in Plugins : \A s \in Services : Provider(p, s) => \A q \in Hears(s) : Level[p] < Level[q]
  BY DEF Layered
<1>3. Bases(g) \subseteq Plugins
  BY DEF Bases
<1>4. ASSUME NEW p \in Over(g), NEW q \in Plugins, Level[p] < Level[q] PROVE q \in Over(g)
  BY <1>2, <1>3, <1>4 DEF Over
<1>5. Over(g) \subseteq Plugins
  BY DEF Over
<1>. QED  BY <1>1, <1>2, <1>4, <1>5 DEF Closed

(* A call that stays within A stays within any larger set.                 *)
LEMMA WithinMore ==
  ASSUME NEW f, NEW A, NEW B, A \subseteq B, Within(f, A)
  PROVE  Within(f, B)
BY DEF Within, Of

(* A record that exists has a plugin.                                      *)
LEMMA RecordPlugin ==
  ASSUME TypeOK, NEW r, Live(r)
  PROVE  r \in RecIds /\ recs[r].plugin \in Plugins
<1>1. r \in RecIds /\ recs[r] \in LoadRecord
  BY LiveRecord
<1>. QED  BY <1>1 DEF LoadRecord

(* Nothing that a call on the stack waits for is the call's own plugin.    *)
LEMMA NotOver ==
  ASSUME TypeOK, Layered, NEW g, g.op \in {"arm", "apply", "stop"}, Live(g.rec)
  PROVE  recs[g.rec].plugin \notin Over(g)
<1>1. recs[g.rec].plugin \in Plugins /\ Level[recs[g.rec].plugin] \in Nat
  BY RecordPlugin DEF Layered
<1>2. recs[g.rec].plugin \in Bases(g)
  BY <1>1 DEF Bases
<1>. QED  BY <1>1, <1>2 DEF Over

(* A step brings back no record that is gone and changes no record's       *)
(* plugin.                                                                 *)
PluginsKept ==
  \A r \in UsedRecs : Live(r)' => Live(r) /\ recs'[r].plugin = recs[r].plugin

(* A step leaves alone what the waiting call f relies on: the record it    *)
(* works on, the services its apply() was given, the loss it is            *)
(* announcing, and the scope it tears down, which gets no new record and   *)
(* no new service.                                                         *)
Undisturbed(f) ==
  /\ f.op \in {"apply", "stop"} =>
       /\ Live(f.rec)' /\ recs'[f.rec].state = recs[f.rec].state
       /\ recs'[f.rec].scope = recs[f.rec].scope /\ recs'[f.rec].inst = recs[f.rec].inst
  /\ f.op = "apply" =>
       \A s \in Required(f.rec) : services[s] # NoScope => services'[s] # NoScope
  /\ f.op = "fire" /\ ~f.val =>
       \A w \in f.todo : services[w.svc] = NoScope => services'[w.svc] = NoScope
  /\ f.op \in {"dtor", "revoke"} =>
       /\ Exists(f.scope)'
       /\ ToSet(scopes'[f.scope].records) \subseteq ToSet(scopes[f.scope].records)
       /\ \A s \in Services : services'[s] = f.scope => services[s] = f.scope

(* Then a record stays within the plugins it was in ...                    *)
LEMMA OfKept ==
  ASSUME PluginsKept, NEW r \in UsedRecs, NEW A, Of(r, A)
  PROVE  Of(r, A)'
BY DEF PluginsKept, Of

(* ... and so does the rest of a waiting call ...                          *)
LEMMA WithinKept ==
  ASSUME TypeOK, ListsRight, PluginsKept, NEW f \in Known \cap Good, Undisturbed(f),
         NEW A, Within(f, A)
  PROVE  Within(f, A)'
<1>1. f.rec \in UsedRecs /\ \A w \in f.todo : w.rec \in UsedRecs
  BY DEF Known
<1>2. ASSUME f.op \in {"dtor", "revoke"}, NEW r \in ToSet(scopes'[f.scope].records) PROVE Of(r, A)'
  <2>1. r \in ToSet(scopes[f.scope].records) /\ Exists(f.scope) /\ f.scope \in ScopeIds
    BY <1>2 DEF Undisturbed, Good, Exists
  <2>2. PICK k \in DOMAIN scopes[f.scope].records : scopes[f.scope].records[k] = r
    BY <2>1 DEF ToSet
  <2>3. Live(r)
    BY <2>1, <2>2 DEF ListsRight, ListRight
  <2>4. r \in UsedRecs /\ Of(r, A)
    BY <1>2, <2>1, <2>3, LiveKnown DEF Within
  <2>. QED  BY <2>4, OfKept
<1>3. f.op \in {"arm", "apply", "stop", "erase"} => Of(f.rec, A)'
  BY <1>1, OfKept DEF Within
<1>4. ASSUME f.op \in {"fire", "callback"}, NEW w \in f.todo
      PROVE  Of(w.rec, A)' /\ (w.rec = NoRec /\ ~f.val => Fallback[w.svc] \cup Retire[w.svc] \subseteq A)
  BY <1>1, <1>4, OfKept DEF Within
<1>5. f.op \in {"dtor", "revoke"} => \A s \in Services : services'[s] = f.scope => Hears(s) \subseteq A
  BY DEF Within, Undisturbed
<1>. QED  BY <1>2, <1>3, <1>4, <1>5 DEF Within

(* ... the plugins above a waiting call only get more ...                  *)
LEMMA OverKept ==
  ASSUME PluginsKept, NEW g \in Known
  PROVE  Over(g) \subseteq Over(g)'
<1>1. g.rec \in UsedRecs
  BY DEF Known
<1>2. Bases(g)' \subseteq Bases(g)
  BY <1>1 DEF Bases, PluginsKept
<1>. QED  BY <1>2 DEF Over

(* ... two waiting calls stay apart ...                                    *)
LEMMA PairKept ==
  ASSUME TypeOK, ListsRight, PluginsKept, NEW f \in Known \cap Good, NEW g \in Known,
         Undisturbed(f), <<f, g>> \in ApartPairs
  PROVE  <<f, g>> \in ApartPairs'
<1>1. Apart(f, g) /\ f \in Frame /\ g \in Frame
  BY DEF ApartPairs
<1>2. PICK A : A = Over(g)
  OBVIOUS
<1>3. Within(f, A) => Within(f, A)'
  BY WithinKept
<1>4. A \subseteq Over(g)'
  BY <1>2, OverKept
<1>5. PICK B : B = Over(g)'
  OBVIOUS
<1>6. Within(f, A)' => Within(f, B)'
  BY <1>4, <1>5 DEF Within, Of
<1>7. Apart(f, g)'
  BY <1>1, <1>2, <1>3, <1>5, <1>6 DEF Apart, Arming
<1>. QED  BY <1>1, <1>7 DEF ApartPairs

(* ... and a waiting call can still rely on what it relied on.             *)
LEMMA GoodKept ==
  ASSUME PluginsKept, NEW f \in Known \cap Good, Undisturbed(f)
  PROVE  f \in Good'
<1>1. f \in Frame /\ f.rec \in UsedRecs /\ \A w \in f.todo : w.rec \in UsedRecs
  BY DEF Known
<1>2. \A r \in UsedRecs : Live(r)' => Live(r) /\ Required(r)' = Required(r)
  BY DEF PluginsKept, Required
<1>3. f.op = "apply" =>
          /\ Live(f.rec)' /\ recs'[f.rec].scope = f.scope /\ f.scope # NoScope /\ HasAll(f.rec)'
          /\ recs'[f.rec].inst = IF HasInstance(recs'[f.rec].plugin) THEN 1 ELSE 0
  <2>1. SUFFICES ASSUME f.op = "apply"
                 PROVE  /\ Live(f.rec)' /\ recs'[f.rec].scope = f.scope /\ f.scope # NoScope /\ HasAll(f.rec)'
                        /\ recs'[f.rec].inst = IF HasInstance(recs'[f.rec].plugin) THEN 1 ELSE 0
    OBVIOUS
  <2>2. Live(f.rec)' /\ recs'[f.rec].plugin = recs[f.rec].plugin
    BY <1>1, <2>1 DEF Undisturbed, PluginsKept
  <2>3. HasAll(f.rec)'
    BY <1>1, <1>2, <2>1, <2>2 DEF Undisturbed, Good, HasAll
  <2>. QED  BY <2>1, <2>2, <2>3 DEF Undisturbed, Good
<1>4. f.op = "stop" => Live(f.rec)' /\ recs'[f.rec].state # "Active"
  BY DEF Good, Undisturbed
<1>5. f.op \in {"dtor", "revoke"} => Exists(f.scope)'
  BY DEF Good, Undisturbed
<1>6. f.op = "fire" /\ ~f.val => \A w \in f.todo : services'[w.svc] = NoScope
  BY DEF Good, Undisturbed
<1>7. f.op = "callback" => \A w \in f.todo : w.rec = NoRec
  BY DEF Good
<1>8. \A w \in f.todo : HeardRight(w)' /\ \A v \in f.todo : v.svc = w.svc
  BY <1>1, <1>2 DEF Good, HeardRight
<1>. QED  BY <1>1, <1>3, <1>4, <1>5, <1>6, <1>7, <1>8 DEF Good

(* The calls that a step leaves waiting.                                   *)
LEMMA NestedKept ==
  ASSUME TypeOK, ListsRight, PluginsKept, NEW q \in Seq(Known), Nested(q),
         \A i \in DOMAIN q : Undisturbed(q[i])
  PROVE  Nested(q)' /\ q \in Seq(Good') /\ Sorted(q, ApartPairs')
<1>1. \A i \in DOMAIN q : q[i] \in Known \cap Good
  BY DEF Nested
<1>2. \A i \in DOMAIN q : q[i] \in Good'
  BY <1>1, GoodKept
<1>3. q \in Seq(Good')
  BY <1>2
<1>4. \A i, j \in DOMAIN q : i < j => <<q[i], q[j]>> \in ApartPairs'
  BY <1>1, PairKept DEF Nested, Sorted
<1>. QED  BY <1>3, <1>4 DEF Nested, Sorted

(* A call that went on with other locals.                                  *)
Later(f, e) ==
  /\ f.op = e.op /\ f.rec = e.rec /\ f.scope = e.scope
  /\ f.op \in {"fire", "callback"} => f.val = e.val /\ f.todo \subseteq e.todo
  /\ \A w \in f.todo : HeardRight(w) /\ \A v \in f.todo : v.svc = w.svc

(* A call that went on is as good, and as far apart from the others, as    *)
(* before.                                                                 *)
LEMMA LaterRight ==
  ASSUME NEW e \in Good, NEW f \in Frame, Later(f, e)
  PROVE  /\ f \in Good
         /\ \A g : <<e, g>> \in ApartPairs => <<f, g>> \in ApartPairs
         /\ \A g : <<g, e>> \in ApartPairs => <<g, f>> \in ApartPairs
         /\ Over(e) \subseteq Over(f)
<1>1. f \in Good
  BY DEF Later, Good
<1>2. \A A : Within(e, A) => Within(f, A)
  BY DEF Within, Later
<1>3. Bases(f) \subseteq Bases(e)
  BY DEF Bases, Later
<1>4. Over(e) \subseteq Over(f)
  BY <1>3 DEF Over
<1>5. ASSUME NEW g, <<e, g>> \in ApartPairs PROVE <<f, g>> \in ApartPairs
  <2>1. Apart(e, g) /\ g \in Frame
    BY <1>5 DEF ApartPairs
  <2>2. Apart(f, g)
    BY <1>2, <2>1 DEF Apart, Arming, Later
  <2>. QED  BY <2>1, <2>2 DEF ApartPairs
<1>6. ASSUME NEW g, <<g, e>> \in ApartPairs PROVE <<g, f>> \in ApartPairs
  <2>1. Apart(g, e) /\ g \in Frame
    BY <1>6 DEF ApartPairs
  <2>2. Within(g, Over(e)) => Within(g, Over(f))
    BY <1>4, WithinMore
  <2>3. Apart(g, f)
    BY <2>1, <2>2 DEF Apart, Arming, Later
  <2>. QED  BY <2>1, <2>3 DEF ApartPairs
<1>. QED  BY <1>1, <1>4, <1>5, <1>6

(* So a stack whose calls went on is still nested.                         *)
LEMMA LaterNested ==
  ASSUME NEW q \in Seq(Frame), Nested(q), NEW p \in Seq(Frame), DOMAIN p = DOMAIN q,
         \A i \in DOMAIN q : Later(p[i], q[i])
  PROVE  Nested(p)
<1>1. \A i \in DOMAIN q : q[i] \in Good /\ p[i] \in Frame
  BY DEF Nested
<1>2. \A i \in DOMAIN p : p[i] \in Good
  BY <1>1, LaterRight
<1>3. ASSUME NEW i \in DOMAIN p, NEW j \in DOMAIN p, i < j PROVE <<p[i], p[j]>> \in ApartPairs
  <2>1. <<q[i], q[j]>> \in ApartPairs
    BY <1>3 DEF Nested, Sorted
  <2>2. <<p[i], q[j]>> \in ApartPairs
    BY <1>1, <1>3, <2>1, LaterRight
  <2>. QED  BY <1>1, <1>3, <2>2, LaterRight
<1>. QED  BY <1>2, <1>3 DEF Nested, Sorted

(* What ensureStarted() does to the record and the scope it opens ...      *)
StartEffect(r, sc, rest) ==
  /\ CanStart(r)
  /\ sc \in ScopeIds /\ sc \notin UsedScopes /\ ~Exists(sc)
  /\ recs'[r] \in LoadRecord /\ Live(r)'
  /\ recs'[r].plugin = recs[r].plugin /\ recs'[r].host = recs[r].host
  /\ recs'[r].tokens = recs[r].tokens /\ recs'[r].lib = recs[r].lib
  /\ recs'[r].state = "Active" /\ recs'[r].scope = sc
  /\ recs'[r].uses = Injected(r)
  /\ recs'[r].inst = IF HasInstance(recs[r].plugin) THEN 1 ELSE 0
  /\ \A q \in RecIds \ {r} : recs'[q] = recs[q]
  /\ Exists(sc)' /\ scopes'[sc] = NewScope
  /\ \A s \in ScopeIds \ {sc} : scopes'[s] = scopes[s]
  /\ stack' = <<Call("apply", r, sc)>> \o rest

(* ensureStarted() does nothing, or opens a scope and calls apply() in it. *)
LEMMA StartEffects ==
  ASSUME TypeOK, TypeOK', NEW r, Live(r), NEW rest, EnsureStarted(r, rest)
  PROVE  \/ ~CanStart(r) /\ Return(rest)
         \/ \E sc \in ScopeIds : StartEffect(r, sc, rest)
<1>1. CASE ~CanStart(r)
  BY <1>1 DEF EnsureStarted
<1>2. CASE CanStart(r)
  <2>1. PICK sc \in ScopeIds :
          /\ IsFresh(sc, ScopeIds, UsedScopes)
          /\ recs' = [recs EXCEPT ![r] = Started(r, sc)]
          /\ scopes' = [scopes EXCEPT ![sc] = NewScope]
          /\ stack' = <<Call("apply", r, sc)>> \o rest
    BY <1>2 DEF EnsureStarted
  <2>2. r \in RecIds /\ recs[r] \in LoadRecord /\ recs \in [RecIds -> LoadRecord \cup {NoRec}]
        /\ scopes \in [ScopeIds -> Scope \cup {Gone}]
    BY LiveRecord DEF TypeOK
  <2>3. ~Exists(sc) /\ sc \notin UsedScopes
    BY <2>1, LiveKnown DEF IsFresh
  <2>4. /\ \A q \in RecIds \ {r} : recs'[q] = recs[q]
        /\ \A s \in ScopeIds \ {sc} : scopes'[s] = scopes[s]
        /\ scopes'[sc] = NewScope /\ recs'[r] = Started(r, sc)
    BY <2>1, <2>2
  <2>5. Started(r, sc) \in LoadRecord
    BY <2>2, InjectedType DEF Started, LoadRecord, States
  <2>6. /\ Started(r, sc).host = recs[r].host /\ Started(r, sc).state = "Active"
        /\ Started(r, sc).lib = recs[r].lib /\ Started(r, sc).plugin = recs[r].plugin
        /\ Started(r, sc).tokens = recs[r].tokens /\ Started(r, sc).scope = sc
        /\ Started(r, sc).uses = Injected(r)
        /\ Started(r, sc).inst = IF HasInstance(recs[r].plugin) THEN 1 ELSE 0
    BY <2>2 DEF Started, LoadRecord
  <2>7. Live(r)'
    BY <2>2, <2>4, <2>5, NullAssumption DEF Live
  <2>8. Exists(sc)'
    <3>1. NewScope \in Scope
      BY DEF NewScope, Scope
    <3>. QED  BY <2>4, <3>1, NullAssumption DEF Exists
  <2>9. StartEffect(r, sc, rest)
    BY <1>2, <2>1, <2>3, <2>4, <2>5, <2>6, <2>7, <2>8 DEF StartEffect
  <2>. QED  BY <2>9
<1>. QED  BY <1>1, <1>2

(* ... what stopRecord() does up to the destructor it calls ...            *)
DtorCall(sc) == [Call("dtor", NoRec, sc) EXCEPT !.ix = Len(scopes[sc].records)]

(* The record is out of service, and its scope, which has dropped its      *)
(* token, is being destroyed; then the call returns here.                  *)
StopShape(r, target, rest) ==
  /\ MustStop(r)
  /\ Live(r)'
  /\ recs'[r].plugin = recs[r].plugin /\ recs'[r].host = recs[r].host
  /\ recs'[r].tokens = recs[r].tokens /\ recs'[r].lib = recs[r].lib
  /\ recs'[r].uses = recs[r].uses /\ recs'[r].inst = recs[r].inst
  /\ recs'[r].state = target /\ recs'[r].scope = NoScope
  /\ \A q \in RecIds \ {r} : recs'[q] = recs[q]
  /\ \A s \in ScopeIds :
       /\ Exists(s)' = Exists(s)
       /\ Exists(s) => /\ scopes'[s].records = scopes[s].records
                       /\ scopes'[s].provided = scopes[s].provided
                       /\ scopes'[s].retired = scopes[s].retired
       /\ s # recs[r].scope => scopes'[s] = scopes[s]
  /\ IF recs[r].scope = NoScope
     THEN stack' = <<Call("stop", r, NoScope)>> \o rest
     ELSE /\ Exists(recs[r].scope) /\ ~scopes'[recs[r].scope].alive
          /\ stack' = <<DtorCall(recs[r].scope)>> \o (<<Call("stop", r, NoScope)>> \o rest)

(* The calls that stopRecord() and ensureStarted() make.                   *)
LEMMA CallFrames ==
  ASSUME TypeOK, NEW r \in RecIds
  PROVE  /\ Call("stop", r, NoScope) \in Frame
         /\ \A sc \in ScopeIds : Call("apply", r, sc) \in Frame
         /\ \A sc \in ScopeIds : Exists(sc) =>
              /\ DtorCall(sc) \in Frame
              /\ DtorCall(sc).op = "dtor" /\ DtorCall(sc).scope = sc /\ DtorCall(sc).todo = {}
              /\ DtorCall(sc).rec = NoRec /\ ~DtorCall(sc).val /\ DtorCall(sc).ix = Len(scopes[sc].records)
<1>1. Call("stop", r, NoScope) \in Frame /\ \A sc \in ScopeIds : Call("apply", r, sc) \in Frame
  BY CallType DEF Ops
<1>2. ASSUME NEW sc \in ScopeIds, Exists(sc)
      PROVE  /\ DtorCall(sc) \in Frame
             /\ DtorCall(sc).op = "dtor" /\ DtorCall(sc).scope = sc /\ DtorCall(sc).todo = {}
             /\ DtorCall(sc).rec = NoRec /\ ~DtorCall(sc).val /\ DtorCall(sc).ix = Len(scopes[sc].records)
  <2>1. Len(scopes[sc].records) \in Nat
    BY <1>2, ExistingScope DEF Scope
  <2>2. Call("dtor", NoRec, sc) \in Frame
    BY CallType DEF Ops
  <2>. QED  BY <2>1, <2>2 DEF DtorCall, Call, Frame
<1>. QED  BY <1>1, <1>2

(* stopRecord() does nothing, or takes the record out of service and       *)
(* destroys its scope.                                                     *)
LEMMA StopShapes ==
  ASSUME TypeOK, ListsRight, NEW r, Live(r), NEW target \in {"Deferred", "Failed", "Disposed"},
         NEW rest \in Seq(Frame), StopRecord(r, target, rest)
  PROVE  \/ ~MustStop(r) /\ Return(rest)
         \/ StopShape(r, target, rest)
<1>1. CASE ~MustStop(r)
  BY <1>1 DEF StopRecord
<1>2. CASE MustStop(r)
  <2>1. StopEffect(r, target)
    BY <1>2, StopTreeKept
  <2>2. r \in RecIds /\ recs[r] \in LoadRecord /\ recs \in [RecIds -> LoadRecord \cup {NoRec}]
        /\ scopes \in [ScopeIds -> Scope \cup {Gone}]
    BY LiveRecord DEF TypeOK
  <2>3. recs' = [recs EXCEPT ![r] = Stopped(r, target)]
    BY <1>2 DEF StopRecord
  <2>4. recs'[r] = Stopped(r, target)
    BY <2>2, <2>3
  <2>5. /\ Stopped(r, target).tokens = recs[r].tokens /\ Stopped(r, target).scope = NoScope
        /\ Stopped(r, target).uses = recs[r].uses /\ Stopped(r, target).inst = recs[r].inst
    BY <2>2 DEF Stopped, LoadRecord
  <2>6. CASE recs[r].scope = NoScope
    <3>1. UNCHANGED scopes /\ stack' = <<Call("stop", r, NoScope)>> \o rest
      BY <1>2, <2>6 DEF StopRecord
    <3>. QED  BY <1>2, <2>1, <2>4, <2>5, <2>6, <3>1 DEF StopShape, StopEffect
  <2>7. CASE recs[r].scope # NoScope
    <3>1. PICK sc : sc = recs[r].scope
      OBVIOUS
    <3>2. /\ Exists(sc) /\ scopes' = [scopes EXCEPT ![sc].alive = FALSE]
          /\ stack' = <<DtorCall(sc), Call("stop", r, NoScope)>> \o rest
      BY <1>2, <2>7, <3>1 DEF StopRecord, DtorCall
    <3>3. sc \in ScopeIds /\ scopes[sc] \in Scope
      BY <3>2, ExistingScope
    <3>4. scopes'[sc] = [scopes[sc] EXCEPT !.alive = FALSE] /\ \A s \in ScopeIds : s # sc => scopes'[s] = scopes[s]
      BY <2>2, <3>2, <3>3
    <3>5. ~scopes'[sc].alive
      BY <3>3, <3>4 DEF Scope
    <3>6. DtorCall(sc) \in Frame /\ Call("stop", r, NoScope) \in Frame
      BY <2>2, <3>2, <3>3, CallFrames
    <3>7. stack' = <<DtorCall(sc)>> \o (<<Call("stop", r, NoScope)>> \o rest)
      BY <3>2, <3>6, TwoPushed
    <3>. QED  BY <1>2, <2>1, <2>4, <2>5, <2>7, <3>1, <3>2, <3>4, <3>5, <3>7 DEF StopShape, StopEffect
  <2>. QED  BY <2>6, <2>7
<1>. QED  BY <1>1, <1>2

(* ... and addRecord() before it arms the sentinels.                       *)
ArmCall(r, sc) == [Call("arm", r, sc) EXCEPT !.ix = 1]

(* The new record is in the scope's list, which makes iterators into it    *)
(* invalid.                                                                *)
AddShape(r, sc, p, rest) ==
  /\ r \in RecIds /\ r \notin UsedRecs /\ ~Live(r)
  /\ Live(r)'
  /\ recs'[r].plugin = p /\ recs'[r].host = sc /\ recs'[r].state = "Deferred"
  /\ recs'[r].scope = NoScope /\ recs'[r].inst = 0 /\ recs'[r].uses = {}
  /\ recs'[r].lib = (Form[p] = "dynamic")
  /\ \A q \in RecIds \ {r} : recs'[q] = recs[q]
  /\ \A s \in ScopeIds \ {sc} : scopes'[s] = scopes[s]
  /\ Exists(sc)' /\ scopes'[sc].records = Append(scopes[sc].records, r)
  /\ scopes'[sc].alive = scopes[sc].alive /\ scopes'[sc].provided = scopes[sc].provided
  /\ scopes'[sc].retired = scopes[sc].retired
  /\ ArmCall(r, sc) \in Frame
  /\ stack' = <<ArmCall(r, sc)>> \o Invalidate(rest, sc, 1)
  /\ UNCHANGED <<services, watchers>>

(* addRecord() appends a new record to the scope and goes on to arm it.    *)
LEMMA AddShapes ==
  ASSUME TypeOK, TypeOK', NEW sc, Exists(sc), NEW p \in Plugins, NEW rest,
         AddRecord(sc, p, rest)
  PROVE  \E r \in RecIds : AddShape(r, sc, p, rest)
<1>1. sc \in ScopeIds /\ scopes[sc] \in Scope /\ scopes \in [ScopeIds -> Scope \cup {Gone}]
      /\ recs \in [RecIds -> LoadRecord \cup {NoRec}]
  BY ExistingScope DEF TypeOK
<1>. DEFINE new == [plugin |-> p, host |-> sc, state |-> "Deferred", scope |-> NoScope,
                    tokens |-> {}, inst |-> 0, lib |-> Form[p] = "dynamic", uses |-> {}]
<1>2. PICK r \in RecIds :
        /\ IsFresh(r, RecIds, UsedRecs)
        /\ recs' = [recs EXCEPT ![r] = new]
        /\ scopes' = [scopes EXCEPT ![sc].records = Append(@, r)]
        /\ stack' = <<ArmCall(r, sc)>> \o Invalidate(rest, sc, 1)
        /\ UNCHANGED <<services, watchers>>
  BY DEF AddRecord, ArmCall
<1>3. ~Live(r) /\ r \notin UsedRecs
  BY <1>2, LiveKnown DEF IsFresh
<1>4. /\ recs'[r].plugin = p /\ recs'[r].host = sc /\ recs'[r].state = "Deferred"
      /\ recs'[r].scope = NoScope /\ recs'[r].inst = 0 /\ recs'[r].uses = {}
      /\ recs'[r].lib = (Form[p] = "dynamic")
      /\ recs'[r] \in LoadRecord
      /\ \A q \in RecIds \ {r} : recs'[q] = recs[q]
  <2>1. new.plugin = p /\ new.state = "Deferred" /\ new.host = sc /\ new.scope = NoScope
        /\ new.inst = 0 /\ new.uses = {} /\ new.lib = (Form[p] = "dynamic")
    OBVIOUS
  <2>2. new \in LoadRecord
    BY <1>1 DEF LoadRecord, States
  <2>. HIDE DEF new
  <2>3. recs'[r] = new /\ \A q \in RecIds \ {r} : recs'[q] = recs[q]
    BY <1>1, <1>2
  <2>. QED  BY <2>1, <2>2, <2>3
<1>5. PICK longer : longer = Append(scopes[sc].records, r)
  OBVIOUS
<1>6. scopes' = [scopes EXCEPT ![sc] = [scopes[sc] EXCEPT !.records = longer]]
  BY <1>1, <1>2, <1>5
<1>7. /\ \A s \in ScopeIds \ {sc} : scopes'[s] = scopes[s]
      /\ scopes'[sc].records = longer /\ scopes'[sc].retired = scopes[sc].retired
      /\ scopes'[sc].provided = scopes[sc].provided /\ scopes'[sc].alive = scopes[sc].alive
      /\ scopes'[sc] \in Scope
  <2>1. longer \in Seq(RecIds)
    BY <1>1, <1>5 DEF Scope
  <2>. QED  BY <1>1, <1>6, <2>1 DEF Scope
<1>8. Exists(sc)' /\ Live(r)'
  BY <1>1, <1>4, <1>7, NullAssumption DEF Exists, Live
<1>9. ArmCall(r, sc) \in Frame
  <2>1. Call("arm", r, sc) \in Frame
    BY <1>1, CallType DEF Ops
  <2>. QED  BY <2>1 DEF ArmCall, Call, Frame
<1>10. AddShape(r, sc, p, rest)
  BY <1>2, <1>3, <1>4, <1>5, <1>7, <1>8, <1>9 DEF AddShape
<1>. QED  BY <1>10

(* The scopes that calls of q tear down.                                   *)
Tears(q) == {q[i].scope : i \in {j \in DOMAIN q : q[j].op \in {"dtor", "revoke"}}}

(* The scope that record r owns is alive, lists only plugins that r's      *)
(* plugin loads, provides only services that this plugin can provide, and  *)
(* belongs to no other record.                                             *)
OwnRight(r) ==
  LET sc == recs[r].scope IN
  /\ sc # Root /\ Exists(sc) /\ scopes[sc].alive
  /\ \A x \in ToSet(scopes[sc].records) : Of(x, Loads[recs[r].plugin])
  /\ \A s \in Services : services[s] = sc => Provider(recs[r].plugin, s)
  /\ \A q \in RecIds : Live(q) /\ recs[q].scope = sc => q = r

(* A record is Active exactly while it has a scope; its host scope lists   *)
(* it; the scope it has is its own.                                        *)
Placed(r) ==
  /\ recs[r].state = "Active" <=> recs[r].scope # NoScope
  /\ Exists(recs[r].host) /\ r \in ToSet(scopes[recs[r].host].records)
  /\ recs[r].scope # NoScope => OwnRight(r)

(* A scope that exists belongs to a record or is being torn down.          *)
Held(sc) ==
  sc # Root /\ Exists(sc) =>
    sc \in Tears(stack) \/ \E r \in RecIds : Live(r) /\ recs[r].scope = sc

(* The stack discipline of Context.cpp: records and scopes fit each other, *)
(* sentinels watch required services, and the calls on the stack are       *)
(* nested.                                                                 *)
Layers ==
  /\ \A r \in RecIds : Live(r) => Placed(r)
  /\ \A sc \in ScopeIds : Held(sc)
  /\ \A w \in watchers : HeardRight(w)
  /\ Nested(stack)
  /\ stack # <<>> => Exists(Root)

(* The inductive invariant: what ContextProofs establishes, and Layers.    *)
LayerInv == TreeInv /\ Owned /\ Layers

(* The calls that may wait for one that works on record r.                 *)
RecCallers(r) ==
  {g \in Frame : Of(r, Over(g)) \/ (g.op = "arm" /\ g.rec = r)}

(* The calls that may wait for one that touches the plugins X.             *)
CallersOf(X) == {g \in Frame : X \subseteq Over(g)}

(* A call that is entered tears down its own scope, if any, besides those  *)
(* torn down before.                                                       *)
LEMMA TearsPushed ==
  ASSUME NEW S, NEW q \in Seq(S), NEW x \in S
  PROVE  /\ x.op \in {"dtor", "revoke"} => Tears(<<x>> \o q) = Tears(q) \cup {x.scope}
         /\ x.op \notin {"dtor", "revoke"} => Tears(<<x>> \o q) = Tears(q)
         /\ Tears(q) \subseteq Tears(<<x>> \o q)
<1>. DEFINE p == <<x>> \o q
<1>1. /\ p[1] = x /\ 1 \in DOMAIN p
      /\ \A i \in DOMAIN q : i + 1 \in DOMAIN p /\ p[i + 1] = q[i]
      /\ \A i \in DOMAIN p : i = 1 \/ (i - 1 \in DOMAIN q /\ p[i] = q[i - 1])
  BY PushedPositions
<1>. HIDE DEF p
<1>2. Tears(q) \subseteq Tears(p)
  BY <1>1 DEF Tears
<1>3. x.op \in {"dtor", "revoke"} => x.scope \in Tears(p)
  BY <1>1 DEF Tears
<1>4. ASSUME NEW sc \in Tears(p) PROVE sc \in Tears(q) \/ (x.op \in {"dtor", "revoke"} /\ sc = x.scope)
  <2>1. PICK i \in DOMAIN p : p[i].op \in {"dtor", "revoke"} /\ sc = p[i].scope
    BY <1>4 DEF Tears
  <2>. QED  BY <1>1, <2>1 DEF Tears
<1>. QED  BY <1>2, <1>3, <1>4 DEF p

(* Marking iterators invalid changes no scope that is torn down.           *)
LEMMA TearsMarked ==
  ASSUME NEW q \in Seq(Frame), NEW sc, NEW n \in Nat
  PROVE  Tears(Invalidate(q, sc, n)) = Tears(q)
<1>. DEFINE p == Invalidate(q, sc, n)
<1>1. MarkedFrom(q, p, sc, n)
  BY InvalidateSame
<1>. HIDE DEF p
<1>2. DOMAIN p = DOMAIN q /\ \A i \in DOMAIN q : p[i].op = q[i].op /\ p[i].scope = q[i].scope
  BY <1>1 DEF MarkedFrom
<1>. QED  BY <1>2 DEF Tears, p

(* The scopes being torn down, as the invariants count them.               *)
LEMMA TearsSame ==
  ASSUME NEW sc
  PROVE  TearingDown(sc) <=> sc \in Tears(stack)
BY DEF TearingDown, Tears

(* Nor does it change what the calls concern.                              *)
LEMMA MarkedNested ==
  ASSUME NEW q \in Seq(Known), Nested(q), NEW sc, NEW n \in Nat
  PROVE  /\ Invalidate(q, sc, n) \in Seq(Known) /\ Nested(Invalidate(q, sc, n))
         /\ \A A : q \in Seq(CallersOf(A)) => Invalidate(q, sc, n) \in Seq(CallersOf(A))
<1>. DEFINE p == Invalidate(q, sc, n)
<1>1. q \in Seq(Frame)
  BY LargerSeq DEF Known
<1>2. MarkedFrom(q, p, sc, n)
  BY <1>1, InvalidateSame
<1>. HIDE DEF p
<1>3. /\ p \in Seq(Frame) /\ DOMAIN p = DOMAIN q
      /\ \A i \in DOMAIN q :
           /\ p[i].op = q[i].op /\ p[i].scope = q[i].scope /\ p[i].rec = q[i].rec /\ p[i].todo = q[i].todo
           /\ p[i].op # "erase" => p[i] = q[i]
  BY <1>2 DEF MarkedFrom
<1>4. \A i \in DOMAIN q : q[i] \in Good
  BY DEF Nested
<1>5. \A i \in DOMAIN q : Later(p[i], q[i])
  BY <1>3, <1>4 DEF Later, Good
<1>6. Nested(p)
  BY <1>1, <1>3, <1>5, LaterNested
<1>7. \A i \in DOMAIN p : p[i] \in Known
  BY <1>3 DEF Known
<1>8. ASSUME NEW A, q \in Seq(CallersOf(A)) PROVE p \in Seq(CallersOf(A))
  <2>1. ASSUME NEW i \in DOMAIN p PROVE p[i] \in CallersOf(A)
    <3>1. q[i] \in CallersOf(A) /\ Over(q[i]) \subseteq Over(p[i])
      BY <1>3, <1>4, <1>5, <1>8, LaterRight
    <3>. QED  BY <1>3, <3>1 DEF CallersOf
  <2>. QED  BY <1>3, <2>1
<1>9. p \in Seq(Known)
  BY <1>3, <1>7
<1>. QED  BY <1>6, <1>8, <1>9 DEF p

(* A call enters above calls that it is apart from.                        *)
LEMMA EnteredNested ==
  ASSUME NEW q \in Seq(Good'), Sorted(q, ApartPairs'), NEW x \in Good',
         \A j \in DOMAIN q : <<x, q[j]>> \in ApartPairs'
  PROVE  <<x>> \o q \in Seq(Good') /\ Sorted(<<x>> \o q, ApartPairs')
<1>1. Sorted(<<x>> \o q, ApartPairs')
  BY SortedPush
<1>. QED  BY <1>1, PushedPositions

(* A record stays placed if its own fields stay and its scope gets nothing *)
(* that is not its plugin's to load or provide.                            *)
LEMMA PlacedKept ==
  ASSUME PluginsKept, NEW q \in RecIds, Live(q), Placed(q),
         recs'[q].plugin = recs[q].plugin, recs'[q].host = recs[q].host,
         recs'[q].state = recs[q].state, recs'[q].scope = recs[q].scope,
         Exists(recs[q].host)', q \in ToSet(scopes'[recs[q].host].records),
         recs[q].scope # NoScope =>
           /\ Exists(recs[q].scope)' /\ scopes'[recs[q].scope].alive
           /\ \A x \in ToSet(scopes'[recs[q].scope].records) :
                \/ x \in ToSet(scopes[recs[q].scope].records) /\ x \in UsedRecs
                \/ Of(x, Loads[recs[q].plugin])'
           /\ \A s \in Services : services'[s] = recs[q].scope =>
                services[s] = recs[q].scope \/ Provider(recs[q].plugin, s)
           /\ \A x \in RecIds : Live(x)' /\ recs'[x].scope = recs[q].scope =>
                x = q \/ (Live(x) /\ recs[x].scope = recs[q].scope)
  PROVE  Placed(q)'
<1>1. SUFFICES ASSUME recs[q].scope # NoScope PROVE OwnRight(q)'
  BY DEF Placed
<1>2. OwnRight(q)
  BY <1>1 DEF Placed
<1>3. \A x \in ToSet(scopes'[recs[q].scope].records) : Of(x, Loads[recs[q].plugin])'
  BY <1>1, <1>2, OfKept DEF OwnRight
<1>. QED  BY <1>1, <1>2, <1>3 DEF OwnRight, Provider

(* A watcher goes on watching a required service.                          *)
LEMMA HeardKept ==
  ASSUME PluginsKept, NEW w, w.rec \in UsedRecs, HeardRight(w)
  PROVE  HeardRight(w)'
BY DEF PluginsKept, HeardRight, Required

(* Records of an existing scope are in use.                                *)
LEMMA ListedKnown ==
  ASSUME ListsRight, NEW sc \in ScopeIds, Exists(sc), NEW x \in ToSet(scopes[sc].records)
  PROVE  x \in UsedRecs /\ Live(x) /\ recs[x].host = sc
<1>1. PICK k \in DOMAIN scopes[sc].records : scopes[sc].records[k] = x
  BY DEF ToSet
<1>2. Live(x) /\ recs[x].host = sc
  BY <1>1 DEF ListsRight, ListRight
<1>. QED  BY <1>2, LiveKnown

(* A call that turns out to do nothing.                                    *)
LEMMA ReturnLayers ==
  ASSUME LayerInv, NEW rest \in Seq(Known), Nested(rest), Tears(stack) \subseteq Tears(rest),
         UNCHANGED services, \A w \in watchers' : w \in watchers \/ (w.rec \in UsedRecs /\ HeardRight(w)),
         Exists(Root), Return(rest)
  PROVE  Layers'
<1>1. TypeOK /\ ListsRight /\ Layers
  BY DEF LayerInv, TreeInv
<1>2. stack' = rest /\ UNCHANGED <<recs, scopes, services>>
  BY DEF Return
<1>3. PluginsKept
  BY <1>2 DEF PluginsKept, Live
<1>4. \A i \in DOMAIN rest : Undisturbed(rest[i])
  <2>1. SUFFICES ASSUME NEW i \in DOMAIN rest PROVE Undisturbed(rest[i])
    OBVIOUS
  <2>2. rest[i] \in Good
    BY DEF Nested
  <2>. QED  BY <1>2, <2>2 DEF Undisturbed, Good, Live, Exists
<1>5. Nested(stack)'
  <2>1. rest \in Seq(Good') /\ Sorted(rest, ApartPairs')
    BY <1>1, <1>3, <1>4, NestedKept
  <2>. QED  BY <1>2, <2>1 DEF Nested
<1>6. \A w \in watchers' : HeardRight(w)'
  BY <1>1, <1>3, LiveKnown, HeardKept DEF Layers
<1>7. \A q \in RecIds : Live(q)' => Placed(q)'
  BY <1>1, <1>2 DEF Layers, Placed, OwnRight, Live, Exists, Of
<1>8. \A sc \in ScopeIds : Held(sc)'
  BY <1>1, <1>2 DEF Layers, Held, Live, Exists
<1>9. Exists(Root)'
  BY <1>2 DEF Exists
<1>. QED  BY <1>5, <1>6, <1>7, <1>8, <1>9 DEF Layers

(* A call that waits for work on r does not itself run or stop r.          *)
LEMMA CallersApart ==
  ASSUME TypeOK, Layered, NEW r, Live(r), NEW g \in RecCallers(r)
  PROVE  /\ g.op \in {"apply", "stop"} => g.rec # r
         /\ Of(r, Over(g)) \/ (g.op = "arm" /\ g.rec = r)
<1>1. g.op \in {"apply", "stop"} => g.rec # r
  BY NotOver DEF RecCallers, Of
<1>. QED  BY <1>1 DEF RecCallers

(* ensureStarted() preserves Layers: the new scope belongs to the record   *)
(* and is still empty, and apply() is entered above calls that do not      *)
(* touch the record.                                                       *)
LEMMA StartLayers ==
  ASSUME LayerInv, Layered, TypeOK', NEW r, Live(r), NEW sc \in ScopeIds,
         NEW rest \in Seq(Known \cap RecCallers(r)), StartEffect(r, sc, rest),
         Nested(rest), Tears(stack) \subseteq Tears(rest), UNCHANGED services,
         \A w \in watchers' : w \in watchers \/ (w.rec \in UsedRecs /\ HeardRight(w)),
         Exists(Root)
  PROVE  Layers'
<1>1. TypeOK /\ ListsRight /\ Layers /\ Owned
  BY DEF LayerInv, TreeInv
<1>2. /\ r \in RecIds /\ recs[r].plugin \in Plugins /\ recs[r].state \in {"Deferred"} /\ RequiresMet(r)
      /\ sc \notin UsedScopes /\ ~Exists(sc) /\ Live(r)'
      /\ recs'[r].plugin = recs[r].plugin /\ recs'[r].host = recs[r].host
      /\ recs'[r].state = "Active" /\ recs'[r].scope = sc
      /\ recs'[r].inst = IF HasInstance(recs[r].plugin) THEN 1 ELSE 0
      /\ \A q \in RecIds \ {r} : recs'[q] = recs[q]
      /\ Exists(sc)' /\ scopes'[sc] = NewScope
      /\ \A s \in ScopeIds \ {sc} : scopes'[s] = scopes[s]
      /\ stack' = <<Call("apply", r, sc)>> \o rest
  BY <1>1, RecordPlugin DEF StartEffect, CanStart
<1>3. \A q \in RecIds \ {r} : Live(q)' <=> Live(q)
  BY <1>2 DEF Live
<1>4. PluginsKept
  BY <1>2, <1>3 DEF PluginsKept, Live
<1>5. \A s \in ScopeIds : Exists(s) => s # sc /\ Exists(s)' /\ scopes'[s] = scopes[s]
  BY <1>2 DEF Exists
<1>6. Root # sc /\ sc # NoScope
  BY <1>2, <1>5, RegistryAssumption, ContextAssumption
<1>7. \A s \in Services : services[s] # sc
  BY <1>2, <1>6, <1>1 DEF Owned
<1>8. \A i \in DOMAIN rest : rest[i] \in Known \cap RecCallers(r) /\ rest[i] \in Good
  BY DEF Nested
<1>9. \A i \in DOMAIN rest : Undisturbed(rest[i])
  <2>1. SUFFICES ASSUME NEW i \in DOMAIN rest PROVE Undisturbed(rest[i])
    OBVIOUS
  <2>2. rest[i] \in Good /\ rest[i].scope # sc
    BY <1>2, <1>8 DEF Known
  <2>3. rest[i].op \in {"apply", "stop"} => rest[i].rec # r
    BY <1>1, <1>8, CallersApart
  <2>4. rest[i].op \in {"apply", "stop"} => rest[i].rec \in RecIds \ {r} /\ Live(rest[i].rec)
    BY <2>2, <2>3 DEF Good, Live
  <2>5. rest[i].op \in {"dtor", "revoke"} => Exists(rest[i].scope) /\ rest[i].scope \in ScopeIds
    BY <2>2 DEF Good, Exists
  <2>. QED  BY <1>2, <1>3, <1>5, <2>2, <2>4, <2>5 DEF Undisturbed
<1>10. rest \in Seq(Good') /\ Sorted(rest, ApartPairs')
  <2>1. rest \in Seq(Known)
    BY LargerSeq
  <2>. QED  BY <1>1, <1>4, <1>9, <2>1, NestedKept
<1>. DEFINE x == Call("apply", r, sc)
<1>11. x \in Frame /\ x.op = "apply" /\ x.rec = r /\ x.scope = sc /\ x.todo = {}
  BY <1>1, <1>2, CallFrames DEF Call
<1>. HIDE DEF x
<1>12. x \in Good'
  <2>1. HasAll(r)'
    <3>1. \A s \in Required(r) : services[s] # NoScope
      BY <1>2 DEF RequiresMet, Available
    <3>. QED  BY <1>2, <3>1 DEF HasAll, Required
  <2>. QED  BY <1>2, <1>6, <1>11, <2>1 DEF Good
<1>13. ASSUME NEW j \in DOMAIN rest PROVE <<x, rest[j]>> \in ApartPairs'
  <2>1. rest[j] \in Frame /\ rest[j] \in Known
    BY <1>8 DEF Known
  <2>2. Over(rest[j]) \subseteq Over(rest[j])'
    BY <1>4, <2>1, OverKept
  <2>3. Of(r, Over(rest[j])) => Within(x, Over(rest[j]))'
    BY <1>2, <1>11, <2>2 DEF Within, Of
  <2>4. Apart(x, rest[j])'
    BY <1>8, <1>11, <2>3 DEF RecCallers, Apart, Arming
  <2>. QED  BY <1>11, <2>1, <2>4 DEF ApartPairs
<1>14. Nested(stack)'
  <2>1. <<x>> \o rest \in Seq(Good') /\ Sorted(<<x>> \o rest, ApartPairs')
    BY <1>10, <1>12, <1>13, EnteredNested
  <2>. QED  BY <1>2, <2>1 DEF Nested, x
<1>15. \A w \in watchers' : HeardRight(w)'
  BY <1>1, <1>4, LiveKnown, HeardKept DEF Layers
<1>16. ASSUME NEW q \in RecIds, Live(q)', q # r PROVE Placed(q)'
  <2>1. Live(q) /\ Placed(q) /\ recs'[q] = recs[q]
    BY <1>1, <1>2, <1>3, <1>16 DEF Layers
  <2>2. recs[q].host \in ScopeIds /\ Exists(recs[q].host) /\ q \in ToSet(scopes[recs[q].host].records)
    BY <2>1 DEF Placed, Exists
  <2>3. Exists(recs[q].host)' /\ q \in ToSet(scopes'[recs[q].host].records)
    BY <1>5, <2>1, <2>2
  <2>4. ASSUME recs[q].scope # NoScope
        PROVE  /\ Exists(recs[q].scope)' /\ scopes'[recs[q].scope].alive
               /\ \A y \in ToSet(scopes'[recs[q].scope].records) :
                    y \in ToSet(scopes[recs[q].scope].records) /\ y \in UsedRecs
               /\ \A y \in RecIds : Live(y)' /\ recs'[y].scope = recs[q].scope =>
                    y = q \/ (Live(y) /\ recs[y].scope = recs[q].scope)
    <3>1. OwnRight(q) /\ recs[q].scope \in ScopeIds /\ Exists(recs[q].scope)
      BY <2>1, <2>4 DEF Placed, OwnRight, Exists
    <3>2. recs[q].scope # sc /\ scopes'[recs[q].scope] = scopes[recs[q].scope] /\ Exists(recs[q].scope)'
      BY <1>5, <2>1, <3>1
    <3>3. \A y \in ToSet(scopes[recs[q].scope].records) : y \in UsedRecs
      BY <1>1, <3>1, ListedKnown
    <3>. QED  BY <1>2, <1>3, <3>1, <3>2, <3>3 DEF OwnRight
  <2>5. \A s \in Services : services'[s] = services[s]
    OBVIOUS
  <2>. QED  BY <1>4, <2>1, <2>3, <2>4, <2>5, PlacedKept
<1>17. Placed(r)'
  <2>1. Placed(r)
    BY <1>1, <1>2 DEF Layers
  <2>2. recs[r].host \in ScopeIds /\ Exists(recs[r].host) /\ r \in ToSet(scopes[recs[r].host].records)
    BY <2>1 DEF Placed, Exists
  <2>3. Exists(recs[r].host)' /\ r \in ToSet(scopes'[recs[r].host].records)
    BY <1>2, <1>5, <2>2
  <2>4. ToSet(scopes'[sc].records) = {} /\ scopes'[sc].alive
    BY <1>2 DEF NewScope, ToSet
  <2>5. ASSUME NEW q \in RecIds, Live(q)', recs'[q].scope = sc PROVE q = r
    <3>1. SUFFICES ASSUME q # r PROVE FALSE
      OBVIOUS
    <3>2. Live(q) /\ recs[q].scope = sc
      BY <1>2, <1>3, <2>5, <3>1
    <3>3. Exists(sc)
      BY <1>1, <1>6, <3>2 DEF Layers, Placed, OwnRight
    <3>. QED  BY <1>2, <3>3
  <2>6. OwnRight(r)'
    BY <1>2, <1>6, <1>7, <2>4, <2>5 DEF OwnRight
  <2>. QED  BY <1>2, <1>6, <2>3, <2>6 DEF Placed
<1>18. ASSUME NEW s \in ScopeIds PROVE Held(s)'
  <2>1. CASE s = sc
    BY <1>2, <2>1 DEF Held
  <2>2. CASE s # sc
    <3>1. Tears(stack) \subseteq Tears(stack')
      <4>1. x.op \notin {"dtor", "revoke"}
        BY <1>11
      <4>2. rest \in Seq(Frame)
        BY LargerSeq DEF Known
      <4>. QED  BY <1>2, <1>11, <4>1, <4>2, TearsPushed DEF x
    <3>2. SUFFICES ASSUME s # Root, Exists(s)', s \notin Tears(stack)'
                   PROVE  \E q \in RecIds : Live(q)' /\ recs'[q].scope = s
      BY DEF Held
    <3>3. Exists(s) /\ s \notin Tears(stack)
      BY <1>2, <2>2, <3>1, <3>2 DEF Exists
    <3>4. PICK q \in RecIds : Live(q) /\ recs[q].scope = s
      BY <1>1, <3>2, <3>3 DEF Layers, Held
    <3>5. q # r
      <4>1. s # NoScope
        BY RegistryAssumption
      <4>. QED  BY <1>1, <1>2, <3>4, <4>1 DEF Layers, Placed
    <3>. QED  BY <1>2, <1>3, <3>4, <3>5
  <2>. QED  BY <2>1, <2>2
<1>19. Exists(Root)'
  BY <1>5, ContextAssumption
<1>20. \A q \in RecIds : Live(q)' => Placed(q)'
  BY <1>16, <1>17
<1>. QED  BY <1>14, <1>15, <1>18, <1>19, <1>20 DEF Layers

(* What the scope that r owns may still concern: nothing outside A.        *)
Shelters(A, p) ==
  /\ Loads[p] \subseteq A
  /\ \A s \in Services : Provider(p, s) => Hears(s) \subseteq A

(* It lies above every call that waits for work on a record of p ...       *)
LEMMA SheltersOver ==
  ASSUME TypeOK, Layered, NEW r, Live(r), NEW g \in RecCallers(r)
  PROVE  Shelters(Over(g), recs[r].plugin)
<1>1. r \in RecIds /\ recs[r].plugin \in Plugins
  BY RecordPlugin
<1>2. CASE Of(r, Over(g))
  BY <1>2, OverClosed DEF Of, Closed, Shelters
<1>3. CASE g.op = "arm" /\ g.rec = r
  <2>1. Bases(g) = {recs[r].plugin}
    BY <1>1, <1>3 DEF Bases
  <2>2. \A q \in Plugins : Level[recs[r].plugin] < Level[q] => q \in Over(g)
    BY <2>1 DEF Over
  <2>3. Loads[recs[r].plugin] \subseteq Plugins
    BY <1>1, ContextAssumption
  <2>. QED  BY <1>1, <2>2, <2>3, HearsPlugins DEF Layered, Shelters
<1>. QED  BY <1>2, <1>3 DEF RecCallers

(* ... and above stopRecord() on that record.                              *)
LEMMA SheltersStop ==
  ASSUME TypeOK, Layered, NEW r, Live(r), NEW g, g.op = "stop", g.rec = r
  PROVE  Shelters(Over(g), recs[r].plugin)
<1>1. r \in RecIds /\ recs[r].plugin \in Plugins
  BY RecordPlugin
<1>2. Bases(g) = {recs[r].plugin}
  BY <1>1 DEF Bases
<1>3. \A q \in Plugins : Level[recs[r].plugin] < Level[q] => q \in Over(g)
  BY <1>2 DEF Over
<1>4. Loads[recs[r].plugin] \subseteq Plugins
  BY <1>1, ContextAssumption
<1>. QED  BY <1>1, <1>3, <1>4, HearsPlugins DEF Layered, Shelters

(* A scope that is being torn down has dropped its liveness token.         *)
NoneAlive(q) == \A sc \in Tears(q) : Exists(sc) => ~scopes[sc].alive

(* Calls that wait tear down only scopes whose token is dropped.           *)
LEMMA SuspendedNotAlive ==
  ASSUME NEW q \in Seq(Suspended)
  PROVE  NoneAlive(q)
<1>1. ASSUME NEW sc \in Tears(q), Exists(sc), scopes[sc].alive PROVE FALSE
  <2>1. \A j \in DOMAIN q : ~TearsDown(q[j], sc)
    BY <1>1, AliveNotTornDown
  <2>. QED  BY <1>1, <2>1 DEF Tears, TearsDown
<1>. QED  BY <1>1 DEF NoneAlive

(* stopRecord() preserves Layers: the scope passes from the record to the  *)
(* destructor that is called, above calls that touch nothing in it.        *)
LEMMA StopLayers ==
  ASSUME LayerInv, Layered, NEW r, Live(r),
         NEW target \in {"Deferred", "Failed", "Disposed"},
         NEW rest \in Seq(Known \cap RecCallers(r)), NoneAlive(rest),
         StopShape(r, target, rest),
         Nested(rest), Tears(stack) \subseteq Tears(rest), UNCHANGED services,
         \A w \in watchers' : w \in watchers \/ (w.rec \in UsedRecs /\ HeardRight(w)),
         Exists(Root)
  PROVE  Layers'
<1>1. TypeOK /\ ListsRight /\ Layers
  BY DEF LayerInv, TreeInv
<1>2. /\ r \in RecIds /\ recs[r].plugin \in Plugins /\ Placed(r)
      /\ Live(r)' /\ recs'[r].plugin = recs[r].plugin /\ recs'[r].host = recs[r].host
      /\ recs'[r].state = target /\ recs'[r].scope = NoScope
      /\ \A q \in RecIds \ {r} : recs'[q] = recs[q]
      /\ \A s \in ScopeIds :
           /\ Exists(s)' = Exists(s)
           /\ Exists(s) => scopes'[s].records = scopes[s].records
           /\ s # recs[r].scope => scopes'[s] = scopes[s]
  BY <1>1, RecordPlugin DEF StopShape, Layers
<1>3. \A q \in RecIds \ {r} : Live(q)' <=> Live(q)
  BY <1>2 DEF Live
<1>4. PluginsKept
  BY <1>2, <1>3 DEF PluginsKept, Live
<1>5. \A i \in DOMAIN rest : rest[i] \in Known \cap RecCallers(r) /\ rest[i] \in Good
  BY DEF Nested
<1>6. rest \in Seq(Known) /\ rest \in Seq(Frame)
  BY LargerSeq DEF Known
<1>7. \A i \in DOMAIN rest : Undisturbed(rest[i])
  <2>1. SUFFICES ASSUME NEW i \in DOMAIN rest PROVE Undisturbed(rest[i])
    OBVIOUS
  <2>2. rest[i] \in Good
    BY <1>5
  <2>3. rest[i].op \in {"apply", "stop"} => rest[i].rec # r
    BY <1>1, <1>5, CallersApart
  <2>4. rest[i].op \in {"apply", "stop"} => rest[i].rec \in RecIds \ {r} /\ Live(rest[i].rec)
    BY <2>2, <2>3 DEF Good, Live
  <2>5. rest[i].op \in {"dtor", "revoke"} => Exists(rest[i].scope) /\ rest[i].scope \in ScopeIds
    BY <2>2 DEF Good, Exists
  <2>. QED  BY <1>2, <1>3, <2>2, <2>4, <2>5 DEF Undisturbed
<1>8. rest \in Seq(Good') /\ Sorted(rest, ApartPairs')
  BY <1>1, <1>4, <1>6, <1>7, NestedKept
<1>. DEFINE x == Call("stop", r, NoScope)
<1>9. x \in Frame /\ x.op = "stop" /\ x.rec = r /\ x.todo = {}
  BY <1>1, <1>2, CallFrames DEF Call
<1>. HIDE DEF x
<1>10. x \in Good'
  BY <1>2, <1>9 DEF Good
<1>11. ASSUME NEW j \in DOMAIN rest PROVE <<x, rest[j]>> \in ApartPairs'
  <2>1. rest[j] \in Frame /\ rest[j] \in Known
    BY <1>5 DEF Known
  <2>2. Over(rest[j]) \subseteq Over(rest[j])'
    BY <1>4, <2>1, OverKept
  <2>3. Of(r, Over(rest[j])) => Within(x, Over(rest[j]))'
    BY <1>2, <1>9, <2>2 DEF Within, Of
  <2>4. Apart(x, rest[j])'
    BY <1>5, <1>9, <2>3 DEF RecCallers, Apart, Arming
  <2>. QED  BY <1>9, <2>1, <2>4 DEF ApartPairs
<1>. DEFINE q1 == <<x>> \o rest
<1>12. q1 \in Seq(Good') /\ Sorted(q1, ApartPairs') /\ q1 \in Seq(Frame)
  BY <1>6, <1>8, <1>9, <1>10, <1>11, EnteredNested, PushedPositions
<1>13. Tears(q1) = Tears(rest)
  BY <1>6, <1>9, TearsPushed
<1>14. \A j \in DOMAIN q1 : q1[j] = x \/ \E i \in DOMAIN rest : q1[j] = rest[i]
  BY <1>6, <1>9, PushedPositions
<1>. HIDE DEF q1
<1>15. Nested(stack)' /\ Tears(stack) \subseteq Tears(stack')
       /\ (recs[r].scope # NoScope => recs[r].scope \in Tears(stack'))
  <2>1. CASE recs[r].scope = NoScope
    <3>1. stack' = q1
      BY <2>1 DEF StopShape, q1, x
    <3>. QED  BY <1>12, <1>13, <2>1, <3>1 DEF Nested
  <2>2. CASE recs[r].scope # NoScope
    <3>0. PICK d : d = DtorCall(recs[r].scope)
      OBVIOUS
    <3>1. /\ OwnRight(r) /\ recs[r].scope \in ScopeIds /\ Exists(recs[r].scope)
          /\ stack' = <<d>> \o q1 /\ scopes[recs[r].scope].alive
      BY <1>2, <2>2, <3>0 DEF Placed, OwnRight, Exists, StopShape, q1, x
    <3>2. d \in Frame /\ d.op = "dtor" /\ d.scope = recs[r].scope /\ d.todo = {} /\ d.rec = NoRec
      BY <1>1, <1>2, <3>0, <3>1, CallFrames
    <3>3. d \in Good'
      BY <1>2, <3>1, <3>2 DEF Good
    <3>4. ASSUME NEW A, Shelters(A, recs[r].plugin)
          PROVE  Within(d, A)'
      <4>1. ASSUME NEW y \in ToSet(scopes'[recs[r].scope].records) PROVE Of(y, A)'
        <5>1. y \in ToSet(scopes[recs[r].scope].records)
          BY <1>2, <3>1, <4>1
        <5>2. y \in UsedRecs /\ Live(y) /\ Of(y, Loads[recs[r].plugin])
          BY <1>1, <3>1, <5>1, ListedKnown DEF OwnRight
        <5>3. Of(y, A)
          BY <3>4, <5>2 DEF Of, Shelters
        <5>. QED  BY <1>4, <5>2, <5>3, OfKept
      <4>2. \A s \in Services : services'[s] = recs[r].scope => Hears(s) \subseteq A
        BY <3>1, <3>4 DEF OwnRight, Shelters
      <4>. QED  BY <3>2, <4>1, <4>2 DEF Within
    <3>5. ASSUME NEW g \in Frame, Over(g) \subseteq Over(g)', Shelters(Over(g), recs[r].plugin)
          PROVE  Within(d, Over(g))'
      <4>1. PICK A : A = Over(g)'
        OBVIOUS
      <4>2. Shelters(A, recs[r].plugin)
        BY <3>5, <4>1 DEF Shelters
      <4>3. Within(d, A)'
        BY <3>4, <4>2
      <4>. QED  BY <4>1, <4>3 DEF Within, Of
    <3>6. recs[r].scope # Root
      BY <3>1 DEF OwnRight
    <3>7. <<d, x>> \in ApartPairs'
      <4>1. Over(x) \subseteq Over(x)'
        BY <1>2, <1>9 DEF Over, Bases, Live
      <4>2. Shelters(Over(x), recs[r].plugin)
        BY <1>1, <1>9, SheltersStop
      <4>3. Apart(d, x)'
        BY <1>9, <3>2, <3>5, <3>6, <4>1, <4>2 DEF Apart
      <4>. QED  BY <1>9, <3>2, <4>3 DEF ApartPairs
    <3>8. ASSUME NEW i \in DOMAIN rest PROVE <<d, rest[i]>> \in ApartPairs'
      <4>1. rest[i] \in Frame /\ rest[i] \in Known
        BY <1>5 DEF Known
      <4>2. Over(rest[i]) \subseteq Over(rest[i])'
        BY <1>4, <4>1, OverKept
      <4>3. Shelters(Over(rest[i]), recs[r].plugin)
        BY <1>1, <1>5, SheltersOver
      <4>4. ~TearsDown(rest[i], recs[r].scope)
        BY <3>1 DEF NoneAlive, Tears, TearsDown
      <4>6. Apart(d, rest[i])'
        BY <3>2, <3>5, <3>6, <4>1, <4>2, <4>3, <4>4 DEF Apart, TearsDown
      <4>. QED  BY <3>2, <4>1, <4>6 DEF ApartPairs
    <3>9. \A j \in DOMAIN q1 : <<d, q1[j]>> \in ApartPairs'
      BY <1>14, <3>7, <3>8
    <3>10. <<d>> \o q1 \in Seq(Good') /\ Sorted(<<d>> \o q1, ApartPairs')
      BY <1>12, <3>3, <3>9, EnteredNested
    <3>11. Tears(<<d>> \o q1) = Tears(q1) \cup {recs[r].scope}
      BY <1>12, <3>2, TearsPushed
    <3>. QED  BY <1>13, <3>1, <3>10, <3>11 DEF Nested
  <2>. QED  BY <2>1, <2>2
<1>16. \A w \in watchers' : HeardRight(w)'
  BY <1>1, <1>4, LiveKnown, HeardKept DEF Layers
<1>17. ASSUME NEW q \in RecIds, Live(q)', q # r PROVE Placed(q)'
  <2>1. Live(q) /\ Placed(q) /\ recs'[q] = recs[q]
    BY <1>1, <1>2, <1>3, <1>17 DEF Layers
  <2>2. recs[q].host \in ScopeIds /\ Exists(recs[q].host) /\ q \in ToSet(scopes[recs[q].host].records)
    BY <2>1 DEF Placed, Exists
  <2>3. Exists(recs[q].host)' /\ q \in ToSet(scopes'[recs[q].host].records)
    BY <1>2, <2>1, <2>2
  <2>4. ASSUME recs[q].scope # NoScope
        PROVE  /\ Exists(recs[q].scope)' /\ scopes'[recs[q].scope].alive
               /\ \A y \in ToSet(scopes'[recs[q].scope].records) :
                    y \in ToSet(scopes[recs[q].scope].records) /\ y \in UsedRecs
               /\ \A y \in RecIds : Live(y)' /\ recs'[y].scope = recs[q].scope =>
                    y = q \/ (Live(y) /\ recs[y].scope = recs[q].scope)
    <3>1. OwnRight(q) /\ recs[q].scope \in ScopeIds /\ Exists(recs[q].scope)
      BY <2>1, <2>4 DEF Placed, OwnRight, Exists
    <3>2. recs[q].scope # recs[r].scope
      BY <1>2, <1>17, <2>1, <3>1 DEF OwnRight
    <3>3. scopes'[recs[q].scope] = scopes[recs[q].scope] /\ Exists(recs[q].scope)'
      BY <1>2, <2>1, <3>1, <3>2
    <3>4. \A y \in ToSet(scopes[recs[q].scope].records) : y \in UsedRecs
      BY <1>1, <3>1, ListedKnown
    <3>. QED  BY <1>2, <1>3, <2>4, <3>1, <3>3, <3>4 DEF OwnRight
  <2>5. \A s \in Services : services'[s] = services[s]
    OBVIOUS
  <2>. QED  BY <1>4, <2>1, <2>3, <2>4, <2>5, PlacedKept
<1>18. Placed(r)'
  <2>1. recs[r].host \in ScopeIds /\ Exists(recs[r].host) /\ r \in ToSet(scopes[recs[r].host].records)
    BY <1>2 DEF Placed, Exists
  <2>2. Exists(recs[r].host)' /\ r \in ToSet(scopes'[recs[r].host].records)
    BY <1>2, <2>1
  <2>. QED  BY <1>2, <2>2 DEF Placed
<1>19. ASSUME NEW s \in ScopeIds PROVE Held(s)'
  <2>1. SUFFICES ASSUME s # Root, Exists(s)', s \notin Tears(stack)'
                 PROVE  \E q \in RecIds : Live(q)' /\ recs'[q].scope = s
    BY DEF Held
  <2>2. Exists(s) /\ s \notin Tears(stack) /\ s # NoScope
    BY <1>2, <1>15, <2>1, RegistryAssumption
  <2>3. PICK q \in RecIds : Live(q) /\ recs[q].scope = s
    BY <1>1, <2>1, <2>2 DEF Layers, Held
  <2>4. q # r
    BY <1>15, <2>1, <2>2, <2>3
  <2>. QED  BY <1>2, <1>3, <2>3, <2>4
<1>20. Exists(Root)'
  BY <1>2, ContextAssumption
<1>21. \A q \in RecIds : Live(q)' => Placed(q)'
  BY <1>17, <1>18
<1>. QED  BY <1>15, <1>16, <1>19, <1>20, <1>21 DEF Layers

(* A scope is torn down by q if a call of q tears it down.                 *)
LEMMA TearsIn ==
  ASSUME NEW q, NEW sc
  PROVE  sc \in Tears(q) <=> \E i \in DOMAIN q : TearsDown(q[i], sc)
BY DEF Tears, TearsDown

(* addRecord() preserves Layers: the scope it appends to is not torn down  *)
(* below, its owner is the plugin that loads p, and the calls below let p  *)
(* run above them.                                                         *)
LEMMA AddLayers ==
  ASSUME LayerInv, TypeOK', NEW sc, Exists(sc), NEW p \in Plugins, NEW r \in RecIds,
         NEW rest \in Seq(Known), rest \in Seq(CallersOf({p})), AddShape(r, sc, p, rest),
         Nested(rest), Tears(stack) \subseteq Tears(rest),
         \A j \in DOMAIN rest : ~TearsDown(rest[j], sc),
         \A q \in RecIds : Live(q) /\ recs[q].scope = sc => p \in Loads[recs[q].plugin],
         Exists(Root)
  PROVE  Layers'
<1>1. TypeOK /\ ListsRight /\ Layers /\ sc \in ScopeIds /\ scopes[sc] \in Scope
  BY ExistingScope DEF LayerInv, TreeInv
<1>2. /\ r \notin UsedRecs /\ ~Live(r) /\ Live(r)'
      /\ recs'[r].plugin = p /\ recs'[r].host = sc /\ recs'[r].state = "Deferred"
      /\ recs'[r].scope = NoScope
      /\ \A q \in RecIds \ {r} : recs'[q] = recs[q]
      /\ \A s \in ScopeIds \ {sc} : scopes'[s] = scopes[s]
      /\ Exists(sc)' /\ scopes'[sc].records = Append(scopes[sc].records, r)
      /\ scopes'[sc].alive = scopes[sc].alive
      /\ ArmCall(r, sc) \in Frame
      /\ stack' = <<ArmCall(r, sc)>> \o Invalidate(rest, sc, 1)
      /\ UNCHANGED <<services, watchers>>
  BY DEF AddShape
<1>3. \A q \in RecIds \ {r} : Live(q)' <=> Live(q)
  BY <1>2 DEF Live
<1>4. PluginsKept
  BY <1>2, <1>3 DEF PluginsKept, Live
<1>5. \A s \in ScopeIds : Exists(s)' <=> Exists(s)
  BY <1>2 DEF Exists
<1>6. ToSet(scopes'[sc].records) = ToSet(scopes[sc].records) \cup {r}
  <2>1. scopes[sc].records \in Seq(RecIds)
    BY <1>1 DEF Scope
  <2>. QED  BY <1>2, <2>1, AppendInjectiveSequence
<1>. DEFINE q1 == Invalidate(rest, sc, 1)
<1>7. q1 \in Seq(Known) /\ q1 \in Seq(CallersOf({p})) /\ Nested(q1)
  BY MarkedNested
<1>8. rest \in Seq(Frame) /\ q1 \in Seq(Frame)
  BY <1>7, LargerSeq DEF Known
<1>9. Tears(q1) = Tears(rest) /\ sc \notin Tears(rest)
  BY <1>8, TearsMarked, TearsIn
<1>. HIDE DEF q1
<1>10. \A i \in DOMAIN q1 : q1[i] \in Known /\ q1[i] \in CallersOf({p}) /\ q1[i] \in Good /\ ~TearsDown(q1[i], sc)
  BY <1>7, <1>9, TearsIn DEF Nested
<1>11. \A i \in DOMAIN q1 : Undisturbed(q1[i])
  <2>1. SUFFICES ASSUME NEW i \in DOMAIN q1 PROVE Undisturbed(q1[i])
    OBVIOUS
  <2>2. q1[i] \in Good
    BY <1>10
  <2>3. q1[i].op \in {"apply", "stop"} => q1[i].rec \in RecIds \ {r} /\ Live(q1[i].rec)
    BY <1>2, <2>2 DEF Good, Live
  <2>4. q1[i].op \in {"dtor", "revoke"} =>
          Exists(q1[i].scope) /\ q1[i].scope \in ScopeIds \ {sc} /\ Exists(q1[i].scope)'
    BY <1>5, <1>10, <2>2 DEF Good, Exists, TearsDown
  <2>. QED  BY <1>2, <1>3, <2>2, <2>3, <2>4 DEF Undisturbed
<1>12. q1 \in Seq(Good') /\ Sorted(q1, ApartPairs')
  BY <1>1, <1>4, <1>7, <1>11, NestedKept
<1>13. PICK x : x = ArmCall(r, sc)
  OBVIOUS
<1>14. x \in Frame /\ x.op = "arm" /\ x.rec = r /\ x.todo = {}
  BY <1>2, <1>13 DEF ArmCall, Call
<1>15. x \in Good'
  BY <1>14 DEF Good
<1>16. ASSUME NEW j \in DOMAIN q1 PROVE <<x, q1[j]>> \in ApartPairs'
  <2>1. q1[j] \in Frame /\ q1[j] \in Known /\ p \in Over(q1[j])
    BY <1>10 DEF Known, CallersOf
  <2>2. Over(q1[j]) \subseteq Over(q1[j])'
    BY <1>4, <2>1, OverKept
  <2>3. Within(x, Over(q1[j]))'
    BY <1>2, <1>14, <2>1, <2>2 DEF Within, Of
  <2>4. Apart(x, q1[j])'
    BY <1>14, <2>3 DEF Apart
  <2>. QED  BY <1>14, <2>1, <2>4 DEF ApartPairs
<1>17. Nested(stack)' /\ Tears(stack) \subseteq Tears(stack')
  <2>1. <<x>> \o q1 \in Seq(Good') /\ Sorted(<<x>> \o q1, ApartPairs')
    BY <1>12, <1>15, <1>16, EnteredNested
  <2>2. stack' = <<x>> \o q1
    BY <1>2, <1>13 DEF q1
  <2>3. Tears(<<x>> \o q1) = Tears(q1)
    BY <1>8, <1>14, TearsPushed
  <2>. QED  BY <1>9, <2>1, <2>2, <2>3 DEF Nested
<1>18. \A w \in watchers' : HeardRight(w)'
  BY <1>1, <1>2, <1>4, LiveKnown, HeardKept DEF Layers
<1>19. ASSUME NEW q \in RecIds, Live(q)', q # r PROVE Placed(q)'
  <2>1. Live(q) /\ Placed(q) /\ recs'[q] = recs[q]
    BY <1>1, <1>2, <1>3, <1>19 DEF Layers
  <2>2. recs[q].host \in ScopeIds /\ Exists(recs[q].host) /\ q \in ToSet(scopes[recs[q].host].records)
    BY <2>1 DEF Placed, Exists
  <2>3. Exists(recs[q].host)' /\ q \in ToSet(scopes'[recs[q].host].records)
    BY <1>2, <1>5, <1>6, <2>1, <2>2
  <2>4. ASSUME recs[q].scope # NoScope
        PROVE  /\ Exists(recs[q].scope)' /\ scopes'[recs[q].scope].alive
               /\ \A y \in ToSet(scopes'[recs[q].scope].records) :
                    \/ y \in ToSet(scopes[recs[q].scope].records) /\ y \in UsedRecs
                    \/ Of(y, Loads[recs[q].plugin])'
               /\ \A y \in RecIds : Live(y)' /\ recs'[y].scope = recs[q].scope =>
                    y = q \/ (Live(y) /\ recs[y].scope = recs[q].scope)
    <3>1. OwnRight(q) /\ recs[q].scope \in ScopeIds /\ Exists(recs[q].scope)
      BY <2>1, <2>4 DEF Placed, OwnRight, Exists
    <3>2. Exists(recs[q].scope)' /\ scopes'[recs[q].scope].alive
      BY <1>2, <1>5, <2>1, <3>1 DEF OwnRight
    <3>3. \A y \in ToSet(scopes[recs[q].scope].records) : y \in UsedRecs
      BY <1>1, <3>1, ListedKnown
    <3>4. ASSUME NEW y \in ToSet(scopes'[recs[q].scope].records)
          PROVE \/ y \in ToSet(scopes[recs[q].scope].records) /\ y \in UsedRecs
                \/ Of(y, Loads[recs[q].plugin])'
      <4>1. CASE recs[q].scope # sc
        BY <1>2, <2>1, <3>1, <3>3, <3>4, <4>1
      <4>2. CASE recs[q].scope = sc /\ y # r
        BY <1>6, <2>1, <3>3, <3>4, <4>2
      <4>3. CASE recs[q].scope = sc /\ y = r
        BY <1>2, <2>1, <4>3 DEF Of
      <4>. QED  BY <4>1, <4>2, <4>3
    <3>. QED  BY <1>2, <1>3, <2>4, <3>1, <3>2, <3>4 DEF OwnRight
  <2>5. \A s \in Services : services'[s] = services[s]
    BY <1>2
  <2>. QED  BY <1>4, <2>1, <2>3, <2>4, <2>5, PlacedKept
<1>20. Placed(r)'
  BY <1>2, <1>6 DEF Placed
<1>21. ASSUME NEW s \in ScopeIds PROVE Held(s)'
  <2>1. SUFFICES ASSUME s # Root, Exists(s)', s \notin Tears(stack)'
                 PROVE  \E q \in RecIds : Live(q)' /\ recs'[q].scope = s
    BY DEF Held
  <2>2. PICK q \in RecIds : Live(q) /\ recs[q].scope = s
    BY <1>1, <1>5, <1>17, <2>1 DEF Layers, Held
  <2>3. q # r
    BY <1>2, <2>2
  <2>. QED  BY <1>2, <1>3, <2>2, <2>3
<1>22. Exists(Root)'
  BY <1>5, ContextAssumption
<1>23. \A q \in RecIds : Live(q)' => Placed(q)'
  BY <1>19, <1>20
<1>. QED  BY <1>17, <1>18, <1>21, <1>22, <1>23 DEF Layers

(* What all calls of a record's own start and stop need of their callers.  *)
Waits(rest) ==
  /\ rest \in Seq(Frame) /\ rest \in Seq(Known) /\ NoneAlive(rest)
  /\ Nested(rest) /\ Tears(stack) \subseteq Tears(rest)

(* Calls that may wait for work on record r.                               *)
Callers(r, rest) == Waits(rest) /\ \A i \in DOMAIN rest : rest[i] \in RecCallers(r)

(* Each of them is in use and may wait for r.                              *)
LEMMA CallersSeq ==
  ASSUME NEW r, NEW rest, Callers(r, rest)
  PROVE  rest \in Seq(Known \cap RecCallers(r))
<1>1. rest \in Seq(Known) /\ \A i \in DOMAIN rest : rest[i] \in Known \cap RecCallers(r)
  BY DEF Callers, Waits
<1>. QED  BY <1>1

(* The watchers after the step are old ones or watch a required service.   *)
SentinelsHeard == \A w \in watchers' : w \in watchers \/ (w.rec \in UsedRecs /\ HeardRight(w))

(* ensureStarted() preserves Layers whatever it decides ...                *)
LEMMA StartCallLayers ==
  ASSUME LayerInv, Layered, TypeOK', NEW r, Live(r), NEW rest, Callers(r, rest),
         EnsureStarted(r, rest), UNCHANGED services, SentinelsHeard, Exists(Root)
  PROVE  Layers'
<1>1. TypeOK
  BY DEF LayerInv, TreeInv
<1>2. CASE ~CanStart(r) /\ Return(rest)
  BY <1>2, ReturnLayers DEF Callers, Waits, SentinelsHeard
<1>3. CASE \E sc \in ScopeIds : StartEffect(r, sc, rest)
  BY <1>3, StartLayers, CallersSeq DEF Callers, Waits, SentinelsHeard
<1>. QED  BY <1>1, <1>2, <1>3, StartEffects

(* ... and so does stopRecord().                                           *)
LEMMA StopCallLayers ==
  ASSUME LayerInv, Layered, NEW r, Live(r), NEW target \in {"Deferred", "Failed", "Disposed"},
         NEW rest, Callers(r, rest),
         StopRecord(r, target, rest), UNCHANGED services, SentinelsHeard, Exists(Root)
  PROVE  Layers'
<1>1. TypeOK /\ ListsRight
  BY DEF LayerInv, TreeInv
<1>2. rest \in Seq(Frame)
  BY DEF Callers, Waits
<1>3. CASE ~MustStop(r) /\ Return(rest)
  BY <1>3, ReturnLayers DEF Callers, Waits, SentinelsHeard
<1>4. CASE StopShape(r, target, rest)
  BY <1>4, StopLayers, CallersSeq DEF Callers, Waits, SentinelsHeard
<1>. QED  BY <1>1, <1>2, <1>3, <1>4, StopShapes

(* A watcher is called: a sentinel starts or stops its record, the host's  *)
(* own watcher may answer a loss.                                          *)
LEMMA WatcherLayers ==
  ASSUME LayerInv, Layered, TypeOK', NEW w \in Watcher, HeardRight(w), NEW v \in BOOLEAN,
         NEW rest, Waits(rest), w.rec \in UsedRecs,
         \A i \in DOMAIN rest :
           IF w.rec = NoRec
           THEN ~v => Fallback[w.svc] \cup Retire[w.svc] \subseteq Over(rest[i])
           ELSE rest[i] \in RecCallers(w.rec),
         CallWatcher(w, v, rest), UNCHANGED services, SentinelsHeard, Exists(Root)
  PROVE  Layers'
<1>1. TypeOK /\ ListsRight /\ Layers
  BY DEF LayerInv, TreeInv
<1>2. CASE ~HostAlive(w)
  <2>1. Return(rest)
    BY <1>2 DEF CallWatcher
  <2>. QED  BY <2>1, ReturnLayers DEF Waits, SentinelsHeard
<1>3. CASE HostAlive(w) /\ w.rec # NoRec
  <2>1. Callers(w.rec, rest)
    BY <1>3 DEF Callers
  <2>2. Live(w.rec)
    BY <1>3 DEF CallWatcher
  <2>3. CASE v
    <3>1. EnsureStarted(w.rec, rest)
      BY <1>3, <2>3 DEF CallWatcher
    <3>. QED  BY <2>1, <2>2, <3>1, StartCallLayers
  <2>4. CASE ~v /\ recs[w.rec].state = "Active"
    <3>1. StopRecord(w.rec, "Deferred", rest)
      BY <1>3, <2>4 DEF CallWatcher
    <3>. QED  BY <2>1, <2>2, <3>1, StopCallLayers
  <2>5. CASE ~v /\ recs[w.rec].state # "Active"
    <3>1. Return(rest)
      BY <1>3, <2>5 DEF CallWatcher
    <3>. QED  BY <3>1, ReturnLayers DEF Waits, SentinelsHeard
  <2>. QED  BY <2>3, <2>4, <2>5
<1>4. CASE HostAlive(w) /\ w.rec = NoRec
  <2>. DEFINE x == [Call("callback", NoRec, NoScope) EXCEPT !.val = v, !.todo = {w}]
  <2>1. Return(<<x>> \o rest)
    BY <1>4 DEF CallWatcher
  <2>2. x \in Frame /\ x.op = "callback" /\ x.todo = {w} /\ x.val = v
    <3>1. Call("callback", NoRec, NoScope) \in Frame
      BY CallType DEF Ops
    <3>. QED  BY <3>1 DEF Call, Frame
  <2>. HIDE DEF x
  <2>3. stack' = <<x>> \o rest /\ UNCHANGED <<recs, scopes, services>>
    BY <2>1 DEF Return
  <2>4. PluginsKept
    BY <2>3 DEF PluginsKept, Live
  <2>5. \A i \in DOMAIN rest : rest[i] \in Good /\ rest[i] \in Known /\ rest[i] \in Frame
    BY DEF Waits, Nested
  <2>6. \A i \in DOMAIN rest : Undisturbed(rest[i])
    <3>1. SUFFICES ASSUME NEW i \in DOMAIN rest PROVE Undisturbed(rest[i])
      OBVIOUS
    <3>. QED  BY <2>3, <2>5 DEF Undisturbed, Good, Live, Exists
  <2>7. rest \in Seq(Good') /\ Sorted(rest, ApartPairs')
    BY <1>1, <2>4, <2>6, NestedKept DEF Waits
  <2>8. x \in Good'
    <3>1. HeardRight(w)'
      BY <2>4, HeardKept
    <3>. QED  BY <1>4, <2>2, <3>1 DEF Good
  <2>9. ~Live(NoRec)' 
    BY ContextAssumption DEF Live
  <2>10. ASSUME NEW j \in DOMAIN rest PROVE <<x, rest[j]>> \in ApartPairs'
    <3>1. Over(rest[j]) \subseteq Over(rest[j])'
      BY <2>4, <2>5, OverKept
    <3>2. Within(x, Over(rest[j]))'
      BY <1>4, <2>2, <2>9, <3>1 DEF Within, Of
    <3>3. Apart(x, rest[j])'
      BY <2>2, <3>2 DEF Apart
    <3>. QED  BY <2>2, <2>5, <3>3 DEF ApartPairs
  <2>11. Nested(stack)' /\ Tears(stack) \subseteq Tears(stack')
    <3>1. <<x>> \o rest \in Seq(Good') /\ Sorted(<<x>> \o rest, ApartPairs')
      BY <2>7, <2>8, <2>10, EnteredNested
    <3>2. Tears(<<x>> \o rest) = Tears(rest)
      BY <2>2, TearsPushed DEF Waits
    <3>. QED  BY <2>3, <3>1, <3>2 DEF Nested, Waits
  <2>12. \A u \in watchers' : HeardRight(u)'
    BY <1>1, <2>4, LiveKnown, HeardKept DEF Layers, SentinelsHeard
  <2>13. \A q \in RecIds : Live(q)' => Placed(q)'
    BY <1>1, <2>3 DEF Layers, Placed, OwnRight, Live, Exists, Of
  <2>14. \A sc \in ScopeIds : Held(sc)'
    BY <1>1, <2>3, <2>11 DEF Layers, Held, Live, Exists
  <2>15. Exists(Root)'
    BY <2>3 DEF Exists
  <2>. QED  BY <2>11, <2>12, <2>13, <2>14, <2>15 DEF Layers
<1>. QED  BY <1>2, <1>3, <1>4

(* A step that touches neither the places of records and scopes nor the    *)
(* services preserves Layers.                                              *)
LEMMA DetailLayers ==
  ASSUME LayerInv, NEW q \in Seq(Known), Nested(q), Tears(stack) \subseteq Tears(q), stack' = q,
         UNCHANGED services, watchers' \subseteq watchers,
         \A r \in RecIds :
           /\ Live(r)' = Live(r)
           /\ Live(r) => /\ recs'[r].plugin = recs[r].plugin /\ recs'[r].host = recs[r].host
                         /\ recs'[r].state = recs[r].state /\ recs'[r].scope = recs[r].scope,
         \A s \in ScopeIds :
           /\ Exists(s)' = Exists(s)
           /\ Exists(s) => /\ scopes'[s].records = scopes[s].records
                           /\ scopes'[s].alive = scopes[s].alive,
         \A i \in DOMAIN q : q[i].op \in {"apply", "stop"} => recs'[q[i].rec].inst = recs[q[i].rec].inst,
         Exists(Root)
  PROVE  Layers'
<1>1. TypeOK /\ ListsRight /\ Layers
  BY DEF LayerInv, TreeInv
<1>2. PluginsKept
  BY DEF PluginsKept, Live
<1>3. ASSUME NEW i \in DOMAIN q PROVE Undisturbed(q[i])
  <2>1. q[i] \in Good
    BY DEF Nested
  <2>2. q[i].op \in {"apply", "stop"} => q[i].rec \in RecIds /\ Live(q[i].rec)
    BY <2>1 DEF Good, Live
  <2>3. q[i].op \in {"dtor", "revoke"} => Exists(q[i].scope) /\ q[i].scope \in ScopeIds
    BY <2>1 DEF Good, Exists
  <2>. QED  BY <2>1, <2>2, <2>3 DEF Undisturbed
<1>4. Nested(stack)'
  <2>1. q \in Seq(Good') /\ Sorted(q, ApartPairs')
    BY <1>1, <1>2, <1>3, NestedKept
  <2>. QED  BY <2>1 DEF Nested
<1>5. \A w \in watchers' : HeardRight(w)'
  BY <1>1, <1>2, LiveKnown, HeardKept DEF Layers
<1>6. ASSUME NEW r \in RecIds, Live(r)' PROVE Placed(r)'
  <2>1. Live(r) /\ Placed(r)
    BY <1>1, <1>6 DEF Layers
  <2>2. recs[r].host \in ScopeIds /\ Exists(recs[r].host) /\ r \in ToSet(scopes[recs[r].host].records)
    BY <2>1 DEF Placed, Exists
  <2>3. Exists(recs[r].host)' /\ r \in ToSet(scopes'[recs[r].host].records)
    BY <2>1, <2>2
  <2>4. ASSUME recs[r].scope # NoScope
        PROVE  /\ Exists(recs[r].scope)' /\ scopes'[recs[r].scope].alive
               /\ \A y \in ToSet(scopes'[recs[r].scope].records) :
                    y \in ToSet(scopes[recs[r].scope].records) /\ y \in UsedRecs
    <3>1. OwnRight(r) /\ recs[r].scope \in ScopeIds /\ Exists(recs[r].scope)
      BY <2>1, <2>4 DEF Placed, OwnRight, Exists
    <3>2. \A y \in ToSet(scopes[recs[r].scope].records) : y \in UsedRecs
      BY <1>1, <3>1, ListedKnown
    <3>. QED  BY <2>1, <3>1, <3>2 DEF OwnRight
  <2>5. \A y \in RecIds : Live(y)' /\ recs'[y].scope = recs[r].scope =>
                    y = r \/ (Live(y) /\ recs[y].scope = recs[r].scope)
    OBVIOUS
  <2>. QED  BY <1>2, <2>1, <2>3, <2>4, <2>5, PlacedKept
<1>7. ASSUME NEW sc \in ScopeIds PROVE Held(sc)'
  <2>1. Held(sc)
    BY <1>1 DEF Layers
  <2>. QED  BY <2>1 DEF Held
<1>8. Exists(Root)'
  BY ContextAssumption
<1>. QED  BY <1>4, <1>5, <1>6, <1>7, <1>8 DEF Layers

(* What the running call and those that wait for it can rely on.           *)
LEMMA RunningLayers ==
  ASSUME LayerInv, NEW op, Running(op)
  PROVE  /\ Top \in Frame /\ Top \in Known /\ Top \in Good /\ Top \in RightFrames /\ Top.op = op
         /\ Below \in Seq(Frame) /\ Below \in Seq(Known) /\ Nested(Below)
         /\ \A j \in DOMAIN Below :
              /\ Below[j] \in Frame /\ Below[j] \in Known /\ Below[j] \in Good
              /\ Apart(Top, Below[j])
         /\ op \notin {"dtor", "revoke"} => Tears(stack) = Tears(Below) /\ Waits(Below)
         /\ op \in {"dtor", "revoke"} => Tears(stack) = Tears(Below) \cup {Top.scope}
         /\ Exists(Root) /\ stack = <<Top>> \o Below /\ stack # <<>>
         /\ op # "erase" => NoneAlive(stack)
<1>1. TreeInv /\ TypeOK /\ Layers
  BY DEF LayerInv, TreeInv
<1>2. /\ stack = <<Top>> \o Below /\ stack \in Seq(Frame)
      /\ Top \in Frame /\ Top.op = op /\ Below \in Seq(Frame)
  BY <1>1, RunningStack
<1>3. /\ Top \in RightFrames \cap Known /\ Below \in Seq(Known \cap Suspended)
  BY <1>1, TopRight
<1>4. Below \in Seq(Known) /\ Below \in Seq(Suspended)
  BY <1>3, LargerSeq
<1>5. stack \in Seq(Good) /\ Sorted(stack, ApartPairs) /\ stack # <<>>
  <2>1. stack # <<>>
    BY DEF Running
  <2>. QED  BY <1>1, <2>1 DEF Layers, Nested
<1>6. Top \in Good /\ Below \in Seq(Good)
  BY <1>5, PopType DEF Top, Below
<1>7. Sorted(Below, ApartPairs) /\ \A j \in DOMAIN Below : <<Top, Below[j]>> \in ApartPairs
  BY <1>2, <1>5, SortedPop
<1>8. \A j \in DOMAIN Below : Below[j] \in Frame /\ Below[j] \in Known /\ Below[j] \in Good
  BY <1>2, <1>4, <1>6
<1>9. \A j \in DOMAIN Below : Apart(Top, Below[j])
  BY <1>7 DEF ApartPairs
<1>10. /\ op \notin {"dtor", "revoke"} => Tears(stack) = Tears(Below)
       /\ op \in {"dtor", "revoke"} => Tears(stack) = Tears(Below) \cup {Top.scope}
  BY <1>2, TearsPushed
<1>11. Exists(Root)
  BY <1>1, <1>5 DEF Layers
<1>12. Nested(Below)
  BY <1>6, <1>7 DEF Nested
<1>13. NoneAlive(Below)
  BY <1>4, SuspendedNotAlive
<1>14. op # "erase" => NoneAlive(stack)
  <2>1. SUFFICES ASSUME op # "erase" PROVE NoneAlive(stack)
    OBVIOUS
  <2>2. stack \in Seq(Known \cap Suspended)
    BY <1>1, <2>1, TopRight
  <2>. QED  BY <2>2, LargerSeq, SuspendedNotAlive
<1>. QED  BY <1>2, <1>3, <1>4, <1>5, <1>6, <1>8, <1>9, <1>10, <1>11, <1>12, <1>13, <1>14 DEF Waits

(* The running call goes on with other locals: the stack stays nested.     *)
LEMMA ResumedLayers ==
  ASSUME LayerInv, NEW op, Running(op), NEW g \in Frame, g \in Known, Later(g, Top)
  PROVE  /\ Resume(g) \in Seq(Frame) /\ Resume(g) \in Seq(Known)
         /\ Nested(Resume(g)) /\ Tears(Resume(g)) = Tears(stack)
         /\ \A i \in DOMAIN Resume(g) : Resume(g)[i] = g \/ \E j \in DOMAIN Below : Resume(g)[i] = Below[j]
         /\ g \in Good
         /\ op # "erase" => Waits(Resume(g))
<1>1. /\ Top \in Frame /\ Top \in Good /\ Top.op = op
      /\ Below \in Seq(Frame) /\ Below \in Seq(Known) /\ Nested(Below)
      /\ op # "erase" => NoneAlive(stack)
      /\ \A j \in DOMAIN Below : Below[j] \in Frame /\ Apart(Top, Below[j])
      /\ op \notin {"dtor", "revoke"} => Tears(stack) = Tears(Below)
      /\ op \in {"dtor", "revoke"} => Tears(stack) = Tears(Below) \cup {Top.scope}
  BY RunningLayers
<1>2. g \in Good /\ g.op = op /\ g.scope = Top.scope
  BY <1>1, LaterRight DEF Later
<1>3. \A j \in DOMAIN Below : <<g, Below[j]>> \in ApartPairs
  <2>1. \A j \in DOMAIN Below : <<Top, Below[j]>> \in ApartPairs
    BY <1>1 DEF ApartPairs
  <2>. QED  BY <1>1, <2>1, LaterRight
<1>4. Resume(g) = <<g>> \o Below
  BY DEF Resume
<1>5. Resume(g) \in Seq(Frame) /\ Resume(g) \in Seq(Known)
  BY <1>1, <1>4, PushType
<1>6. Nested(Resume(g))
  <2>1. Below \in Seq(Good) /\ Sorted(Below, ApartPairs)
    BY <1>1 DEF Nested
  <2>2. Sorted(<<g>> \o Below, ApartPairs)
    BY <1>2, <1>3, <2>1, SortedPush
  <2>3. <<g>> \o Below \in Seq(Good)
    BY <1>2, <2>1, PushType
  <2>. QED  BY <1>4, <2>2, <2>3 DEF Nested
<1>7. Tears(Resume(g)) = Tears(stack)
  <2>1. /\ g.op \in {"dtor", "revoke"} => Tears(<<g>> \o Below) = Tears(Below) \cup {g.scope}
        /\ g.op \notin {"dtor", "revoke"} => Tears(<<g>> \o Below) = Tears(Below)
    BY <1>1, TearsPushed
  <2>. QED  BY <1>1, <1>2, <1>4, <2>1
<1>8. \A i \in DOMAIN Resume(g) : Resume(g)[i] = g \/ \E j \in DOMAIN Below : Resume(g)[i] = Below[j]
  BY <1>1, <1>4, PushedPositions
<1>9. op # "erase" => NoneAlive(Resume(g))
  BY <1>1, <1>7 DEF NoneAlive
<1>. QED  BY <1>2, <1>5, <1>6, <1>7, <1>8, <1>9 DEF Waits

(* What the running call concerns is its callers' business to allow.       *)
LEMMA BelowCallers ==
  ASSUME LayerInv, Layered, NEW op \in {"arm", "apply", "stop", "erase"}, Running(op)
  PROVE  /\ Callers(Top.rec, Below)
         /\ Live(Top.rec) =>
              \A j \in DOMAIN Below : Below[j].op \in {"apply", "stop"} => Below[j].rec # Top.rec
<1>1. TypeOK
  BY DEF LayerInv, TreeInv
<1>2. /\ Top.op = op /\ Waits(Below)
      /\ \A j \in DOMAIN Below : Below[j] \in Frame /\ Apart(Top, Below[j])
  BY RunningLayers
<1>3. \A j \in DOMAIN Below : Below[j] \in RecCallers(Top.rec)
  BY <1>2 DEF Apart, Within, Arming, RecCallers
<1>4. Live(Top.rec) =>
        \A j \in DOMAIN Below : Below[j].op \in {"apply", "stop"} => Below[j].rec # Top.rec
  BY <1>1, <1>3, CallersApart
<1>. QED  BY <1>2, <1>3, <1>4 DEF Callers

(* A loop over the watchers ends, and so does a watcher of the host.       *)
LEMMA FireDoneLayers ==
  ASSUME LayerInv, Layered, FireDone \/ CallbackReturns
  PROVE  Layers'
<1>1. PICK op \in {"fire", "callback"} :
        Running(op) /\ stack' = Below /\ UNCHANGED <<services, watchers, recs, scopes>>
  BY DEF FireDone, CallbackReturns
<1>2. Below \in Seq(Known) /\ Nested(Below) /\ Tears(stack) = Tears(Below) /\ Exists(Root)
  BY <1>1, RunningLayers
<1>. QED  BY <1>1, <1>2, DetailLayers DEF Live, Exists

(* A step that notes something in the running call's record.               *)
NoteShape(r) ==
  /\ Live(r) /\ r \in RecIds
  /\ \A q \in RecIds : Live(q)' = Live(q)
  /\ \A q \in RecIds \ {r} : recs'[q] = recs[q]
  /\ recs'[r].plugin = recs[r].plugin /\ recs'[r].host = recs[r].host /\ recs'[r].lib = recs[r].lib
  /\ recs'[r].state = recs[r].state /\ recs'[r].scope = recs[r].scope
  /\ UNCHANGED <<services, scopes, watchers>>

(* watch() hands over a token, apply() returns, stopRecord() lets go of    *)
(* instance and services: each changes details of one record.              *)
LEMMA NoteShapes ==
  ASSUME TypeOK, ArmToken \/ ApplyReturns \/ StopRelease
  PROVE  /\ NoteShape(Top.rec)
         /\ ArmToken => recs'[Top.rec].inst = recs[Top.rec].inst /\ recs'[Top.rec].uses = recs[Top.rec].uses
         /\ ApplyReturns =>
              /\ recs'[Top.rec].inst =
                   recs[Top.rec].inst + (IF Form[recs[Top.rec].plugin] = "class" THEN 1 ELSE 0)
              /\ recs'[Top.rec].uses = recs[Top.rec].uses
         /\ StopRelease => recs'[Top.rec].inst = 0 /\ recs'[Top.rec].uses = {}
<1>1. /\ recs[Top.rec] \in LoadRecord /\ Live(Top.rec) /\ Top.rec \in RecIds
      /\ recs \in [RecIds -> LoadRecord \cup {NoRec}] /\ UNCHANGED <<services, watchers, scopes>>
  BY LiveRecord DEF ArmToken, ApplyReturns, StopRelease, TypeOK
<1>2. ASSUME NEW rec \in LoadRecord, recs' = [recs EXCEPT ![Top.rec] = rec],
             rec.host = recs[Top.rec].host, rec.plugin = recs[Top.rec].plugin,
             rec.lib = recs[Top.rec].lib, rec.state = recs[Top.rec].state,
             rec.scope = recs[Top.rec].scope
      PROVE  NoteShape(Top.rec) /\ recs'[Top.rec] = rec
  <2>1. recs'[Top.rec] = rec /\ \A q \in RecIds \ {Top.rec} : recs'[q] = recs[q]
    BY <1>1, <1>2
  <2>2. \A q \in RecIds : Live(q)' = Live(q)
    BY <1>1, <2>1, NullAssumption DEF Live
  <2>. QED  BY <1>1, <1>2, <2>1, <2>2 DEF NoteShape
<1>3. ASSUME ArmToken
      PROVE  NoteShape(Top.rec) /\ recs'[Top.rec].inst = recs[Top.rec].inst
             /\ recs'[Top.rec].uses = recs[Top.rec].uses
  <2>1. PICK toks : toks = recs[Top.rec].tokens \cup {w.tok : w \in Top.todo}
    OBVIOUS
  <2>2. PICK rec : rec = [recs[Top.rec] EXCEPT !.tokens = toks]
    OBVIOUS
  <2>3. recs' = [recs EXCEPT ![Top.rec] = rec] /\ Running("arm")
    BY <1>3, <2>1, <2>2 DEF ArmToken
  <2>4. Top \in Frame /\ Top.op = "arm"
    BY <2>3, RunningStack
  <2>5. toks \in SUBSET Tokens
    BY <1>1, <2>1, <2>4 DEF Frame, LoadRecord, Watcher
  <2>6. /\ rec \in LoadRecord /\ rec.host = recs[Top.rec].host /\ rec.state = recs[Top.rec].state
        /\ rec.plugin = recs[Top.rec].plugin /\ rec.lib = recs[Top.rec].lib
        /\ rec.scope = recs[Top.rec].scope
        /\ rec.inst = recs[Top.rec].inst /\ rec.uses = recs[Top.rec].uses
    BY <1>1, <2>2, <2>5 DEF LoadRecord
  <2>. QED  BY <1>2, <2>3, <2>6
<1>4. ASSUME ApplyReturns
      PROVE  NoteShape(Top.rec) /\ recs'[Top.rec].inst =
                   recs[Top.rec].inst + (IF Form[recs[Top.rec].plugin] = "class" THEN 1 ELSE 0)
             /\ recs'[Top.rec].uses = recs[Top.rec].uses
  <2>1. PICK n : n = recs[Top.rec].inst + (IF Form[recs[Top.rec].plugin] = "class" THEN 1 ELSE 0)
    OBVIOUS
  <2>2. PICK rec : rec = [recs[Top.rec] EXCEPT !.inst = n]
    OBVIOUS
  <2>3. recs' = [recs EXCEPT ![Top.rec] = rec]
    BY <1>4, <2>1, <2>2 DEF ApplyReturns
  <2>4. n \in Nat
    BY <1>1, <2>1 DEF LoadRecord
  <2>5. /\ rec \in LoadRecord /\ rec.host = recs[Top.rec].host /\ rec.state = recs[Top.rec].state
        /\ rec.plugin = recs[Top.rec].plugin /\ rec.lib = recs[Top.rec].lib
        /\ rec.scope = recs[Top.rec].scope /\ rec.inst = n /\ rec.uses = recs[Top.rec].uses
    BY <1>1, <2>2, <2>4 DEF LoadRecord
  <2>. QED  BY <1>2, <2>1, <2>3, <2>5
<1>5. ASSUME StopRelease
      PROVE  NoteShape(Top.rec) /\ recs'[Top.rec].inst = 0 /\ recs'[Top.rec].uses = {}
  <2>1. PICK rec : rec = Released(Top.rec)
    OBVIOUS
  <2>2. recs' = [recs EXCEPT ![Top.rec] = rec]
    BY <1>5, <2>1 DEF StopRelease
  <2>3. /\ rec \in LoadRecord /\ rec.host = recs[Top.rec].host /\ rec.state = recs[Top.rec].state
        /\ rec.plugin = recs[Top.rec].plugin /\ rec.lib = recs[Top.rec].lib
        /\ rec.scope = recs[Top.rec].scope /\ rec.inst = 0 /\ rec.uses = {}
    BY <1>1, <2>1 DEF LoadRecord, Released
  <2>. QED  BY <1>2, <2>2, <2>3
<1>. QED  BY <1>3, <1>4, <1>5

(* Noting a sentinel's token preserves Layers ...                          *)
LEMMA ArmTokenLayers ==
  ASSUME LayerInv, Layered, ArmToken
  PROVE  Layers'
<1>1. TypeOK
  BY DEF LayerInv, TreeInv
<1>2. /\ Running("arm") /\ NoteShape(Top.rec) /\ recs'[Top.rec].inst = recs[Top.rec].inst
  BY <1>1, NoteShapes DEF ArmToken
<1>3. PICK g : g = [Top EXCEPT !.todo = {}, !.ix = Top.ix + 1]
  OBVIOUS
<1>4. stack' = Resume(g)
  BY <1>3 DEF ArmToken
<1>5. Top \in Frame /\ Top \in Known /\ Top.op = "arm" /\ Exists(Root)
  BY <1>2, RunningLayers
<1>6. g \in Frame /\ g.op = Top.op /\ g.rec = Top.rec /\ g.scope = Top.scope /\ g.todo = {}
  <2>1. Top.ix + 1 \in Nat
    BY <1>5 DEF Frame
  <2>. QED  BY <1>3, <1>5, <2>1 DEF Frame
<1>7. g \in Known /\ Later(g, Top)
  BY <1>5, <1>6 DEF Known, Later
<1>8. Resume(g) \in Seq(Known) /\ Nested(Resume(g)) /\ Tears(Resume(g)) = Tears(stack)
  BY <1>2, <1>6, <1>7, ResumedLayers
<1>. DEFINE q == Resume(g)
<1>9. \A r \in RecIds : recs'[r].inst = recs[r].inst
  BY <1>2 DEF NoteShape
<1>10. \A i \in DOMAIN q : q[i].op \in {"apply", "stop"} => recs'[q[i].rec].inst = recs[q[i].rec].inst
  <2>1. \A i \in DOMAIN q : q[i] \in Good
    BY <1>8 DEF Nested
  <2>. QED  BY <1>9, <2>1 DEF Good, Live
<1>11. q \in Seq(Known) /\ Nested(q) /\ Tears(q) = Tears(stack) /\ stack' = q
  BY <1>4, <1>8
<1>. HIDE DEF q
<1>. QED  BY <1>2, <1>5, <1>10, <1>11, DetailLayers DEF NoteShape, Exists

(* ... and so does the return of apply() or of stopRecord().               *)
LEMMA NoteLayers ==
  ASSUME LayerInv, Layered, ApplyReturns \/ StopRelease
  PROVE  Layers'
<1>1. TypeOK
  BY DEF LayerInv, TreeInv
<1>2. PICK op \in {"apply", "stop"} : Running(op) /\ NoteShape(Top.rec) /\ stack' = Below
  BY <1>1, NoteShapes DEF ApplyReturns, StopRelease
<1>3. \A j \in DOMAIN Below : Below[j].op \in {"apply", "stop"} => Below[j].rec # Top.rec
  BY <1>2, BelowCallers DEF NoteShape
<1>4. /\ Below \in Seq(Known) /\ Nested(Below) /\ Tears(stack) = Tears(Below) /\ Exists(Root)
      /\ \A j \in DOMAIN Below : Below[j] \in Good
  BY <1>2, RunningLayers
<1>5. \A j \in DOMAIN Below : Below[j].op \in {"apply", "stop"} =>
        recs'[Below[j].rec].inst = recs[Below[j].rec].inst
  BY <1>2, <1>3, <1>4 DEF Good, Live, NoteShape
<1>. QED  BY <1>2, <1>4, <1>5, DetailLayers DEF NoteShape, Exists

(* Pushing a frame that concerns nothing new.                              *)
LEMMA ArmNextParts ==
  ASSUME LayerInv, Layered, TypeOK', ArmNext
  PROVE  \E w \in Watcher, g \in Frame :
           /\ watchers' = watchers \cup {w} /\ UNCHANGED services
           /\ CallWatcher(w, Available(w.svc), Resume(g))
           /\ Running("arm") /\ Live(Top.rec)
           /\ w.rec = Top.rec /\ w.host = Top.scope /\ HeardRight(w)
           /\ g.op = "arm" /\ g.rec = Top.rec /\ g.scope = Top.scope /\ g.todo = {w} /\ g.ix = Top.ix
           /\ Callers(Top.rec, Resume(g))
<1>1. TypeOK /\ Running("arm") /\ Live(Top.rec) /\ Top.rec \in RecIds
      /\ Top.ix \in DOMAIN Requires[recs[Top.rec].plugin] /\ UNCHANGED services
  BY SMTT(40) DEF LayerInv, TreeInv, ArmNext, Live
<1>. DEFINE s == Requires[recs[Top.rec].plugin][Top.ix]
<1>2. PICK t \in Tokens :
        LET w == [tok |-> t, svc |-> s, rec |-> Top.rec, host |-> Top.scope] IN
        /\ Register(w)
        /\ CallWatcher(w, Available(s), Resume([Top EXCEPT !.todo = {w}]))
  BY Zenon DEF ArmNext
<1>3. PICK w : w = [tok |-> t, svc |-> s, rec |-> Top.rec, host |-> Top.scope]
  OBVIOUS
<1>4. PICK g : g = [Top EXCEPT !.todo = {w}]
  OBVIOUS
<1>5. watchers' = watchers \cup {w} /\ CallWatcher(w, Available(s), Resume(g))
      /\ w.svc = s /\ w.rec = Top.rec /\ w.host = Top.scope
  BY <1>2, <1>3, <1>4 DEF Register
<1>6. w \in Watcher
  <2>1. w \in watchers'
    BY <1>5
  <2>. QED  BY <2>1 DEF TypeOK
<1>7. Top \in Frame /\ Top \in Known /\ Top.op = "arm"
  BY <1>1, RunningLayers
<1>8. g \in Frame /\ g.op = "arm" /\ g.rec = Top.rec /\ g.scope = Top.scope /\ g.todo = {w} /\ g.ix = Top.ix
  BY <1>4, <1>6, <1>7 DEF Frame
<1>9. HeardRight(w)
  BY <1>1, <1>5 DEF HeardRight, Required, ToSet
<1>10. g \in Known /\ Later(g, Top)
  BY <1>5, <1>7, <1>8, <1>9 DEF Known, Later
<1>11. /\ Waits(Resume(g))
       /\ \A i \in DOMAIN Resume(g) : Resume(g)[i] = g \/ \E j \in DOMAIN Below : Resume(g)[i] = Below[j]
  BY <1>1, <1>8, <1>10, ResumedLayers
<1>12. \A j \in DOMAIN Below : Below[j] \in RecCallers(Top.rec)
  BY <1>1, BelowCallers DEF Callers
<1>13. g \in RecCallers(Top.rec)
  BY <1>8 DEF RecCallers
<1>14. Callers(Top.rec, Resume(g))
  BY <1>11, <1>12, <1>13 DEF Callers
<1>. QED  BY <1>1, <1>5, <1>6, <1>8, <1>9, <1>14

(* That call preserves Layers ...                                          *)
LEMMA ArmNextLayers ==
  ASSUME LayerInv, Layered, TypeOK', ArmNext
  PROVE  Layers'
<1>1. PICK w \in Watcher, g \in Frame :
           /\ watchers' = watchers \cup {w} /\ UNCHANGED services
           /\ CallWatcher(w, Available(w.svc), Resume(g))
           /\ Running("arm") /\ Live(Top.rec)
           /\ w.rec = Top.rec /\ w.host = Top.scope /\ HeardRight(w)
           /\ Callers(Top.rec, Resume(g))
  BY ArmNextParts
<1>2. Exists(Root) /\ Top \in Known
  BY <1>1, RunningLayers
<1>3. w.rec \in UsedRecs /\ w.rec # NoRec
  BY <1>1, <1>2, ContextAssumption DEF Known, Live
<1>4. SentinelsHeard
  BY <1>1, <1>3 DEF SentinelsHeard
<1>. DEFINE q == Resume(g)
<1>5. Waits(q) /\ \A i \in DOMAIN q : q[i] \in RecCallers(w.rec)
  BY <1>1 DEF Callers
<1>6. CallWatcher(w, Available(w.svc), q) /\ Available(w.svc) \in BOOLEAN
  BY <1>1 DEF Available
<1>. HIDE DEF q
<1>. QED  BY <1>1, <1>2, <1>3, <1>4, <1>5, <1>6, WatcherLayers

(* ... and so does the start that addRecord() ends with.                   *)
LEMMA ArmStartsLayers ==
  ASSUME LayerInv, Layered, TypeOK', ArmStarts
  PROVE  Layers'
<1>1. Running("arm") /\ Live(Top.rec) /\ EnsureStarted(Top.rec, Below) /\ UNCHANGED <<services, watchers>>
  BY DEF ArmStarts
<1>2. Callers(Top.rec, Below)
  BY <1>1, BelowCallers
<1>3. Exists(Root)
  BY <1>1, RunningLayers
<1>4. SentinelsHeard
  BY <1>1 DEF SentinelsHeard
<1>. QED  BY <1>1, <1>2, <1>3, <1>4, StartCallLayers

(* A plugin whose apply() throws is stopped above the same callers.        *)
LEMMA ApplyThrowsLayers ==
  ASSUME LayerInv, Layered, ApplyThrows
  PROVE  Layers'
<1>1. Running("apply") /\ Live(Top.rec) /\ StopRecord(Top.rec, "Failed", Below) /\ UNCHANGED <<services, watchers>>
  BY DEF ApplyThrows
<1>2. Callers(Top.rec, Below)
  BY <1>1, BelowCallers
<1>3. Exists(Root)
  BY <1>1, RunningLayers
<1>4. SentinelsHeard
  BY <1>1 DEF SentinelsHeard
<1>. QED  BY <1>1, <1>2, <1>3, <1>4, StopCallLayers

(* Whoever a plugin concerns that hears of a service, a loop over its      *)
(* watchers is below.                                                      *)
LEMMA FireNextParts ==
  ASSUME LayerInv, Layered, FireNext
  PROVE  \E w \in Watcher, g \in Frame :
           /\ Running("fire") /\ w \in Top.todo /\ IsNext(w, Top.todo)
           /\ g.op = "fire" /\ g.val = Top.val /\ g.todo = Top.todo \ {w}
           /\ g.rec = Top.rec /\ g.scope = Top.scope /\ g.ix = Top.ix
           /\ CallWatcher(w, Top.val, Resume(g)) /\ HeardRight(w) /\ w.rec \in UsedRecs
           /\ Waits(Resume(g))
           /\ \A i \in DOMAIN Resume(g) :
                IF w.rec = NoRec
                THEN ~Top.val => Fallback[w.svc] \cup Retire[w.svc] \subseteq Over(Resume(g)[i])
                ELSE Resume(g)[i] \in RecCallers(w.rec)
           /\ UNCHANGED <<services, watchers>>
<1>1. Running("fire") /\ UNCHANGED <<services, watchers>> /\ TypeOK
  BY DEF FireNext, LayerInv, TreeInv
<1>2. /\ Top \in Frame /\ Top \in Known /\ Top \in Good /\ Top.op = "fire"
      /\ \A j \in DOMAIN Below : Below[j] \in Frame /\ Apart(Top, Below[j])
  BY <1>1, RunningLayers
<1>3. PICK w \in Top.todo : IsNext(w, Top.todo) /\ CallWatcher(w, Top.val, Resume([Top EXCEPT !.todo = Top.todo \ {w}]))
  BY DEF FireNext, IsNext
<1>4. PICK g : g = [Top EXCEPT !.todo = Top.todo \ {w}]
  OBVIOUS
<1>5. w \in Watcher /\ w.svc \in Services
  BY <1>2 DEF Frame, Watcher
<1>6. /\ g \in Frame /\ g.op = "fire" /\ g.val = Top.val /\ g.todo = Top.todo \ {w}
      /\ g.rec = Top.rec /\ g.scope = Top.scope /\ g.ix = Top.ix
  <2>1. Top.todo \ {w} \in SUBSET Watcher
    BY <1>2 DEF Frame
  <2>. QED  BY <1>2, <1>4, <2>1 DEF Frame
<1>7. g \in Known /\ Later(g, Top) /\ HeardRight(w) /\ w.rec \in UsedRecs
  BY <1>2, <1>6 DEF Known, Later, Good
<1>8. /\ Waits(Resume(g))
      /\ \A i \in DOMAIN Resume(g) : Resume(g)[i] = g \/ \E j \in DOMAIN Below : Resume(g)[i] = Below[j]
  BY <1>1, <1>6, <1>7, ResumedLayers
<1>9. Hears(w.svc) \subseteq Over(g)
  <2>1. \A v \in g.todo : v.svc = w.svc
    BY <1>2, <1>6 DEF Good
  <2>2. \A p \in Bases(g) : p \in Plugins /\ Provider(p, w.svc)
    BY <1>6, <2>1 DEF Bases
  <2>3. Hears(w.svc) \subseteq Plugins
    BY <1>5, HearsPlugins
  <2>. QED  BY <1>5, <2>2, <2>3 DEF Over, Layered
<1>10. Live(w.rec) => recs[w.rec].plugin \in Hears(w.svc)
  BY <1>1, <1>7, RecordPlugin DEF HeardRight, Required, Hears
<1>11. g \in (IF w.rec = NoRec THEN Frame ELSE RecCallers(w.rec))
  BY <1>6, <1>9, <1>10 DEF RecCallers, Of
<1>12. Fallback[w.svc] \cup Retire[w.svc] \subseteq Over(g)
  BY <1>9 DEF Hears
<1>13. ASSUME NEW j \in DOMAIN Below
       PROVE  IF w.rec = NoRec
              THEN ~Top.val => Fallback[w.svc] \cup Retire[w.svc] \subseteq Over(Below[j])
              ELSE Below[j] \in RecCallers(w.rec)
  <2>1. Within(Top, Over(Below[j])) /\ Below[j] \in Frame
    BY <1>2 DEF Apart, Arming
  <2>. QED  BY <1>2, <2>1 DEF Within, RecCallers
<1>14. ASSUME NEW i \in DOMAIN Resume(g)
       PROVE  IF w.rec = NoRec
                THEN ~Top.val => Fallback[w.svc] \cup Retire[w.svc] \subseteq Over(Resume(g)[i])
                ELSE Resume(g)[i] \in RecCallers(w.rec)
  BY <1>8, <1>11, <1>12, <1>13
<1>15. CallWatcher(w, Top.val, Resume(g))
  BY <1>3, <1>4
<1>. QED  BY <1>1, <1>3, <1>5, <1>6, <1>7, <1>8, <1>14, <1>15

(* fireWatchers() calls its next watcher, which preserves Layers.          *)
LEMMA FireNextLayers ==
  ASSUME LayerInv, Layered, TypeOK', FireNext
  PROVE  Layers'
<1>1. PICK w \in Watcher, g \in Frame :
           /\ Running("fire") /\ w \in Top.todo
           /\ CallWatcher(w, Top.val, Resume(g)) /\ HeardRight(w) /\ w.rec \in UsedRecs
           /\ Waits(Resume(g))
           /\ \A i \in DOMAIN Resume(g) :
                IF w.rec = NoRec
                THEN ~Top.val => Fallback[w.svc] \cup Retire[w.svc] \subseteq Over(Resume(g)[i])
                ELSE Resume(g)[i] \in RecCallers(w.rec)
           /\ UNCHANGED <<services, watchers>>
  BY FireNextParts
<1>2. Exists(Root) /\ Top \in Frame
  BY <1>1, RunningLayers
<1>3. SentinelsHeard
  BY <1>1 DEF SentinelsHeard
<1>4. PICK v \in BOOLEAN : v = Top.val
  BY <1>2 DEF Frame
<1>5. PICK q : q = Resume(g)
  OBVIOUS
<1>6. /\ Waits(q) /\ CallWatcher(w, v, q)
      /\ \A i \in DOMAIN q :
                IF w.rec = NoRec
                THEN ~v => Fallback[w.svc] \cup Retire[w.svc] \subseteq Over(q[i])
                ELSE q[i] \in RecCallers(w.rec)
  BY <1>1, <1>4, <1>5
<1>. QED  BY <1>1, <1>2, <1>3, <1>6, WatcherLayers

(* The rest of unload(): the record at position i is to be erased.         *)
EraseCall(r, sc, i) == [Call("erase", r, sc) EXCEPT !.ix = i]

(* unload() stops the record that it found and will erase it afterwards.   *)
LEMMA UnloadParts ==
  ASSUME LayerInv, NEW sc, Exists(sc), NEW p, NEW rest, Waits(rest),
         \A i \in DOMAIN rest : p \in Over(rest[i]), Unload(sc, p, rest)
  PROVE  \E r \in RecIds, x \in Frame :
           /\ Live(r) /\ recs[r].plugin = p /\ recs[r].host = sc
           /\ x.op = "erase" /\ x.rec = r /\ x.scope = sc /\ x.todo = {}
           /\ StopRecord(r, "Disposed", <<x>> \o rest) /\ Callers(r, <<x>> \o rest)
           /\ UNCHANGED <<services, watchers>>
<1>1. TypeOK /\ ListsRight /\ sc \in ScopeIds /\ scopes[sc] \in Scope
  BY ExistingScope DEF LayerInv, TreeInv
<1>2. PICK i \in Named(sc, p) :
        /\ Live(scopes[sc].records[i])
        /\ StopRecord(scopes[sc].records[i], "Disposed",
             <<EraseCall(scopes[sc].records[i], sc, i)>> \o rest)
  BY DEF Unload, EraseCall
<1>3. UNCHANGED <<services, watchers>>
  BY DEF Unload
<1>4. PICK r : r = scopes[sc].records[i]
  OBVIOUS
<1>5. PICK x : x = EraseCall(r, sc, i)
  OBVIOUS
<1>6. /\ Live(r) /\ r \in RecIds /\ StopRecord(r, "Disposed", <<x>> \o rest)
      /\ recs[r].plugin = p /\ i \in Nat /\ recs[r].host = sc
  BY <1>1, <1>2, <1>4, <1>5 DEF Live, Named, Scope, ListsRight, ListRight
<1>7. x \in Frame /\ x.op = "erase" /\ x.rec = r /\ x.scope = sc /\ x.todo = {}
  <2>1. Call("erase", r, sc) \in Frame
    BY <1>1, <1>6, CallType DEF Ops
  <2>. QED  BY <1>5, <1>6, <2>1 DEF EraseCall, Call, Frame
<1>8. x \in Known /\ x \in Good /\ x \in RecCallers(r)
  <2>1. x \in Known
    BY <1>6, <1>7, LiveKnown DEF Known
  <2>2. x \in Good
    BY <1>7 DEF Good
  <2>3. Bases(x) = {}
    BY <1>7 DEF Bases
  <2>4. recs[r].plugin \in Plugins
    BY <1>1, <1>6, RecordPlugin
  <2>. QED  BY <1>7, <2>1, <2>2, <2>3, <2>4 DEF RecCallers, Of, Over
<1>9. \A j \in DOMAIN rest : rest[j] \in Frame /\ rest[j] \in RecCallers(r) /\ <<x, rest[j]>> \in ApartPairs
  <2>1. \A j \in DOMAIN rest : rest[j] \in Frame
    BY DEF Waits
  <2>. QED  BY <1>6, <1>7, <2>1 DEF RecCallers, Of, ApartPairs, Apart, Within
<1>10. /\ rest \in Seq(Frame) /\ rest \in Seq(Known) /\ rest \in Seq(Good) /\ Sorted(rest, ApartPairs)
       /\ NoneAlive(rest) /\ Tears(stack) \subseteq Tears(rest)
  BY DEF Waits, Nested
<1>11. Sorted(<<x>> \o rest, ApartPairs) /\ <<x>> \o rest \in Seq(Good) /\ <<x>> \o rest \in Seq(Known)
       /\ <<x>> \o rest \in Seq(Frame)
  <2>1. Sorted(<<x>> \o rest, ApartPairs)
    BY <1>8, <1>9, <1>10, SortedPush
  <2>2. <<x>> \o rest \in Seq(Good)
    BY <1>8, <1>10, PushType
  <2>3. <<x>> \o rest \in Seq(Known)
    BY <1>8, <1>10, PushType
  <2>4. <<x>> \o rest \in Seq(Frame)
    BY <1>7, <1>10, PushType
  <2>. QED  BY <2>1, <2>2, <2>3, <2>4
<1>12. Tears(<<x>> \o rest) = Tears(rest)
  BY <1>7, <1>10, TearsPushed
<1>13. Waits(<<x>> \o rest)
  BY <1>10, <1>11, <1>12 DEF Waits, Nested, NoneAlive
<1>14. \A j \in DOMAIN (<<x>> \o rest) : (<<x>> \o rest)[j] \in RecCallers(r)
  <2>1. \A j \in DOMAIN (<<x>> \o rest) :
          j = 1 \/ (j - 1 \in DOMAIN rest /\ (<<x>> \o rest)[j] = rest[j - 1])
    BY <1>7, <1>10, PushedPositions
  <2>2. (<<x>> \o rest)[1] = x
    BY <1>7, <1>10, PushedPositions
  <2>. QED  BY <1>8, <1>9, <2>1, <2>2
<1>15. Callers(r, <<x>> \o rest)
  BY <1>13, <1>14 DEF Callers
<1>. QED  BY <1>3, <1>6, <1>7, <1>15

(* unload() preserves Layers when the plugin is above all that wait.       *)
LEMMA UnloadLayers ==
  ASSUME LayerInv, Layered, NEW sc, Exists(sc), NEW p, NEW rest, Waits(rest),
         \A i \in DOMAIN rest : p \in Over(rest[i]), Unload(sc, p, rest), Exists(Root)
  PROVE  Layers'
<1>1. PICK r \in RecIds, x \in Frame :
           /\ Live(r)
           /\ StopRecord(r, "Disposed", <<x>> \o rest) /\ Callers(r, <<x>> \o rest)
           /\ UNCHANGED <<services, watchers>>
  BY UnloadParts
<1>2. SentinelsHeard
  BY <1>1 DEF SentinelsHeard
<1>3. PICK q : q = <<x>> \o rest
  OBVIOUS
<1>4. StopRecord(r, "Disposed", q) /\ Callers(r, q)
  BY <1>1, <1>3
<1>. QED  BY <1>1, <1>2, <1>4, StopCallLayers

(* So does loadPlugin(), into a scope whose owner loads that plugin.       *)
LEMMA LoadLayers ==
  ASSUME LayerInv, TypeOK', NEW sc, Exists(sc), NEW p \in Plugins, NEW rest, Waits(rest),
         \A i \in DOMAIN rest : p \in Over(rest[i]) /\ ~TearsDown(rest[i], sc),
         \A q \in RecIds : Live(q) /\ recs[q].scope = sc => p \in Loads[recs[q].plugin],
         AddRecord(sc, p, rest), Exists(Root)
  PROVE  Layers'
<1>1. TypeOK
  BY DEF LayerInv, TreeInv
<1>2. PICK r \in RecIds : AddShape(r, sc, p, rest)
  BY <1>1, AddShapes
<1>3. rest \in Seq(Known) /\ rest \in Seq(Frame) /\ Nested(rest) /\ Tears(stack) \subseteq Tears(rest)
  BY DEF Waits
<1>4. rest \in Seq(CallersOf({p}))
  <2>0. PICK S : S = CallersOf({p})
    OBVIOUS
  <2>1. \A i \in DOMAIN rest : rest[i] \in S
    BY <1>3, <2>0 DEF CallersOf
  <2>2. rest \in Seq(S)
    BY <1>3, <2>1
  <2>. QED  BY <2>0, <2>2
<1>. QED  BY <1>2, <1>3, <1>4, AddLayers

(* What a plugin's body may call: everything above its own level.          *)
LEMMA ApplyAbove ==
  ASSUME LayerInv, Layered, Running("apply"), Live(Top.rec),
         NEW q \in Plugins, Level[recs[Top.rec].plugin] < Level[q]
  PROVE  \A i \in DOMAIN stack : q \in Over(stack[i])
<1>1. TypeOK
  BY DEF LayerInv, TreeInv
<1>2. recs[Top.rec].plugin \in Plugins /\ Level \in [Plugins -> Nat]
  BY <1>1, RecordPlugin DEF Layered
<1>3. /\ Top \in Frame /\ Top.op = "apply" /\ Below \in Seq(Frame) /\ stack = <<Top>> \o Below
      /\ \A j \in DOMAIN Below : Apart(Top, Below[j])
  BY RunningLayers
<1>4. ASSUME NEW g, recs[Top.rec].plugin \in Over(g) PROVE q \in Over(g)
  <2>1. Bases(g) \subseteq Plugins
    BY DEF Bases
  <2>2. \A p \in Bases(g) : Level[p] < Level[recs[Top.rec].plugin]
    BY <1>4 DEF Over
  <2>3. \A p \in Bases(g) : Level[p] < Level[q]
    BY <1>2, <2>1, <2>2
  <2>. QED  BY <2>3 DEF Over
<1>5. ASSUME NEW g, g.op \in {"arm", "apply"}, g.rec = Top.rec PROVE q \in Over(g)
  BY <1>5 DEF Over, Bases
<1>6. \A j \in DOMAIN Below : q \in Over(Below[j])
  <2>1. SUFFICES ASSUME NEW j \in DOMAIN Below PROVE q \in Over(Below[j])
    OBVIOUS
  <2>2. CASE Within(Top, Over(Below[j]))
    BY <1>3, <1>4, <2>2 DEF Within, Of
  <2>3. CASE Arming(Top, Below[j])
    BY <1>5, <2>3 DEF Arming
  <2>. QED  BY <1>3, <2>2, <2>3 DEF Apart
<1>7. q \in Over(Top)
  BY <1>3, <1>5
<1>. QED  BY <1>3, <1>6, <1>7, PushedPositions

(* While a plugin's body runs, its scope is open and nobody tears it down. *)
LEMMA ApplyWaits ==
  ASSUME LayerInv, Applying
  PROVE  /\ Running("apply") /\ Live(Top.rec) /\ Exists(Top.scope) /\ Top.scope \in ScopeIds
         /\ Top.rec \in RecIds /\ recs[Top.rec].plugin \in Plugins
         /\ recs[Top.rec].scope = Top.scope /\ HasAll(Top.rec) /\ Exists(Root)
         /\ Waits(stack) /\ \A i \in DOMAIN stack : ~TearsDown(stack[i], Top.scope)
         /\ \A q \in RecIds : Live(q) /\ recs[q].scope = Top.scope => q = Top.rec
<1>1. TypeOK /\ TreeInv /\ Layers
  BY DEF LayerInv, TreeInv
<1>2. Running("apply") /\ Live(Top.rec) /\ Exists(Top.scope) /\ Top.scope \in ScopeIds
  BY DEF Applying, Exists
<1>3. Top.rec \in RecIds /\ recs[Top.rec].plugin \in Plugins
  BY <1>1, <1>2, RecordPlugin
<1>4. /\ Top \in Good /\ Top.op = "apply" /\ Exists(Root) /\ NoneAlive(stack)
  BY <1>2, RunningLayers
<1>5. recs[Top.rec].scope = Top.scope /\ HasAll(Top.rec) /\ Top.scope # NoScope
  BY <1>4 DEF Good
<1>6. stack \in Seq(Frame) /\ stack \in Seq(Known)
  BY <1>1, StackKnown DEF TypeOK
<1>7. Waits(stack)
  BY <1>1, <1>4, <1>6 DEF Waits, Layers
<1>8. OwnRight(Top.rec)
  BY <1>1, <1>2, <1>3, <1>5 DEF Layers, Placed
<1>9. \A i \in DOMAIN stack : ~TearsDown(stack[i], Top.scope)
  BY <1>2, <1>4, <1>5, <1>8 DEF OwnRight, NoneAlive, Tears, TearsDown
<1>. QED  BY <1>2, <1>3, <1>4, <1>5, <1>7, <1>8, <1>9 DEF OwnRight

(* A plugin that loads another one preserves Layers ...                    *)
LEMMA ApplyLoadLayers ==
  ASSUME LayerInv, Layered, TypeOK', NEW p \in Plugins, ApplyLoad(p)
  PROVE  Layers'
<1>1. Applying /\ p \in Loads[recs[Top.rec].plugin] /\ AddRecord(Top.scope, p, stack)
  BY DEF ApplyLoad
<1>2. /\ Running("apply") /\ Live(Top.rec) /\ Exists(Top.scope)
      /\ recs[Top.rec].plugin \in Plugins /\ Exists(Root)
      /\ Waits(stack) /\ \A i \in DOMAIN stack : ~TearsDown(stack[i], Top.scope)
      /\ \A q \in RecIds : Live(q) /\ recs[q].scope = Top.scope => q = Top.rec
  BY <1>1, ApplyWaits
<1>3. \A i \in DOMAIN stack : p \in Over(stack[i])
  <2>1. Level[recs[Top.rec].plugin] < Level[p]
    BY <1>1, <1>2 DEF Layered
  <2>. QED  BY <1>2, <2>1, ApplyAbove
<1>4. PICK sc : sc = Top.scope
  OBVIOUS
<1>5. PICK q : q = stack
  OBVIOUS
<1>6. /\ Exists(sc) /\ Waits(q) /\ AddRecord(sc, p, q)
      /\ \A i \in DOMAIN q : p \in Over(q[i]) /\ ~TearsDown(q[i], sc)
      /\ \A x \in RecIds : Live(x) /\ recs[x].scope = sc => p \in Loads[recs[x].plugin]
  BY <1>1, <1>2, <1>3, <1>4, <1>5
<1>. QED  BY <1>2, <1>6, LoadLayers

(* ... and so does one that unloads another from the scope which lists     *)
(* itself ...                                                              *)
LEMMA ApplyEvictLayers ==
  ASSUME LayerInv, Layered, NEW p \in Plugins, ApplyEvict(p)
  PROVE  Layers'
<1>1. /\ Applying /\ Exists(recs[Top.rec].host) /\ p \in Evicts[recs[Top.rec].plugin]
      /\ Unload(recs[Top.rec].host, p, stack)
  BY DEF ApplyEvict
<1>2. /\ Running("apply") /\ Live(Top.rec) /\ recs[Top.rec].plugin \in Plugins /\ Exists(Root)
      /\ Waits(stack)
  BY <1>1, ApplyWaits
<1>3. \A i \in DOMAIN stack : p \in Over(stack[i])
  <2>1. Level[recs[Top.rec].plugin] < Level[p]
    BY <1>1, <1>2 DEF Layered
  <2>. QED  BY <1>2, <2>1, ApplyAbove
<1>4. PICK sc : sc = recs[Top.rec].host
  OBVIOUS
<1>5. PICK q : q = stack
  OBVIOUS
<1>6. /\ Exists(sc) /\ Waits(q) /\ Unload(sc, p, q)
      /\ \A i \in DOMAIN q : p \in Over(q[i])
  BY <1>1, <1>2, <1>3, <1>4, <1>5
<1>. QED  BY <1>2, <1>6, UnloadLayers

(* ... and the host that loads or unloads plugins when a service is lost.  *)
LEMMA CallbackLayers ==
  ASSUME LayerInv, Layered, TypeOK', NEW p \in Plugins, CallbackLoads(p) \/ CallbackUnloads(p)
  PROVE  Layers'
<1>1. Running("callback") /\ ~Top.val /\ Exists(Root) /\ TreeInv
      /\ \E w \in Top.todo : p \in Fallback[w.svc] \cup Retire[w.svc]
  BY DEF CallbackLoads, CallbackUnloads, LayerInv
<1>2. /\ Top \in Good /\ Top.op = "callback" /\ Waits(Below)
      /\ \A j \in DOMAIN Below : Apart(Top, Below[j])
  BY <1>1, RunningLayers
<1>3. \A j \in DOMAIN Below : p \in Over(Below[j])
  BY <1>1, <1>2 DEF Good, Apart, Within, Arming
<1>4. \A j \in DOMAIN Below : ~TearsDown(Below[j], Root)
  <2>1. Root \in ScopeIds /\ WorksIn(Top, Root)
    BY <1>2, ContextAssumption DEF WorksIn
  <2>. QED  BY <1>1, <2>1, TopRight
<1>5. PICK q : q = Below
  OBVIOUS
<1>6. Waits(q) /\ \A j \in DOMAIN q : p \in Over(q[j]) /\ ~TearsDown(q[j], Root)
  BY <1>2, <1>3, <1>4, <1>5
<1>7. CASE CallbackLoads(p)
  <2>1. AddRecord(Root, p, q)
    BY <1>5, <1>7 DEF CallbackLoads
  <2>2. \A x \in RecIds : Live(x) => recs[x].scope # Root
    <3>1. Root # NoScope
      BY RegistryAssumption, ContextAssumption
    <3>. QED  BY <3>1 DEF LayerInv, Layers, Placed, OwnRight
  <2>. QED  BY <1>1, <1>6, <2>1, <2>2, LoadLayers
<1>8. CASE CallbackUnloads(p)
  <2>1. Unload(Root, p, q)
    BY <1>5, <1>8 DEF CallbackUnloads
  <2>. QED  BY <1>1, <1>6, <2>1, UnloadLayers
<1>. QED  BY <1>7, <1>8

(* What provide() changes, but for the registry's entry and its loop.      *)
ProvideShape(s, sc) ==
  /\ UNCHANGED <<recs, watchers>>
  /\ \A t \in ScopeIds :
       /\ Exists(t)' = Exists(t)
       /\ Exists(t) => /\ scopes'[t].records = scopes[t].records /\ scopes'[t].alive = scopes[t].alive
                       /\ scopes'[t].retired = scopes[t].retired
  /\ \A t \in Services \ {s} : services'[t] = services[t]
  /\ services'[s] = IF services[s] = NoScope THEN sc ELSE services[s]

(* ServiceRegistry::provide() enters a service nobody provides yet and     *)
(* tells its watchers; a second provider is turned away.                   *)
LEMMA ProvideShapes ==
  ASSUME TypeOK, NEW s \in Services, NEW sc, Exists(sc), NEW rest \in Seq(Frame),
         ProvideService(s, sc, rest)
  PROVE  /\ ProvideShape(s, sc)
         /\ services[s] # NoScope => stack' = rest
         /\ services[s] = NoScope => stack' = <<FireWatchers(TRUE, Snapshot(s))>> \o rest
<1>1. sc \in ScopeIds /\ scopes[sc] \in Scope /\ scopes \in [ScopeIds -> Scope \cup {Gone}]
      /\ services \in [Services -> ScopeIds \cup {NoScope}]
  BY ExistingScope DEF TypeOK
<1>2. UNCHANGED <<recs, watchers>> /\ scopes' = [scopes EXCEPT ![sc].provided = Append(@, s)]
      /\ ProvideEntry(s, sc)
  BY DEF ProvideService
<1>3. /\ \A t \in ScopeIds \ {sc} : scopes'[t] = scopes[t]
      /\ scopes'[sc] \in Scope /\ scopes'[sc].retired = scopes[sc].retired
      /\ scopes'[sc].records = scopes[sc].records /\ scopes'[sc].alive = scopes[sc].alive
  <2>1. PICK longer : longer = Append(scopes[sc].provided, s)
    OBVIOUS
  <2>2. longer \in Seq(Services)
    BY <1>1, <2>1 DEF Scope
  <2>3. scopes' = [scopes EXCEPT ![sc] = [scopes[sc] EXCEPT !.provided = longer]]
    BY <1>1, <1>2, <2>1
  <2>. QED  BY <1>1, <2>2, <2>3 DEF Scope
<1>4. /\ \A t \in Services \ {s} : services'[t] = services[t]
      /\ services'[s] = IF services[s] = NoScope THEN sc ELSE services[s]
  BY <1>1, <1>2 DEF ProvideEntry, Appears
<1>5. \A t \in ScopeIds : Exists(t)' = Exists(t)
  BY <1>1, <1>3, NullAssumption DEF Exists
<1>6. services[s] # NoScope => stack' = rest
  <2>1. services[s] # NoScope => stack' = <<>> \o rest
    BY DEF ProvideService, Appears
  <2>. QED  BY <2>1
<1>7. services[s] = NoScope => stack' = <<FireWatchers(TRUE, Snapshot(s))>> \o rest
  BY DEF ProvideService, Appears
<1>. QED  BY <1>2, <1>3, <1>4, <1>5, <1>6, <1>7 DEF ProvideShape

(* The loop over the watchers of s concerns only who hears of s.           *)
LEMMA FireFrame ==
  ASSUME TypeOK, NEW s \in Services, NEW v \in BOOLEAN, \A w \in watchers : HeardRight(w)
  PROVE  \E x \in Frame :
           /\ x = FireWatchers(v, Snapshot(s))
           /\ x.op = "fire" /\ x.val = v /\ x.rec = NoRec /\ x.scope = NoScope
           /\ x.todo = Snapshot(s) /\ \A w \in x.todo : w \in watchers /\ w.svc = s
           /\ \A A : Hears(s) \subseteq A => Within(x, A)
<1>1. Snapshot(s) \in SUBSET Watcher /\ \A w \in Snapshot(s) : w \in watchers /\ w.svc = s
  BY DEF Snapshot, TypeOK
<1>2. PICK x : x = FireWatchers(v, Snapshot(s))
  OBVIOUS
<1>3. x \in Frame /\ x.op = "fire" /\ x.val = v /\ x.todo = Snapshot(s) /\ x.rec = NoRec /\ x.scope = NoScope
  <2>1. FireWatchers(v, Snapshot(s)) \in Frame
    BY <1>1, FireType
  <2>2. Call("fire", NoRec, NoScope) \in Frame
    BY CallType DEF Ops
  <2>. QED  BY <1>2, <2>1, <2>2 DEF FireWatchers, Call, Frame
<1>4. ASSUME NEW A, Hears(s) \subseteq A PROVE Within(x, A)
  <2>1. ASSUME NEW w \in x.todo PROVE Of(w.rec, A) /\ Fallback[w.svc] \cup Retire[w.svc] \subseteq A
    <3>1. w \in watchers /\ w.svc = s /\ HeardRight(w)
      BY <1>1, <1>3, <2>1
    <3>2. Live(w.rec) => recs[w.rec].plugin \in Plugins
      BY RecordPlugin
    <3>. QED  BY <1>4, <3>1, <3>2 DEF Of, HeardRight, Required, Hears
  <2>. QED  BY <1>3, <2>1 DEF Within
<1>. QED  BY <1>1, <1>2, <1>3, <1>4

(* provide() preserves Layers: those who hear of the service are above all *)
(* that wait, and no loop below announces its loss.                        *)
LEMMA ProvideLayers ==
  ASSUME LayerInv, NEW s \in Services, NEW sc, Exists(sc), NEW rest, Waits(rest),
         ProvideService(s, sc, rest), Exists(Root),
         \A i \in DOMAIN rest : ~TearsDown(rest[i], sc),
         services[s] = NoScope =>
           /\ \A i \in DOMAIN rest : Hears(s) \subseteq Over(rest[i])
           /\ \A i \in DOMAIN rest : rest[i].op = "fire" /\ ~rest[i].val => \A w \in rest[i].todo : w.svc # s
           /\ \A q \in RecIds : Live(q) /\ recs[q].scope = sc => Provider(recs[q].plugin, s)
  PROVE  Layers'
<1>1. TypeOK /\ ListsRight /\ Layers /\ rest \in Seq(Frame) /\ rest \in Seq(Known) /\ Nested(rest)
      /\ Tears(stack) \subseteq Tears(rest)
  BY DEF LayerInv, TreeInv, Waits
<1>2. /\ ProvideShape(s, sc)
      /\ services[s] # NoScope => stack' = rest
      /\ services[s] = NoScope => stack' = <<FireWatchers(TRUE, Snapshot(s))>> \o rest
  BY <1>1, ProvideShapes
<1>3. PluginsKept
  BY <1>2 DEF PluginsKept, ProvideShape, Live
<1>4. sc # NoScope
  BY RegistryAssumption DEF Exists
<1>5. \A i \in DOMAIN rest : rest[i] \in Good /\ rest[i] \in Frame /\ rest[i] \in Known
  BY <1>1 DEF Nested
<1>6. ASSUME NEW i \in DOMAIN rest PROVE Undisturbed(rest[i])
  <2>1. rest[i] \in Good /\ rest[i] \in Frame /\ ~TearsDown(rest[i], sc)
    BY <1>5
  <2>2. rest[i].op = "apply" =>
          \A t \in Required(rest[i].rec) : services[t] # NoScope => services'[t] # NoScope
    <3>1. ASSUME rest[i].op = "apply", NEW t \in Required(rest[i].rec) PROVE t \in Services
      <4>1. recs[rest[i].rec].plugin \in Plugins
        BY <1>1, <2>1, <3>1, RecordPlugin DEF Good
      <4>2. Requires[recs[rest[i].rec].plugin] \in Seq(Services)
        BY <4>1, ContextAssumption
      <4>. QED  BY <3>1, <4>2 DEF Required, ToSet
    <3>. QED  BY <1>2, <1>4, <3>1 DEF ProvideShape
  <2>3. rest[i].op = "fire" /\ ~rest[i].val =>
          \A w \in rest[i].todo : services[w.svc] = NoScope => services'[w.svc] = NoScope
    <3>1. \A w \in rest[i].todo : w.svc \in Services
      BY <2>1 DEF Frame, Watcher
    <3>. QED  BY <1>2, <3>1 DEF ProvideShape
  <2>4. rest[i].op \in {"dtor", "revoke"} =>
          /\ Exists(rest[i].scope) /\ rest[i].scope \in ScopeIds /\ rest[i].scope # sc
    BY <2>1 DEF Good, Exists, TearsDown
  <2>5. rest[i].op \in {"apply", "stop"} => Live(rest[i].rec)
    BY <2>1 DEF Good
  <2>. QED  BY <1>2, <2>2, <2>3, <2>4, <2>5 DEF Undisturbed, ProvideShape, Live
<1>7. rest \in Seq(Good') /\ Sorted(rest, ApartPairs')
  BY <1>1, <1>3, <1>6, NestedKept
<1>8. Nested(stack)' /\ Tears(stack) \subseteq Tears(stack')
  <2>1. CASE services[s] # NoScope
    BY <1>1, <1>2, <1>7, <2>1 DEF Nested
  <2>2. CASE services[s] = NoScope
    <3>1. PICK x \in Frame :
           /\ x = FireWatchers(TRUE, Snapshot(s))
           /\ x.op = "fire" /\ x.val = TRUE
           /\ x.todo = Snapshot(s) /\ \A w \in x.todo : w \in watchers /\ w.svc = s
           /\ \A A : Hears(s) \subseteq A => Within(x, A)
      BY <1>1, FireFrame DEF Layers
    <3>2. stack' = <<x>> \o rest
      BY <1>2, <2>2, <3>1
    <3>3. x \in Good'
      <4>1. \A w \in x.todo : HeardRight(w)'
        BY <1>1, <1>3, <3>1, LiveKnown, HeardKept DEF Layers
      <4>. QED  BY <3>1, <4>1 DEF Good
    <3>4. ASSUME NEW j \in DOMAIN rest PROVE <<x, rest[j]>> \in ApartPairs'
      <4>1. PICK A : A = Over(rest[j])
        OBVIOUS
      <4>2. Within(x, A)
        BY <2>2, <3>1, <4>1
      <4>3. A \subseteq Over(rest[j])'
        BY <1>3, <1>5, <4>1, OverKept
      <4>4. \A w \in x.todo : Of(w.rec, A)'
        <5>1. \A w \in x.todo : w.rec \in UsedRecs /\ Of(w.rec, A)
          BY <3>1, <4>2, LiveKnown DEF Within
        <5>. QED  BY <1>3, <5>1, OfKept
      <4>5. Within(x, Over(rest[j]))'
        BY <3>1, <4>3, <4>4 DEF Within, Of
      <4>6. Apart(x, rest[j])'
        BY <3>1, <4>5 DEF Apart
      <4>. QED  BY <1>5, <4>6 DEF ApartPairs
    <3>5. <<x>> \o rest \in Seq(Good') /\ Sorted(<<x>> \o rest, ApartPairs')
      BY <1>7, <3>3, <3>4, EnteredNested
    <3>6. Tears(<<x>> \o rest) = Tears(rest)
      <4>1. x.op \notin {"dtor", "revoke"}
        BY <3>1
      <4>2. rest \in Seq(Frame) /\ x \in Frame
        BY <1>1
      <4>. QED  BY <4>1, <4>2, TearsPushed
    <3>. QED  BY <1>1, <3>2, <3>5, <3>6 DEF Nested
  <2>. QED  BY <2>1, <2>2
<1>9. \A w \in watchers' : HeardRight(w)'
  BY <1>1, <1>2, <1>3, LiveKnown, HeardKept DEF Layers, ProvideShape
<1>10. ASSUME NEW q \in RecIds, Live(q)' PROVE Placed(q)'
  <2>1. Live(q) /\ Placed(q) /\ recs' = recs
    BY <1>1, <1>2, <1>10 DEF Layers, ProvideShape, Live
  <2>2. recs[q].host \in ScopeIds /\ Exists(recs[q].host) /\ q \in ToSet(scopes[recs[q].host].records)
    BY <2>1 DEF Placed, Exists
  <2>3. Exists(recs[q].host)' /\ q \in ToSet(scopes'[recs[q].host].records)
    BY <1>2, <2>1, <2>2 DEF ProvideShape
  <2>4. ASSUME recs[q].scope # NoScope
        PROVE  /\ Exists(recs[q].scope)' /\ scopes'[recs[q].scope].alive
               /\ \A y \in ToSet(scopes'[recs[q].scope].records) :
                    y \in ToSet(scopes[recs[q].scope].records) /\ y \in UsedRecs
               /\ \A t \in Services : services'[t] = recs[q].scope =>
                    services[t] = recs[q].scope \/ Provider(recs[q].plugin, t)
    <3>1. OwnRight(q) /\ recs[q].scope \in ScopeIds /\ Exists(recs[q].scope)
      BY <2>1, <2>4 DEF Placed, OwnRight, Exists
    <3>2. \A y \in ToSet(scopes[recs[q].scope].records) : y \in UsedRecs
      BY <1>1, <3>1, ListedKnown
    <3>3. \A t \in Services : services'[t] = recs[q].scope =>
                    services[t] = recs[q].scope \/ Provider(recs[q].plugin, t)
      BY <1>2, <2>1 DEF ProvideShape
    <3>4. scopes'[recs[q].scope].records = scopes[recs[q].scope].records
          /\ scopes'[recs[q].scope].alive = scopes[recs[q].scope].alive
          /\ Exists(recs[q].scope)'
      BY <1>2, <2>1, <3>1 DEF ProvideShape
    <3>. QED  BY <3>1, <3>2, <3>3, <3>4 DEF OwnRight
  <2>5. \A y \in RecIds : Live(y)' => Live(y)
    BY <2>1 DEF Live
  <2>. QED  BY <1>3, <2>1, <2>3, <2>4, <2>5, PlacedKept
<1>11. ASSUME NEW t \in ScopeIds PROVE Held(t)'
  <2>1. Held(t)
    BY <1>1 DEF Layers
  <2>. QED  BY <1>2, <1>8, <2>1 DEF Held, ProvideShape, Live
<1>12. Exists(Root)'
  BY <1>2, ContextAssumption DEF ProvideShape
<1>. QED  BY <1>8, <1>9, <1>10, <1>11, <1>12 DEF Layers

(* A plugin that provides a service preserves Layers.                      *)
LEMMA ApplyProvideLayers ==
  ASSUME LayerInv, Layered, NEW s \in Services, ApplyProvide(s)
  PROVE  Layers'
<1>1. Applying /\ s \in Provides[recs[Top.rec].plugin] /\ ProvideService(s, Top.scope, stack)
  BY DEF ApplyProvide
<1>2. /\ Running("apply") /\ Live(Top.rec) /\ Exists(Top.scope)
      /\ recs[Top.rec].plugin \in Plugins /\ HasAll(Top.rec) /\ Exists(Root)
      /\ Waits(stack) /\ \A i \in DOMAIN stack : ~TearsDown(stack[i], Top.scope)
      /\ \A q \in RecIds : Live(q) /\ recs[q].scope = Top.scope => q = Top.rec
  BY <1>1, ApplyWaits
<1>3. services[s] = NoScope => Provider(recs[Top.rec].plugin, s)
  BY <1>1, <1>2 DEF HasAll, Required, Provider
<1>4. ASSUME services[s] = NoScope PROVE \A i \in DOMAIN stack : Hears(s) \subseteq Over(stack[i])
  <2>1. \A q \in Hears(s) : q \in Plugins /\ Level[recs[Top.rec].plugin] < Level[q]
    BY <1>2, <1>3, <1>4, HearsPlugins DEF Layered
  <2>. QED  BY <1>2, <2>1, ApplyAbove
<1>5. ASSUME services[s] = NoScope, NEW i \in DOMAIN stack, stack[i].op = "fire", NEW w \in stack[i].todo
      PROVE  w.svc # s
  <2>1. SUFFICES ASSUME w.svc = s PROVE FALSE
    OBVIOUS
  <2>2. recs[Top.rec].plugin \in Bases(stack[i])
    BY <1>2, <1>3, <1>5, <2>1 DEF Bases
  <2>3. /\ Top.op = "apply" /\ stack = <<Top>> \o Below /\ Below \in Seq(Frame) /\ Top \in Frame
        /\ \A j \in DOMAIN Below : Apart(Top, Below[j])
    BY <1>2, RunningLayers
  <2>4. stack[i] = Top \/ \E j \in DOMAIN Below : stack[i] = Below[j]
    <3>1. \A k \in DOMAIN (<<Top>> \o Below) : k = 1 \/ (k - 1 \in DOMAIN Below /\ (<<Top>> \o Below)[k] = Below[k - 1])
      BY <2>3, PushedPositions
    <3>2. (<<Top>> \o Below)[1] = Top
      BY <2>3, PushedPositions
    <3>. QED  BY <2>3, <3>1, <3>2
  <2>5. Within(Top, Over(stack[i]))
    BY <1>5, <2>3, <2>4 DEF Apart, Arming
  <2>6. recs[Top.rec].plugin \in Over(stack[i])
    BY <1>2, <2>3, <2>5 DEF Within, Of
  <2>7. Level[recs[Top.rec].plugin] \in Nat
    BY <1>2 DEF Layered
  <2>. QED  BY <2>2, <2>6, <2>7 DEF Over
<1>6. PICK sc : sc = Top.scope
  OBVIOUS
<1>7. PICK q : q = stack
  OBVIOUS
<1>8. /\ Exists(sc) /\ Waits(q) /\ ProvideService(s, sc, q)
      /\ \A i \in DOMAIN q : ~TearsDown(q[i], sc)
      /\ services[s] = NoScope =>
           /\ \A i \in DOMAIN q : Hears(s) \subseteq Over(q[i])
           /\ \A i \in DOMAIN q : q[i].op = "fire" /\ ~q[i].val => \A w \in q[i].todo : w.svc # s
           /\ \A x \in RecIds : Live(x) /\ recs[x].scope = sc => Provider(recs[x].plugin, s)
  BY <1>1, <1>2, <1>3, <1>4, <1>5, <1>6, <1>7
<1>. QED  BY <1>2, <1>8, ProvideLayers

(* An empty stack is nested.                                               *)
LEMMA NobodyWaits ==
  /\ <<>> \in Seq(Frame) /\ <<>> \in Seq(Known) /\ <<>> \in Seq(Good) /\ <<>> \in Seq(Good')
  /\ Tears(<<>>) = {} /\ NoneAlive(<<>>) /\ Nested(<<>>) /\ Sorted(<<>>, ApartPairs')
  /\ DOMAIN <<>> = {}
<1>1. /\ <<>> \in Seq(Frame) /\ <<>> \in Seq(Known) /\ <<>> \in Seq(Good) /\ <<>> \in Seq(Good')
      /\ DOMAIN <<>> = {}
  OBVIOUS
<1>2. Tears(<<>>) = {} /\ Sorted(<<>>, ApartPairs) /\ Sorted(<<>>, ApartPairs')
  BY <1>1 DEF Tears, Sorted
<1>. QED  BY <1>1, <1>2 DEF NoneAlive, Nested

(* No record owns the root scope.                                          *)
LEMMA RootUnowned ==
  ASSUME LayerInv, NEW q \in RecIds, Live(q)
  PROVE  recs[q].scope # Root
<1>1. Root # NoScope
  BY RegistryAssumption, ContextAssumption
<1>. QED  BY <1>1 DEF LayerInv, Layers, Placed, OwnRight

(* What a host calls when nothing else runs preserves Layers.              *)
LEMMA HostCallsLayers ==
  ASSUME LayerInv, Layered, TypeOK', HostCalls
  PROVE  Layers'
<1>1. stack = <<>> /\ Exists(Root) /\ TypeOK /\ ListsRight /\ Layers
  BY DEF HostCalls, HostLoad, HostUnload, HostProvide, HostDestroy, Idle, LayerInv, TreeInv
<1>2. Waits(<<>>)
  BY <1>1, NobodyWaits DEF Waits
<1>3. CASE \E p \in Plugins : HostLoad(p)
  <2>1. PICK p \in Plugins : AddRecord(Root, p, <<>>)
    BY <1>3 DEF HostLoad
  <2>. QED  BY <1>1, <1>2, <2>1, NobodyWaits, RootUnowned, LoadLayers
<1>4. CASE \E p \in HostUnloads : HostUnload(p)
  <2>1. PICK p \in HostUnloads : Unload(Root, p, <<>>)
    BY <1>4 DEF HostUnload
  <2>. QED  BY <1>1, <1>2, <2>1, NobodyWaits, UnloadLayers
<1>5. CASE \E s \in Services : HostProvide(s)
  <2>1. PICK s \in Services : ProvideService(s, Root, <<>>)
    BY <1>5 DEF HostProvide
  <2>. QED  BY <1>1, <1>2, <2>1, NobodyWaits, RootUnowned, ProvideLayers
<1>6. CASE HostDestroy
  <2>1. /\ scopes' = [scopes EXCEPT ![Root].alive = FALSE]
        /\ stack' = <<DtorCall(Root)>> /\ UNCHANGED <<services, watchers, recs>>
    BY <1>6 DEF HostDestroy, DtorCall
  <2>2. PICK x : x = DtorCall(Root)
    OBVIOUS
  <2>3. x \in Frame /\ x.op = "dtor" /\ x.scope = Root /\ x.todo = {} /\ x.rec = NoRec
    <3>1. /\ DtorCall(Root) \in Frame /\ DtorCall(Root).op = "dtor" /\ DtorCall(Root).scope = Root
          /\ DtorCall(Root).todo = {} /\ DtorCall(Root).rec = NoRec
      <4>1. Root \in ScopeIds /\ scopes[Root] \in Scope
        BY <1>1, ExistingScope
      <4>2. Len(scopes[Root].records) \in Nat
        BY <4>1 DEF Scope
      <4>3. Call("dtor", NoRec, Root) \in Frame
        BY <4>1, CallType DEF Ops
      <4>. QED  BY <4>2, <4>3 DEF DtorCall, Call, Frame
    <3>. QED  BY <2>2, <3>1
  <2>4. /\ \A s \in ScopeIds : Exists(s)' = Exists(s)
        /\ \A s \in ScopeIds : Exists(s) => scopes'[s].records = scopes[s].records
        /\ \A s \in ScopeIds \ {Root} : scopes'[s] = scopes[s]
    <3>1. Root \in ScopeIds /\ scopes[Root] \in Scope /\ scopes \in [ScopeIds -> Scope \cup {Gone}]
      BY <1>1, ExistingScope DEF TypeOK
    <3>2. scopes'[Root] = [scopes[Root] EXCEPT !.alive = FALSE] /\ \A s \in ScopeIds \ {Root} : scopes'[s] = scopes[s]
      BY <2>1, <3>1
    <3>3. scopes'[Root] \in Scope /\ scopes'[Root].records = scopes[Root].records
      BY <3>1, <3>2 DEF Scope
    <3>. QED  BY <3>1, <3>2, <3>3, NullAssumption DEF Exists
  <2>5. x \in Good'
    BY <1>1, <2>3, <2>4, ContextAssumption DEF Good
  <2>6. Nested(stack)' /\ Tears(stack) \subseteq Tears(stack')
    <3>1. stack' = <<x>> \o <<>>
      BY <2>1, <2>2
    <3>2. <<x>> \o <<>> \in Seq(Good') /\ Sorted(<<x>> \o <<>>, ApartPairs')
      BY <2>5, NobodyWaits, EnteredNested
    <3>3. Tears(stack) = {}
      BY <1>1, NobodyWaits
    <3>. QED  BY <3>1, <3>2, <3>3 DEF Nested
  <2>7. PluginsKept
    BY <2>1 DEF PluginsKept, Live
  <2>8. \A w \in watchers' : HeardRight(w)'
    BY <1>1, <2>1, <2>7, LiveKnown, HeardKept DEF Layers
  <2>9. ASSUME NEW q \in RecIds, Live(q)' PROVE Placed(q)'
    <3>1. Live(q) /\ Placed(q) /\ recs' = recs
      BY <1>1, <2>1, <2>9 DEF Layers, Live
    <3>2. recs[q].host \in ScopeIds /\ Exists(recs[q].host) /\ q \in ToSet(scopes[recs[q].host].records)
      BY <3>1 DEF Placed, Exists
    <3>3. Exists(recs[q].host)' /\ q \in ToSet(scopes'[recs[q].host].records)
      BY <2>4, <3>1, <3>2
    <3>4. ASSUME recs[q].scope # NoScope
          PROVE  /\ Exists(recs[q].scope)' /\ scopes'[recs[q].scope].alive
                 /\ \A y \in ToSet(scopes'[recs[q].scope].records) :
                      y \in ToSet(scopes[recs[q].scope].records) /\ y \in UsedRecs
      <4>1. OwnRight(q) /\ recs[q].scope \in ScopeIds \ {Root} /\ Exists(recs[q].scope)
        BY <3>1, <3>4 DEF Placed, OwnRight, Exists
      <4>2. \A y \in ToSet(scopes[recs[q].scope].records) : y \in UsedRecs
        BY <1>1, <4>1, ListedKnown
      <4>3. scopes'[recs[q].scope] = scopes[recs[q].scope] /\ Exists(recs[q].scope)'
        BY <2>4, <3>1, <4>1
      <4>. QED  BY <4>1, <4>2, <4>3 DEF OwnRight
    <3>5. \A y \in RecIds : Live(y)' => Live(y)
      BY <3>1 DEF Live
    <3>6. UNCHANGED services
      BY <2>1
    <3>. QED  BY <2>7, <3>1, <3>3, <3>4, <3>5, <3>6, PlacedKept
  <2>10. ASSUME NEW t \in ScopeIds PROVE Held(t)'
    <3>1. Held(t)
      BY <1>1 DEF Layers
    <3>. QED  BY <2>1, <2>4, <2>6, <3>1 DEF Held, Live
  <2>11. Exists(Root)'
    BY <1>1, <2>4, ContextAssumption
  <2>. QED  BY <2>6, <2>8, <2>9, <2>10, <2>11 DEF Layers
<1>. QED  BY <1>3, <1>4, <1>5, <1>6 DEF HostCalls

(* What a destructor that is running can rely on: its scope belongs to no  *)
(* record any more, and those below do not tear it down.                   *)
LEMMA TeardownTop ==
  ASSUME LayerInv, NEW op \in {"dtor", "revoke"}, Running(op), Exists(Top.scope)
  PROVE  /\ Top.scope \in ScopeIds /\ scopes[Top.scope] \in Scope /\ ~scopes[Top.scope].alive
         /\ \A A : Of(NoRec, A)
         /\ Over(Top) = Plugins
         /\ \A j \in DOMAIN Below :
              /\ Within(Top, Over(Below[j]))
              /\ Top.scope # Root /\ ~TearsDown(Below[j], Top.scope)
         /\ \A r \in RecIds : Live(r) => recs[r].scope # Top.scope
         /\ Tears(stack) = Tears(Below) \cup {Top.scope}
         /\ op = "revoke" => scopes[Top.scope].records = <<>>
         /\ op = "dtor" /\ Top.ix = 0 =>
              \A r \in ToSet(scopes[Top.scope].records) : recs[r].scope = NoScope
<1>1. /\ TypeOK /\ ListsRight /\ Layers
      /\ Top \in Good /\ Top \in RightFrames /\ Top.op = op /\ Top \in Frame
      /\ \A j \in DOMAIN Below : Apart(Top, Below[j])
      /\ Tears(stack) = Tears(Below) \cup {Top.scope}
  BY RunningLayers DEF LayerInv, TreeInv
<1>2. Top.scope \in ScopeIds /\ scopes[Top.scope] \in Scope
  BY <1>1, ExistingScope
<1>3. TeardownRight(Top)
  BY <1>1 DEF RightFrames
<1>4. ~scopes[Top.scope].alive /\ (op = "revoke" => scopes[Top.scope].records = <<>>)
  BY <1>1, <1>3 DEF TeardownRight
<1>5. \A A : Of(NoRec, A)
  BY ContextAssumption DEF Of, Live
<1>6. \A j \in DOMAIN Below : Within(Top, Over(Below[j])) /\ Top.scope # Root /\ ~TearsDown(Below[j], Top.scope)
  BY <1>1 DEF Apart, Arming, TearsDown
<1>7. \A r \in RecIds : Live(r) => recs[r].scope # Top.scope
  <2>1. Top.scope # NoScope
    BY <1>2, RegistryAssumption
  <2>. QED  BY <1>1, <1>4, <2>1 DEF Layers, Placed, OwnRight
<1>8. Over(Top) = Plugins
  BY <1>1 DEF Over, Bases
<1>9. ASSUME op = "dtor", Top.ix = 0, NEW r \in ToSet(scopes[Top.scope].records)
      PROVE  recs[r].scope = NoScope
  <2>1. PICK k \in DOMAIN scopes[Top.scope].records : scopes[Top.scope].records[k] = r
    BY <1>9 DEF ToSet
  <2>2. k \in Nat \ {0}
    <3>1. scopes[Top.scope].records \in Seq(RecIds)
      BY <1>2 DEF Scope
    <3>. QED  BY <3>1, LenProperties
  <2>3. Quiet(r)
    BY <1>1, <1>3, <1>9, <2>1, <2>2 DEF TeardownRight
  <2>4. Live(r) /\ r \in RecIds
    BY <1>1, <1>2, ListedKnown DEF Live
  <2>5. Placed(r)
    BY <1>1, <2>4 DEF Layers
  <2>. QED  BY <2>3, <2>5 DEF Placed, Quiet
<1>. QED  BY <1>1, <1>2, <1>4, <1>5, <1>6, <1>7, <1>8, <1>9

(* The destructor that stops its next record preserves Layers ...          *)
LEMMA DtorStopLayers ==
  ASSUME LayerInv, Layered, DtorStop
  PROVE  Layers'
<1>1. Running("dtor") /\ Exists(Top.scope) /\ TypeOK /\ ListsRight
      /\ Top.ix \in DOMAIN scopes[Top.scope].records
  BY DEF DtorStop, LayerInv, TreeInv
<1>2. PICK r : r = scopes[Top.scope].records[Top.ix]
  OBVIOUS
<1>3. PICK g : g = [Top EXCEPT !.val = TRUE]
  OBVIOUS
<1>4. Live(r) /\ StopRecord(r, "Disposed", Resume(g)) /\ UNCHANGED <<services, watchers>>
  BY <1>2, <1>3 DEF DtorStop
<1>5. /\ Top \in Frame /\ Top \in Known /\ Top \in Good /\ Top.op = "dtor" /\ Exists(Root)
      /\ \A j \in DOMAIN Below : Below[j] \in Frame
  BY <1>1, RunningLayers
<1>6. /\ g \in Frame /\ g.op = "dtor" /\ g.scope = Top.scope /\ g.todo = Top.todo /\ g.rec = Top.rec
  BY <1>3, <1>5 DEF Frame
<1>7. g \in Known /\ Later(g, Top)
  BY <1>5, <1>6 DEF Known, Later, Good
<1>8. /\ Waits(Resume(g))
      /\ \A i \in DOMAIN Resume(g) : Resume(g)[i] = g \/ \E j \in DOMAIN Below : Resume(g)[i] = Below[j]
  BY <1>1, <1>6, <1>7, ResumedLayers
<1>9. r \in ToSet(scopes[Top.scope].records)
  BY <1>1, <1>2 DEF ToSet
<1>10. \A j \in DOMAIN Below : Below[j] \in RecCallers(r)
  <2>1. \A j \in DOMAIN Below : Within(Top, Over(Below[j]))
    BY <1>1, TeardownTop
  <2>. QED  BY <1>5, <1>9, <2>1 DEF Within, RecCallers
<1>11. g \in RecCallers(r)
  <2>1. Over(g) = Plugins
    BY <1>6 DEF Over, Bases
  <2>2. Of(r, Plugins)
    BY <1>1, RecordPlugin DEF Of
  <2>. QED  BY <1>6, <2>1, <2>2 DEF RecCallers
<1>12. Callers(r, Resume(g))
  BY <1>8, <1>10, <1>11 DEF Callers
<1>13. SentinelsHeard
  BY <1>4 DEF SentinelsHeard
<1>14. PICK q : q = Resume(g)
  OBVIOUS
<1>. QED  BY <1>4, <1>5, <1>12, <1>13, <1>14, StopCallLayers

(* ... and so does the one that lets its dynamic plugins go.               *)
LEMMA DtorReleaseLayers ==
  ASSUME LayerInv, Layered, DtorRelease
  PROVE  Layers'
<1>1. /\ Running("dtor") /\ Exists(Top.scope) /\ TypeOK /\ ListsRight
      /\ Top.ix \in DOMAIN scopes[Top.scope].records
  BY ZenonT(60) DEF DtorRelease, LayerInv, TreeInv
<1>2. PICK r : r = scopes[Top.scope].records[Top.ix]
  OBVIOUS
<1>3. Live(r) /\ recs[r] \in LoadRecord /\ r \in RecIds /\ recs \in [RecIds -> LoadRecord \cup {NoRec}]
  BY Zenon, <1>1, <1>2, LiveRecord DEF DtorRelease, TypeOK, Live
<1>4. PICK rec : rec = [recs[r] EXCEPT !.lib = FALSE, !.tokens = {}]
  OBVIOUS
<1>5. /\ rec \in LoadRecord /\ rec.host = recs[r].host /\ rec.state = recs[r].state
      /\ rec.plugin = recs[r].plugin /\ rec.scope = recs[r].scope /\ rec.inst = recs[r].inst
      /\ rec # NoRec
  BY ZenonT(60), <1>3, <1>4, NullAssumption DEF LoadRecord
<1>6. PICK g : g = Earlier(Top)
  OBVIOUS
<1>7. recs' = [recs EXCEPT ![r] = rec] /\ UNCHANGED <<scopes, services>> /\ stack' = Resume(g)
  BY Zenon, <1>2, <1>3, <1>4, <1>6 DEF DtorRelease
<1>8. watchers' \subseteq watchers
  BY Zenon DEF DtorRelease, UnwatchAll
<1>9. /\ recs'[r] = rec /\ \A q \in RecIds \ {r} : recs'[q] = recs[q]
  BY <1>3, <1>7
<1>10. /\ Top \in Frame /\ Top \in Known /\ Top \in Good /\ Top.op = "dtor" /\ Exists(Root)
  BY <1>1, RunningLayers
<1>11. Top.ix - 1 \in Nat
  <2>1. scopes[Top.scope].records \in Seq(RecIds)
    BY <1>1, ExistingScope DEF Scope
  <2>2. Top.ix \in 1..Len(scopes[Top.scope].records) /\ Len(scopes[Top.scope].records) \in Nat
    BY <1>1, <2>1, LenProperties
  <2>. QED  BY <2>2
<1>12. /\ g \in Frame /\ g.op = "dtor" /\ g.scope = Top.scope /\ g.todo = Top.todo /\ g.rec = Top.rec
  BY <1>6, <1>10, <1>11 DEF Frame, Earlier
<1>13. g \in Known /\ Later(g, Top)
  BY <1>10, <1>12 DEF Known, Later, Good
<1>14. PICK q : q = Resume(g)
  OBVIOUS
<1>15. q \in Seq(Frame) /\ q \in Seq(Known) /\ Nested(q) /\ Tears(q) = Tears(stack) /\ Nested(q)
  BY <1>1, <1>12, <1>13, <1>14, ResumedLayers
<1>16. ASSUME NEW x \in RecIds
       PROVE  /\ Live(x)' = Live(x)
              /\ recs'[x].inst = recs[x].inst
              /\ recs'[x].plugin = recs[x].plugin /\ recs'[x].host = recs[x].host
              /\ recs'[x].state = recs[x].state /\ recs'[x].scope = recs[x].scope
  BY <1>3, <1>5, <1>9 DEF Live
<1>17. ASSUME NEW i \in DOMAIN q, q[i].op \in {"apply", "stop"}
       PROVE  recs'[q[i].rec].inst = recs[q[i].rec].inst
  <2>1. q[i] \in Good
    BY <1>15 DEF Nested
  <2>2. q[i].rec \in RecIds
    BY <1>17, <2>1 DEF Good, Live
  <2>. QED  BY <1>16, <2>2
<1>18. \A s \in ScopeIds :
         /\ Exists(s)' = Exists(s)
         /\ Exists(s) => scopes'[s].records = scopes[s].records /\ scopes'[s].alive = scopes[s].alive
  BY <1>7 DEF Exists
<1>19. stack' = q /\ UNCHANGED services
  BY <1>7, <1>14
<1>20. Tears(stack) \subseteq Tears(q)
  BY <1>15
<1>. QED  BY <1>8, <1>10, <1>15, <1>16, <1>17, <1>18, <1>19, <1>20, DetailLayers

(* The calls below a destructor depend on nothing it removes.              *)
LEMMA BelowApart ==
  ASSUME LayerInv, Layered, NEW op \in {"dtor", "revoke"}, Running(op), Exists(Top.scope),
         NEW j \in DOMAIN Below
  PROVE  /\ Below[j] \in Good /\ Below[j] \in Frame /\ Below[j] \in Known
         /\ Below[j].op \in {"dtor", "revoke"} =>
              Exists(Below[j].scope) /\ Below[j].scope \in ScopeIds /\ Below[j].scope # Top.scope
         /\ Below[j].op \in {"apply", "stop"} =>
              Live(Below[j].rec) /\ Below[j].rec \notin ToSet(scopes[Top.scope].records)
         /\ \A s \in Services : services[s] = Top.scope =>
              /\ Hears(s) \subseteq Over(Below[j])
              /\ Below[j].op = "apply" => s \notin Required(Below[j].rec)
<1>1. TypeOK
  BY DEF LayerInv, TreeInv
<1>2. Below[j] \in Good /\ Below[j] \in Frame /\ Below[j] \in Known /\ Top.op = op
  BY RunningLayers
<1>3. Within(Top, Over(Below[j])) /\ ~TearsDown(Below[j], Top.scope)
  BY TeardownTop
<1>4. Below[j].op \in {"dtor", "revoke"} =>
              Exists(Below[j].scope) /\ Below[j].scope \in ScopeIds /\ Below[j].scope # Top.scope
  BY <1>2, <1>3 DEF Good, Exists, TearsDown
<1>5. ASSUME Below[j].op \in {"apply", "stop"}
      PROVE  /\ Live(Below[j].rec) /\ recs[Below[j].rec].plugin \in Plugins
             /\ recs[Below[j].rec].plugin \notin Over(Below[j])
  <2>1. Live(Below[j].rec)
    BY <1>2, <1>5 DEF Good
  <2>. QED  BY <1>1, <1>5, <2>1, NotOver, RecordPlugin
<1>6. Below[j].op \in {"apply", "stop"} =>
              Live(Below[j].rec) /\ Below[j].rec \notin ToSet(scopes[Top.scope].records)
  BY <1>2, <1>3, <1>5 DEF Within, Of
<1>7. ASSUME NEW s \in Services, services[s] = Top.scope
      PROVE  /\ Hears(s) \subseteq Over(Below[j])
             /\ Below[j].op = "apply" => s \notin Required(Below[j].rec)
  <2>1. Hears(s) \subseteq Over(Below[j])
    BY <1>2, <1>3, <1>7 DEF Within
  <2>2. \A p \in Plugins : s \in ToSet(Requires[p]) => p \in Hears(s)
    BY DEF Hears
  <2>. QED  BY <1>5, <2>1, <2>2 DEF Required
<1>. QED  BY <1>2, <1>4, <1>6, <1>7

(* A destructor that ends removes a scope that is nobody's ...             *)
LEMMA RevokeDoneLayers ==
  ASSUME LayerInv, Layered, RevokeDone
  PROVE  Layers'
<1>1. /\ Running("revoke") /\ Exists(Top.scope) /\ TypeOK /\ ListsRight /\ Layers
      /\ scopes' = [scopes EXCEPT ![Top.scope] = Gone]
      /\ stack' = Below /\ UNCHANGED <<services, watchers, recs>>
  BY DEF RevokeDone, LayerInv, TreeInv
<1>2. PICK sc : sc = Top.scope
  OBVIOUS
<1>3. /\ sc \in ScopeIds /\ Exists(sc) /\ ~scopes[sc].alive /\ scopes[sc].records = <<>>
      /\ \A j \in DOMAIN Below : sc # Root
      /\ Tears(stack) = Tears(Below) \cup {sc}
  BY <1>1, <1>2, TeardownTop
<1>4. /\ \A t \in ScopeIds \ {sc} : scopes'[t] = scopes[t] /\ Exists(t)' = Exists(t)
      /\ ~Exists(sc)'
  BY <1>1, <1>2, <1>3 DEF TypeOK, Exists
<1>5. Below \in Seq(Known) /\ Nested(Below) /\ Exists(Root)
  BY <1>1, RunningLayers
<1>6. PluginsKept
  BY <1>1 DEF PluginsKept, Live
<1>13. PICK b : b = Below
  OBVIOUS
<1>7. ASSUME NEW j \in DOMAIN b PROVE Undisturbed(b[j])
  <2>1. b[j].op \in {"dtor", "revoke"} =>
          Exists(b[j].scope) /\ b[j].scope \in ScopeIds \ {sc}
    BY <1>1, <1>2, <1>13, BelowApart
  <2>2. b[j].op \in {"apply", "stop"} => Live(b[j].rec)
    BY <1>1, <1>13, BelowApart
  <2>. QED  BY <1>1, <1>4, <2>1, <2>2 DEF Undisturbed, Live
<1>8. Nested(stack)'
  <2>1. b \in Seq(Known) /\ Nested(b)
    BY <1>5, <1>13
  <2>2. b \in Seq(Good') /\ Sorted(b, ApartPairs')
    BY <1>1, <1>6, <1>7, <2>1, NestedKept
  <2>. QED  BY <1>1, <1>13, <2>2 DEF Nested
<1>9. \A w \in watchers' : HeardRight(w)'
  BY <1>1, <1>6, LiveKnown, HeardKept DEF Layers
<1>10. ASSUME NEW q \in RecIds, Live(q)' PROVE Placed(q)'
  <2>1. Live(q) /\ Placed(q) /\ recs' = recs
    BY <1>1, <1>10 DEF Layers, Live
  <2>2. recs[q].host \in ScopeIds /\ Exists(recs[q].host) /\ q \in ToSet(scopes[recs[q].host].records)
    BY <2>1 DEF Placed, Exists
  <2>3. recs[q].host # sc
    BY <1>3, <2>2 DEF ToSet
  <2>4. Exists(recs[q].host)' /\ q \in ToSet(scopes'[recs[q].host].records)
    BY <1>4, <2>1, <2>2, <2>3
  <2>5. ASSUME recs[q].scope # NoScope
        PROVE  /\ Exists(recs[q].scope)' /\ scopes'[recs[q].scope].alive
               /\ \A y \in ToSet(scopes'[recs[q].scope].records) :
                    y \in ToSet(scopes[recs[q].scope].records) /\ y \in UsedRecs
    <3>1. OwnRight(q) /\ recs[q].scope \in ScopeIds /\ Exists(recs[q].scope) /\ scopes[recs[q].scope].alive
      BY <2>1, <2>5 DEF Placed, OwnRight, Exists
    <3>2. \A y \in ToSet(scopes[recs[q].scope].records) : y \in UsedRecs
      BY <1>1, <3>1, ListedKnown
    <3>3. recs[q].scope # sc
      BY <1>3, <3>1
    <3>. QED  BY <1>4, <2>1, <3>1, <3>2, <3>3
  <2>6. \A y \in RecIds : Live(y)' => Live(y)
    BY <2>1 DEF Live
  <2>7. UNCHANGED services
    BY <1>1
  <2>. QED  BY <1>6, <2>1, <2>4, <2>5, <2>6, <2>7, PlacedKept
<1>11. ASSUME NEW t \in ScopeIds PROVE Held(t)'
  <2>1. Held(t)
    BY <1>1 DEF Layers
  <2>2. t \in Tears(stack) => t \in Tears(stack') \/ t = sc
    BY <1>1, <1>3
  <2>3. Exists(t)' => t # sc /\ Exists(t)
    BY <1>4
  <2>. QED  BY <1>1, <2>1, <2>2, <2>3 DEF Held, Live
<1>12. stack' # <<>> => Exists(Root)'
  <2>1. ASSUME stack' # <<>> PROVE Root # sc
    <3>1. 1 \in DOMAIN Below
      BY <1>1, <1>5, <2>1
    <3>. QED  BY <1>3, <3>1
  <2>. QED  BY <1>4, <1>5, <2>1, ContextAssumption
<1>. QED  BY <1>8, <1>9, <1>10, <1>11, <1>12 DEF Layers

(* ... and unload() erases a record that owns no scope.                    *)
LEMMA EraseLayers ==
  ASSUME LayerInv, Layered, Erase
  PROVE  Layers'
<1>1. /\ TypeOK /\ ListsRight /\ Layers /\ Running("erase") /\ Live(Top.rec) /\ Exists(Top.scope)
      /\ Top.ix \in DOMAIN scopes[Top.scope].records /\ ~Top.val
  BY DEF LayerInv, TreeInv, Erase
<1>2. PICK sc, r, n : sc = Top.scope /\ r = Top.rec /\ n = Top.ix
  OBVIOUS
<1>3. /\ Top \in RightFrames /\ Top.op = "erase" /\ Below \in Seq(Frame) /\ Below \in Seq(Known)
      /\ Nested(Below) /\ Tears(stack) = Tears(Below) /\ Exists(Root)
  BY <1>1, RunningLayers
<1>4. PICK list : list = scopes[sc].records
  OBVIOUS
<1>5. /\ sc \in ScopeIds /\ scopes[sc] \in Scope /\ Exists(sc) /\ r \in RecIds /\ Live(r)
      /\ scopes \in [ScopeIds -> Scope \cup {Gone}] /\ recs \in [RecIds -> LoadRecord \cup {NoRec}]
  BY <1>1, <1>2, ExistingScope DEF TypeOK, Live
<1>6. list \in Seq(RecIds) /\ DOMAIN list = 1..Len(list) /\ Len(list) \in Nat
      /\ n \in 1..Len(list) /\ n \in Nat
  <2>1. list \in Seq(RecIds)
    BY <1>4, <1>5 DEF Scope
  <2>2. DOMAIN list = 1..Len(list) /\ Len(list) \in Nat
    BY <2>1, LenProperties
  <2>. QED  BY <1>1, <1>2, <1>4, <2>1, <2>2
<1>7. list[n] = r /\ recs[r].scope = NoScope
  <2>1. list[n] = r /\ Quiet(r)
    BY <1>1, <1>2, <1>3, <1>4 DEF RightFrames, EraseRight
  <2>2. Placed(r)
    BY <1>1, <1>5 DEF Layers
  <2>. QED  BY <2>1, <2>2 DEF Placed, Quiet
<1>8. PICK short : short = RemoveAt(list, n)
  OBVIOUS
<1>9. \A y : y \in ToSet(short) <=> y \in ToSet(list) /\ y # r
  <2>1. /\ short \in Seq(RecIds) /\ Len(short) = Len(list) - 1
        /\ \A i \in 1..(Len(list) - 1) : short[i] = IF i < n THEN list[i] ELSE list[i + 1]
    BY Zenon, <1>6, <1>8, RemovedPosition
  <2>2. DOMAIN short = 1..(Len(list) - 1)
    BY <2>1, LenProperties
  <2>3. IsInjective(list)
    BY <1>1, <1>4, <1>5 DEF ListsRight, ListRight
  <2>4. ASSUME NEW i \in DOMAIN short PROVE short[i] \in ToSet(list) /\ short[i] # r
    <3>1. PICK k \in DOMAIN list : k # n /\ short[i] = list[k]
      <4>1. CASE i < n
        <5>1. i \in DOMAIN list /\ i # n /\ short[i] = list[i]
          BY <1>6, <2>1, <2>2, <2>4, <4>1
        <5>. QED  BY <5>1
      <4>2. CASE ~(i < n)
        <5>1. i + 1 \in DOMAIN list /\ i + 1 # n /\ short[i] = list[i + 1]
          BY <1>6, <2>1, <2>2, <2>4, <4>2
        <5>. QED  BY <5>1
      <4>. QED  BY <4>1, <4>2
    <3>. QED  BY <1>6, <1>7, <2>3, <3>1 DEF IsInjective, ToSet
  <2>5. ASSUME NEW k \in DOMAIN list, list[k] # r PROVE list[k] \in ToSet(short)
    <3>1. k # n
      BY <1>7, <2>5
    <3>2. CASE k < n
      <4>1. k \in DOMAIN short /\ short[k] = list[k]
        BY <1>6, <2>1, <2>2, <2>5, <3>2
      <4>. QED  BY <4>1 DEF ToSet
    <3>3. CASE ~(k < n)
      <4>1. k - 1 \in DOMAIN short /\ short[k - 1] = list[k]
        BY <1>6, <2>1, <2>2, <2>5, <3>1, <3>3
      <4>. QED  BY <4>1 DEF ToSet
    <3>. QED  BY <3>2, <3>3
  <2>. QED  BY SMTT(40), <2>4, <2>5 DEF ToSet
<1>10. /\ recs'[r] = NoRec /\ \A q \in RecIds \ {r} : recs'[q] = recs[q]
       /\ scopes'[sc] \in Scope /\ scopes'[sc].records = short /\ scopes'[sc].alive = scopes[sc].alive
       /\ \A s \in ScopeIds \ {sc} : scopes'[s] = scopes[s]
       /\ UNCHANGED services /\ watchers' \subseteq watchers
       /\ stack' = Invalidate(Below, sc, n)
  <2>. DEFINE libs == scopes[sc].retired \cup Retired(r)
  <2>1. recs' = [recs EXCEPT ![r] = NoRec]
        /\ scopes' = [scopes EXCEPT ![sc] = [scopes[sc] EXCEPT !.retired = libs, !.records = short]]
    BY <1>2, <1>4, <1>5, <1>8 DEF Erase
  <2>2. libs \in SUBSET Plugins
    <3>1. recs[r].plugin \in Plugins
      BY <1>1, <1>5, RecordPlugin
    <3>. QED  BY <1>5, <3>1 DEF Scope, Retired
  <2>3. short \in Seq(RecIds)
    BY <1>6, <1>8, RemovedPosition
  <2>. HIDE DEF libs
  <2>4. scopes'[sc] \in Scope /\ scopes'[sc].records = short /\ scopes'[sc].alive = scopes[sc].alive
    BY <1>5, <2>1, <2>2, <2>3 DEF Scope
  <2>5. UNCHANGED services /\ watchers' \subseteq watchers /\ stack' = Invalidate(Below, sc, n)
    BY <1>2 DEF Erase, UnwatchAll
  <2>. QED  BY <1>5, <2>1, <2>4, <2>5
<1>11. \A t \in ScopeIds :
         /\ Exists(t)' = Exists(t)
         /\ scopes'[t].alive = scopes[t].alive
         /\ \A y : y \in ToSet(scopes'[t].records) => y \in ToSet(scopes[t].records)
         /\ \A y : y # r /\ y \in ToSet(scopes[t].records) => y \in ToSet(scopes'[t].records)
  BY <1>4, <1>5, <1>9, <1>10, NullAssumption DEF Exists
<1>12. \A q : Live(q)' <=> Live(q) /\ q # r
  BY <1>10 DEF Live
<1>13. PluginsKept
  BY <1>10, <1>12 DEF PluginsKept, Live
<1>14. PICK q : q = Invalidate(Below, sc, n)
  OBVIOUS
<1>15. q \in Seq(Known) /\ Nested(q) /\ Tears(q) = Tears(stack)
  BY <1>3, <1>6, <1>14, MarkedNested, TearsMarked
<1>16. DOMAIN q = DOMAIN Below /\ \A i \in DOMAIN q : q[i].op # "erase" => q[i] = Below[i]
  <2>1. PICK b \in Seq(Frame) : b = Below
    BY <1>3
  <2>2. MarkedFrom(b, q, sc, n)
    BY <1>6, <1>14, <2>1, InvalidateSame
  <2>. QED  BY <2>1, <2>2 DEF MarkedFrom
<1>17. ASSUME NEW i \in DOMAIN q PROVE Undisturbed(q[i])
  <2>1. q[i] \in Good
    BY <1>15 DEF Nested
  <2>2. q[i].op \in {"apply", "stop"} => Live(q[i].rec) /\ q[i].rec # r /\ q[i].rec \in RecIds
    <3>1. \A j \in DOMAIN Below : Below[j].op \in {"apply", "stop"} => Below[j].rec # r
      BY <1>1, <1>2, BelowCallers
    <3>. QED  BY <1>16, <2>1, <3>1 DEF Good, Live
  <2>3. q[i].op \in {"dtor", "revoke"} => Exists(q[i].scope) /\ q[i].scope \in ScopeIds
    BY <2>1 DEF Good, Exists
  <2>. QED  BY <1>10, <1>11, <1>12, <2>2, <2>3 DEF Undisturbed
<1>18. Nested(stack)' /\ stack' = q
  <2>1. q \in Seq(Good') /\ Sorted(q, ApartPairs')
    BY <1>1, <1>13, <1>15, <1>17, NestedKept
  <2>. QED  BY <1>10, <1>14, <2>1 DEF Nested
<1>19. \A w \in watchers' : HeardRight(w)'
  BY <1>1, <1>10, <1>13, LiveKnown, HeardKept DEF Layers
<1>20. ASSUME NEW x \in RecIds, Live(x)' PROVE Placed(x)'
  <2>1. Live(x) /\ Placed(x) /\ x # r /\ recs'[x] = recs[x]
    BY <1>1, <1>10, <1>12, <1>20 DEF Layers
  <2>2. recs[x].host \in ScopeIds /\ Exists(recs[x].host) /\ x \in ToSet(scopes[recs[x].host].records)
    BY <2>1 DEF Placed, Exists
  <2>3. Exists(recs[x].host)' /\ x \in ToSet(scopes'[recs[x].host].records)
    BY <1>11, <2>1, <2>2
  <2>4. ASSUME recs[x].scope # NoScope
        PROVE  /\ Exists(recs[x].scope)' /\ scopes'[recs[x].scope].alive
               /\ \A y \in ToSet(scopes'[recs[x].scope].records) :
                    y \in ToSet(scopes[recs[x].scope].records) /\ y \in UsedRecs
    <3>1. OwnRight(x) /\ recs[x].scope \in ScopeIds /\ Exists(recs[x].scope) /\ scopes[recs[x].scope].alive
      BY <2>1, <2>4 DEF Placed, OwnRight, Exists
    <3>2. \A y \in ToSet(scopes[recs[x].scope].records) : y \in UsedRecs
      BY <1>1, <3>1, ListedKnown
    <3>. QED  BY <1>11, <2>1, <3>1, <3>2
  <2>5. ASSUME NEW y \in RecIds, Live(y)' PROVE Live(y) /\ recs'[y] = recs[y]
    BY <1>10, <1>12, <2>5
  <2>6. UNCHANGED services
    BY <1>10
  <2>. QED  BY <1>13, <2>1, <2>3, <2>4, <2>5, <2>6, PlacedKept
<1>21. ASSUME NEW t \in ScopeIds PROVE Held(t)'
  <2>1. Held(t)
    BY <1>1 DEF Layers
  <2>2. ASSUME NEW x \in RecIds, Live(x), recs[x].scope = t PROVE Live(x)' /\ recs'[x].scope = t
    BY <1>7, <1>10, <1>12, <2>2, RegistryAssumption
  <2>3. Tears(stack') = Tears(stack) /\ Exists(t)' = Exists(t)
    BY <1>11, <1>15, <1>18
  <2>. QED  BY <2>1, <2>2, <2>3 DEF Held
<1>22. Exists(Root)'
  BY <1>3, <1>11, ContextAssumption
<1>. QED  BY <1>18, <1>19, <1>20, <1>21, <1>22 DEF Layers

(* The destructor that drops its records preserves Layers ...              *)
LEMMA DtorClearLayers ==
  ASSUME LayerInv, Layered, DtorClear
  PROVE  Layers'
<1>1. /\ Running("dtor") /\ Exists(Top.scope) /\ Top.ix = 0 /\ TypeOK /\ ListsRight /\ Layers
      /\ UNCHANGED services
  BY DEF DtorClear, LayerInv, TreeInv
<1>2. PICK sc : sc = Top.scope
  OBVIOUS
<1>3. /\ sc \in ScopeIds /\ scopes[sc] \in Scope /\ Exists(sc) /\ ~scopes[sc].alive
      /\ \A j \in DOMAIN Below : sc # Root /\ Within(Top, Over(Below[j]))
      /\ Tears(stack) = Tears(Below) \cup {sc}
      /\ \A x \in ToSet(scopes[sc].records) : recs[x].scope = NoScope
  BY <1>1, <1>2, TeardownTop
<1>4. PICK old : old = ToSet(scopes[sc].records)
  OBVIOUS
<1>5. recs \in [RecIds -> LoadRecord \cup {NoRec}] /\ scopes \in [ScopeIds -> Scope \cup {Gone}]
  BY <1>1 DEF TypeOK
<1>6. \A q \in RecIds : recs'[q] = IF q \in old THEN NoRec ELSE recs[q]
  BY <1>2, <1>4, <1>5 DEF DtorClear
<1>7. /\ \A s \in ScopeIds \ {sc} : scopes'[s] = scopes[s]
      /\ scopes'[sc] \in Scope /\ scopes'[sc].records = <<>> /\ scopes'[sc].alive = scopes[sc].alive
  <2>1. scopes' = [scopes EXCEPT ![sc] = [scopes[sc] EXCEPT !.records = <<>>, !.retired = {}]]
    BY <1>2, <1>5 DEF DtorClear
  <2>2. <<>> \in Seq(RecIds) /\ {} \in SUBSET Plugins
    OBVIOUS
  <2>3. PICK new : new = [scopes[sc] EXCEPT !.records = <<>>, !.retired = {}]
    OBVIOUS
  <2>4. new \in Scope /\ new.records = <<>> /\ new.alive = scopes[sc].alive
    BY <1>3, <2>2, <2>3 DEF Scope
  <2>. QED  BY <1>3, <1>5, <2>1, <2>3, <2>4
<1>8. \A t \in ScopeIds :
        /\ Exists(t)' = Exists(t) /\ scopes'[t].alive = scopes[t].alive
        /\ \A y : y \in ToSet(scopes'[t].records) => y \in ToSet(scopes[t].records)
        /\ t # sc => scopes'[t] = scopes[t]
  <2>1. Exists(sc)' /\ ToSet(scopes'[sc].records) = {}
    BY <1>3, <1>7, NullAssumption DEF Exists, ToSet
  <2>. QED  BY <1>3, <1>7, <2>1 DEF Exists
<1>9. \A q : Live(q)' <=> Live(q) /\ q \notin old
  BY <1>6 DEF Live
<1>10. PluginsKept
  BY <1>6, <1>9 DEF PluginsKept, Live
<1>11. PICK b : b = Below
  OBVIOUS
<1>12. b \in Seq(Frame) /\ b \in Seq(Known) /\ Nested(b) /\ Exists(Root)
  BY <1>1, <1>11, RunningLayers
<1>13. ASSUME NEW j \in DOMAIN b
       PROVE  /\ b[j] \in Good /\ b[j] \in Frame /\ b[j] \in Known
              /\ b[j].op \in {"dtor", "revoke"} =>
                   Exists(b[j].scope) /\ b[j].scope \in ScopeIds /\ b[j].scope # sc
              /\ b[j].op \in {"apply", "stop"} =>
                   Live(b[j].rec) /\ b[j].rec \in RecIds /\ b[j].rec \notin old
              /\ \A s \in Services : services[s] = sc => Hears(s) \subseteq Over(b[j])
  BY <1>1, <1>2, <1>4, <1>11, BelowApart DEF Live
<1>14. ASSUME NEW j \in DOMAIN b PROVE Undisturbed(b[j])
  BY <1>1, <1>6, <1>8, <1>9, <1>13 DEF Undisturbed
<1>15. b \in Seq(Good') /\ Sorted(b, ApartPairs')
  BY <1>1, <1>10, <1>12, <1>14, NestedKept
<1>16. PICK g : g = [Call("revoke", NoRec, sc) EXCEPT !.ix = Len(scopes[sc].provided)]
  OBVIOUS
<1>17. g \in Frame /\ g.op = "revoke" /\ g.scope = sc /\ g.todo = {}
  <2>1. Call("revoke", NoRec, sc) \in Frame
    BY <1>3, CallType DEF Ops
  <2>2. Len(scopes[sc].provided) \in Nat
    BY <1>3 DEF Scope
  <2>. QED  BY <1>16, <2>1, <2>2 DEF Call, Frame
<1>18. stack' = <<g>> \o b
  BY <1>2, <1>11, <1>16 DEF DtorClear, Resume
<1>19. g \in Good'
  <2>1. Exists(sc)'
    BY <1>3, <1>8
  <2>. QED  BY <1>17, <2>1 DEF Good
<1>20. ASSUME NEW j \in DOMAIN b PROVE <<g, b[j]>> \in ApartPairs'
  <2>1. PICK A : A = Over(b[j])
    OBVIOUS
  <2>2. A \subseteq Over(b[j])'
    BY <1>10, <1>13, <2>1, OverKept
  <2>3. \A s \in Services : services[s] = sc => Hears(s) \subseteq A
    BY <1>13, <2>1
  <2>4. ToSet(scopes'[sc].records) = {}
    BY <1>7 DEF ToSet
  <2>5. Within(g, Over(b[j]))'
    BY <1>1, <1>17, <2>2, <2>3, <2>4 DEF Within
  <2>6. g.scope # Root /\ ~(b[j].op \in {"dtor", "revoke"} /\ b[j].scope = g.scope)
    BY <1>3, <1>11, <1>13, <1>17
  <2>7. Apart(g, b[j])'
    BY <2>5, <2>6 DEF Apart
  <2>. QED  BY <1>13, <1>17, <2>7 DEF ApartPairs
<1>21. Nested(stack)' /\ Tears(stack') = Tears(stack)
  <2>1. <<g>> \o b \in Seq(Good') /\ Sorted(<<g>> \o b, ApartPairs')
    BY <1>15, <1>19, <1>20, EnteredNested
  <2>2. Tears(<<g>> \o b) = Tears(b) \cup {sc}
    BY <1>12, <1>17, TearsPushed
  <2>. QED  BY <1>3, <1>11, <1>18, <2>1, <2>2 DEF Nested
<1>22. \A w \in watchers' : HeardRight(w)'
  <2>1. watchers' \subseteq watchers
    BY DEF DtorClear
  <2>. QED  BY <1>1, <1>10, <2>1, LiveKnown, HeardKept DEF Layers
<1>23. ASSUME NEW q \in RecIds, Live(q)' PROVE Placed(q)'
  <2>1. Live(q) /\ Placed(q) /\ q \notin old /\ recs'[q] = recs[q]
    BY <1>1, <1>6, <1>9, <1>23 DEF Layers
  <2>2. recs[q].host \in ScopeIds /\ Exists(recs[q].host) /\ q \in ToSet(scopes[recs[q].host].records)
    BY <2>1 DEF Placed, Exists
  <2>3. recs[q].host # sc
    BY <1>4, <2>1, <2>2
  <2>4. Exists(recs[q].host)' /\ q \in ToSet(scopes'[recs[q].host].records)
    BY <1>8, <2>1, <2>2, <2>3
  <2>5. ASSUME recs[q].scope # NoScope
        PROVE  /\ Exists(recs[q].scope)' /\ scopes'[recs[q].scope].alive
               /\ \A y \in ToSet(scopes'[recs[q].scope].records) :
                    y \in ToSet(scopes[recs[q].scope].records) /\ y \in UsedRecs
    <3>1. OwnRight(q) /\ recs[q].scope \in ScopeIds /\ Exists(recs[q].scope) /\ scopes[recs[q].scope].alive
      BY <2>1, <2>5 DEF Placed, OwnRight, Exists
    <3>2. \A y \in ToSet(scopes[recs[q].scope].records) : y \in UsedRecs
      BY <1>1, <3>1, ListedKnown
    <3>. QED  BY <1>8, <2>1, <3>1, <3>2
  <2>6. ASSUME NEW y \in RecIds, Live(y)' PROVE Live(y) /\ recs'[y] = recs[y]
    BY <1>6, <1>9, <2>6
  <2>. QED  BY <1>1, <1>10, <2>1, <2>4, <2>5, <2>6, PlacedKept
<1>24. ASSUME NEW t \in ScopeIds PROVE Held(t)'
  <2>1. Held(t)
    BY <1>1 DEF Layers
  <2>2. ASSUME NEW x \in RecIds, Live(x), recs[x].scope = t PROVE Live(x)' /\ recs'[x].scope = t
    <3>1. x \notin old
      BY <1>3, <1>4, <2>2, RegistryAssumption
    <3>. QED  BY <1>6, <1>9, <2>2, <3>1
  <2>3. Exists(t)' = Exists(t)
    BY <1>8
  <2>. QED  BY <1>21, <2>1, <2>2, <2>3 DEF Held
<1>25. Exists(Root)'
  BY <1>8, <1>12, ContextAssumption
<1>. QED  BY <1>21, <1>22, <1>23, <1>24, <1>25 DEF Layers

(* ... and so does the one that revokes its next service, whose loss       *)
(* concerns nobody below.                                                  *)
LEMMA RevokeNextLayers ==
  ASSUME LayerInv, Layered, RevokeNext
  PROVE  Layers'
<1>1. /\ Running("revoke") /\ Exists(Top.scope) /\ TypeOK /\ ListsRight /\ Layers
      /\ UNCHANGED <<watchers, recs, scopes>>
      /\ Top.ix \in DOMAIN scopes[Top.scope].provided
  BY DEF RevokeNext, LayerInv, TreeInv
<1>2. PICK sc : sc = Top.scope
  OBVIOUS
<1>3. PICK s : s = scopes[sc].provided[Top.ix]
  OBVIOUS
<1>4. PICK g : g = Earlier(Top)
  OBVIOUS
<1>5. sc \in ScopeIds /\ sc # NoScope /\ s \in Services /\ Top.ix - 1 \in Nat
  <2>1. sc \in ScopeIds /\ scopes[sc].provided \in Seq(Services)
    BY <1>1, <1>2, ExistingScope DEF Scope
  <2>2. Top.ix \in 1..Len(scopes[sc].provided) /\ Len(scopes[sc].provided) \in Nat
    BY <1>1, <1>2, <2>1, LenProperties
  <2>. QED  BY <1>3, <2>1, <2>2, ElementOfSeq, RegistryAssumption
<1>6. Top \in Frame /\ Top \in Known /\ Top \in Good /\ Top.op = "revoke" /\ Exists(Root)
  BY <1>1, RunningLayers
<1>7. /\ g \in Frame /\ g.op = "revoke" /\ g.scope = sc /\ g.todo = Top.todo /\ g.rec = Top.rec
  BY <1>2, <1>4, <1>5, <1>6 DEF Frame, Earlier
<1>8. g \in Known /\ Later(g, Top)
  BY <1>2, <1>6, <1>7 DEF Known, Later, Good
<1>9. PICK q : q = Resume(g)
  OBVIOUS
<1>10. /\ q \in Seq(Frame) /\ q \in Seq(Known) /\ Nested(q) /\ Tears(q) = Tears(stack)
       /\ \A i \in DOMAIN q : q[i] = g \/ \E j \in DOMAIN Below : q[i] = Below[j]
  BY <1>1, <1>7, <1>8, <1>9, ResumedLayers
<1>11. PluginsKept
  BY <1>1 DEF PluginsKept, Live
<1>12. CASE ~Disappears(s, sc)
  <2>1. services' = services
    BY <1>2, <1>3, <1>12 DEF RevokeNext, RevokeEntry
  <2>2. stack' = q
    <3>1. stack' = <<>> \o q
      BY <1>2, <1>3, <1>4, <1>9, <1>12 DEF RevokeNext
    <3>. QED  BY <1>10, <3>1
  <2>3. \A x \in RecIds :
           /\ Live(x)' = Live(x)
           /\ recs'[x] = recs[x]
    BY <1>1 DEF Live
  <2>4. \A t \in ScopeIds : Exists(t)' = Exists(t) /\ scopes'[t] = scopes[t]
    BY <1>1 DEF Exists
  <2>5. \A i \in DOMAIN q : recs'[q[i].rec].inst = recs[q[i].rec].inst
    BY <1>1
  <2>6. Tears(stack) \subseteq Tears(q) /\ watchers' \subseteq watchers
    BY <1>1, <1>10
  <2>. QED  BY <1>6, <1>10, <2>1, <2>2, <2>3, <2>4, <2>5, <2>6, DetailLayers
<1>13. CASE Disappears(s, sc)
  <2>1. /\ services[s] = sc /\ services'[s] = NoScope
        /\ \A t \in Services \ {s} : services'[t] = services[t]
    <3>1. services' = [services EXCEPT ![s] = NoScope] /\ services[s] = sc
      BY <1>2, <1>3, <1>13 DEF RevokeNext, RevokeEntry, Disappears
    <3>. QED  BY <1>1, <1>5, <3>1 DEF TypeOK
  <2>2. PICK x \in Frame :
         /\ x = FireWatchers(FALSE, Snapshot(s))
         /\ x.op = "fire" /\ x.val = FALSE
         /\ x.todo = Snapshot(s) /\ \A w \in x.todo : w \in watchers /\ w.svc = s
         /\ \A A : Hears(s) \subseteq A => Within(x, A)
    BY Zenon, <1>1, <1>5, FireFrame DEF Layers
  <2>3. stack' = <<x>> \o q
    BY Zenon, <1>2, <1>3, <1>4, <1>9, <1>13, <2>2 DEF RevokeNext
  <2>4. ASSUME NEW i \in DOMAIN q
        PROVE  /\ q[i] \in Good /\ q[i] \in Frame /\ q[i] \in Known
               /\ Hears(s) \subseteq Over(q[i])
               /\ q[i].op = "apply" => s \notin Required(q[i].rec)
    <3>1. CASE q[i] = g
      <4>1. Over(g) = Plugins
        BY <1>7 DEF Over, Bases
      <4>2. q[i] \in Good
        BY <1>10 DEF Nested
      <4>. QED  BY <1>5, <1>7, <1>8, <3>1, <4>1, <4>2, HearsPlugins
    <3>2. CASE \E j \in DOMAIN Below : q[i] = Below[j]
      BY <1>1, <1>2, <1>5, <2>1, <3>2, BelowApart
    <3>. QED  BY <1>10, <3>1, <3>2
  <2>5. ASSUME NEW i \in DOMAIN q PROVE Undisturbed(q[i])
    <3>1. q[i].op \in {"apply", "stop"} => Live(q[i].rec)
      BY <2>4 DEF Good
    <3>2. q[i].op = "apply" => \A t \in Required(q[i].rec) : t \in Services /\ t # s
      <4>1. ASSUME q[i].op = "apply", NEW t \in Required(q[i].rec) PROVE t \in Services
        <5>1. recs[q[i].rec].plugin \in Plugins
          BY <1>1, <3>1, <4>1, RecordPlugin
        <5>2. Requires[recs[q[i].rec].plugin] \in Seq(Services)
          BY <5>1, ContextAssumption
        <5>. QED  BY <4>1, <5>2 DEF Required, ToSet
      <4>. QED  BY <2>4, <4>1
    <3>3. \A w \in q[i].todo : w.svc \in Services
      BY <2>4 DEF Frame, Watcher
    <3>4. q[i].op \in {"dtor", "revoke"} =>
            Exists(q[i].scope) /\ q[i].scope \in ScopeIds /\ q[i].scope # NoScope
      BY <2>4, RegistryAssumption DEF Good, Exists
    <3>. QED  BY <1>1, <2>1, <3>1, <3>2, <3>3, <3>4 DEF Undisturbed, Live, Exists
  <2>6. q \in Seq(Good') /\ Sorted(q, ApartPairs')
    BY <1>1, <1>10, <1>11, <2>5, NestedKept
  <2>7. x \in Good'
    <3>1. \A w \in x.todo : HeardRight(w)'
      BY <1>1, <1>11, <2>2, LiveKnown, HeardKept DEF Layers
    <3>. QED  BY <2>1, <2>2, <3>1 DEF Good
  <2>8. ASSUME NEW j \in DOMAIN q PROVE <<x, q[j]>> \in ApartPairs'
    <3>1. PICK A : A = Over(q[j])
      OBVIOUS
    <3>2. Within(x, A)
      BY <2>2, <2>4, <3>1
    <3>3. A \subseteq Over(q[j])'
      BY <1>11, <2>4, <3>1, OverKept
    <3>4. \A w \in x.todo : Of(w.rec, A)'
      <4>1. \A w \in x.todo : w.rec \in UsedRecs /\ Of(w.rec, A)
        BY <2>2, <3>2, LiveKnown DEF Within
      <4>. QED  BY <1>11, <4>1, OfKept
    <3>5. \A w \in x.todo : w.rec = NoRec => Fallback[w.svc] \cup Retire[w.svc] \subseteq A
      BY <2>2, <3>2 DEF Within
    <3>6. Within(x, Over(q[j]))'
      BY <2>2, <3>3, <3>4, <3>5 DEF Within, Of
    <3>7. Apart(x, q[j])'
      BY <2>2, <3>6 DEF Apart
    <3>. QED  BY <2>4, <3>7 DEF ApartPairs
  <2>9. Nested(stack)' /\ Tears(stack') = Tears(stack)
    <3>1. <<x>> \o q \in Seq(Good') /\ Sorted(<<x>> \o q, ApartPairs')
      BY <2>6, <2>7, <2>8, EnteredNested
    <3>2. Tears(<<x>> \o q) = Tears(q)
      <4>1. x.op \notin {"dtor", "revoke"}
        BY <2>2
      <4>. QED  BY <1>10, <4>1, TearsPushed
    <3>. QED  BY <1>10, <2>3, <3>1, <3>2 DEF Nested
  <2>10. \A w \in watchers' : HeardRight(w)'
    BY <1>1, <1>11, LiveKnown, HeardKept DEF Layers
  <2>11. ASSUME NEW r \in RecIds, Live(r)' PROVE Placed(r)'
    <3>1. Live(r) /\ Placed(r) /\ recs' = recs /\ scopes' = scopes
      BY <1>1, <2>11 DEF Layers, Live
    <3>2. Exists(recs[r].host)' /\ r \in ToSet(scopes'[recs[r].host].records)
      BY <3>1 DEF Placed, Exists
    <3>3. ASSUME recs[r].scope # NoScope
          PROVE  /\ Exists(recs[r].scope)' /\ scopes'[recs[r].scope].alive
                 /\ \A y \in ToSet(scopes'[recs[r].scope].records) :
                      y \in ToSet(scopes[recs[r].scope].records) /\ y \in UsedRecs
                 /\ \A t \in Services : services'[t] = recs[r].scope => services[t] = recs[r].scope
      <4>1. OwnRight(r) /\ recs[r].scope \in ScopeIds /\ Exists(recs[r].scope) /\ scopes[recs[r].scope].alive
        BY <3>1, <3>3 DEF Placed, OwnRight, Exists
      <4>2. \A y \in ToSet(scopes[recs[r].scope].records) : y \in UsedRecs
        BY <1>1, <4>1, ListedKnown
      <4>3. \A t \in Services : services'[t] = recs[r].scope => services[t] = recs[r].scope
        BY <2>1, <3>3
      <4>. QED  BY <3>1, <4>1, <4>2, <4>3 DEF Exists
    <3>4. \A y \in RecIds : Live(y)' => Live(y)
      BY <3>1 DEF Live
    <3>. QED  BY <1>11, <3>1, <3>2, <3>3, <3>4, PlacedKept
  <2>12. ASSUME NEW t \in ScopeIds PROVE Held(t)'
    <3>1. Held(t)
      BY <1>1 DEF Layers
    <3>. QED  BY <1>1, <2>9, <3>1 DEF Held, Live, Exists
  <2>13. Exists(Root)'
    BY <1>1, <1>6 DEF Exists
  <2>. QED  BY <2>9, <2>10, <2>11, <2>12, <2>13 DEF Layers
<1>. QED  BY SMTT(40), <1>12, <1>13

(* Before any call all of it holds.                                        *)
LEMMA InitLayers ==
  ASSUME Init PROVE LayerInv
<1>1. TreeInv /\ stack = <<>>
  BY InitTree DEF Init
<1>2. Owned
  BY DEF Owned, Init
<1>3. \A r : ~Live(r)
  BY DEF Init, Live
<1>4. \A sc \in ScopeIds : Held(sc)
  BY DEF Held, Exists, Init
<1>5. \A w \in watchers : HeardRight(w)
  BY <1>3 DEF HeardRight
<1>6. Nested(stack)
  BY <1>1, NobodyWaits
<1>. QED  BY <1>1, <1>2, <1>3, <1>4, <1>5, <1>6 DEF LayerInv, Layers

(* A stutter preserves Layers.                                             *)
LEMMA IdleLayers ==
  ASSUME LayerInv, UNCHANGED vars
  PROVE  Layers'
<1>1. Layers /\ services' = services /\ watchers' = watchers /\ recs' = recs /\ scopes' = scopes /\ stack' = stack
  BY DEF LayerInv, vars
<1>2. \A r : Live(r)' = Live(r)
  BY <1>1 DEF Live
<1>3. \A sc : Exists(sc)' = Exists(sc)
  BY <1>1 DEF Exists
<1>4. \A r \in RecIds : Live(r)' => Placed(r)'
  BY <1>1, <1>2, <1>3 DEF Layers, Placed, OwnRight, Of, Live, Exists, Provider
<1>5. \A sc \in ScopeIds : Held(sc)'
  BY <1>1, <1>2, <1>3 DEF Layers, Held, Live, Exists
<1>6. \A w \in watchers' : HeardRight(w)'
  BY <1>1, <1>2 DEF Layers, HeardRight, Required, Live
<1>7. Nested(stack)'
  <2>1. PluginsKept
    BY <1>1, <1>2 DEF PluginsKept
  <2>2. TypeOK /\ ListsRight /\ stack \in Seq(Known) /\ Nested(stack)
    BY StackKnown DEF LayerInv, TreeInv, Layers
  <2>3. PICK q : q = stack
    OBVIOUS
  <2>4. ASSUME NEW i \in DOMAIN q PROVE Undisturbed(q[i])
    <3>1. q[i] \in Good
      BY <2>2, <2>3 DEF Nested
    <3>. QED  BY <1>1, <3>1 DEF Undisturbed, Good, Live, Exists
  <2>5. q \in Seq(Known) /\ Nested(q)
    BY <2>2, <2>3
  <2>6. q \in Seq(Good') /\ Sorted(q, ApartPairs')
    BY <2>1, <2>2, <2>4, <2>5, NestedKept
  <2>. QED  BY <1>1, <2>3, <2>6 DEF Nested
<1>8. stack' # <<>> => Exists(Root)'
  BY <1>1, <1>3 DEF Layers
<1>. QED  BY <1>4, <1>5, <1>6, <1>7, <1>8 DEF Layers

(* Every step preserves the inductive invariant.                           *)
LEMMA StepLayers ==
  ASSUME LayerInv, Layered, [Next]_vars
  PROVE  LayerInv'
<1>1. TypeOK' /\ TreeInv' /\ Owned'
  <2>1. TreeInv'
    BY StepTree DEF LayerInv
  <2>2. TypeOK'
    BY <2>1 DEF TreeInv
  <2>3. TypeOK /\ ListsRight /\ Owned /\ TreeInv
    BY DEF LayerInv, TreeInv
  <2>4. Owned'
    <3>1. CASE UNCHANGED vars
      BY <2>3, <3>1 DEF Owned, vars, Exists, Revokes
    <3>2. CASE HostCalls
      BY <2>2, <2>3, <3>2, HostCallsOwned
    <3>3. CASE ThreadSteps
      BY <2>1, <2>2, <2>3, <3>3, ThreadStepsOwned
    <3>. QED  BY <3>1, <3>2, <3>3 DEF Next, Terminated
  <2>. QED  BY <2>1, <2>2, <2>4
<1>2. Layers'
  <2>1. CASE UNCHANGED vars
    BY <2>1, IdleLayers
  <2>2. CASE HostCalls
    BY <1>1, <2>2, HostCallsLayers
  <2>3. CASE ThreadSteps
    <3>1. CASE ArmNext \/ ArmToken \/ ArmStarts
      BY <1>1, <3>1, ArmNextLayers, ArmTokenLayers, ArmStartsLayers
    <3>2. CASE \E s \in Services : ApplyProvide(s)
      BY <3>2, ApplyProvideLayers
    <3>3. CASE \E p \in Plugins : ApplyLoad(p) \/ ApplyEvict(p) \/ CallbackLoads(p) \/ CallbackUnloads(p)
      BY <1>1, <3>3, ApplyLoadLayers, ApplyEvictLayers, CallbackLayers
    <3>4. CASE ApplyReturns \/ ApplyThrows \/ StopRelease
      BY <3>4, NoteLayers, ApplyThrowsLayers
    <3>5. CASE DtorStop \/ DtorRelease \/ DtorClear \/ RevokeNext \/ RevokeDone \/ Erase
      BY <3>5, DtorStopLayers, DtorReleaseLayers, DtorClearLayers, RevokeNextLayers, RevokeDoneLayers,
         EraseLayers
    <3>6. CASE FireNext \/ FireDone \/ CallbackReturns
      BY <1>1, <3>6, FireNextLayers, FireDoneLayers
    <3>. QED  BY <2>3, <3>1, <3>2, <3>3, <3>4, <3>5, <3>6 DEF ThreadSteps
  <2>. QED  BY <2>1, <2>2, <2>3 DEF Next, Terminated
<1>. QED  BY <1>1, <1>2 DEF LayerInv

(* Calls nest in layers: in a layered product, the calls on the stack of   *)
(* Context.cpp never touch what a call below them is working on, records   *)
(* and scopes match one to one, and every sentinel watches a service its   *)
(* record requires.                                                        *)
THEOREM LayersHold == Layered => (Spec => []LayerInv)
<1>1. Init => LayerInv
  BY InitLayers
<1>2. Layered /\ LayerInv /\ [Next]_vars => LayerInv'
  BY StepLayers
<1>3. CASE Layered
  BY <1>1, <1>2, <1>3, PTL DEF Spec
<1>. QED  BY <1>3

(* The discipline makes the scopes a tree.                                 *)
LEMMA LayersTree == LayerInv => ScopeTree
<1>1. SUFFICES ASSUME LayerInv PROVE ScopeTree
  OBVIOUS
<1>2. TypeOK /\ Layers
  BY <1>1 DEF LayerInv, TreeInv
<1>3. ASSUME NEW r \in Records
      PROVE  /\ (recs[r].state = "Active") <=> (recs[r].scope # NoScope)
             /\ Exists(recs[r].host)
             /\ r \in ToSet(scopes[recs[r].host].records)
             /\ recs[r].scope # NoScope => Exists(recs[r].scope) /\ scopes[recs[r].scope].alive
             /\ \A q \in Records \ {r} : recs[q].scope = recs[r].scope => recs[r].scope = NoScope
  <2>1. r \in RecIds /\ Live(r) /\ Placed(r)
    BY <1>2, <1>3 DEF Records, Layers
  <2>2. recs[r].scope # NoScope => OwnRight(r)
    BY <2>1 DEF Placed
  <2>3. \A q \in Records \ {r} : recs[q].scope = recs[r].scope => recs[r].scope = NoScope
    BY <2>2 DEF OwnRight, Records
  <2>. QED  BY <2>1, <2>2, <2>3 DEF Placed, OwnRight
<1>4. ASSUME NEW sc \in ScopeIds \ {Root}, Exists(sc)
      PROVE  TearingDown(sc) \/ \E r \in Records : recs[r].scope = sc
  <2>1. Held(sc)
    BY <1>2 DEF Layers
  <2>. QED  BY <1>4, <2>1, TearsSame DEF Held, Records
<1>5. ASSUME NEW i \in DOMAIN stack, stack[i].op = "apply"
      PROVE  Live(stack[i].rec) /\ recs[stack[i].rec].scope = stack[i].scope
  <2>1. stack \in Seq(Good)
    BY <1>2 DEF Layers, Nested
  <2>2. stack[i] \in Good
    BY <2>1
  <2>. QED  BY <1>5, <2>2 DEF Good
<1>. QED  BY <1>2, <1>3, <1>4, <1>5 DEF ScopeTree

(* ScopeTree for every layered product: each Active record of Context.cpp  *)
(* owns one live scope, no two records share one, and a scope without a    *)
(* record is being torn down.                                              *)
THEOREM RecordsFormTree == Layered => (Spec => []ScopeTree)
<1>1. CASE Layered
  BY <1>1, LayersHold, LayersTree, PTL
<1>. QED  BY <1>1

(* The calls in q, those of unload() left out: they do not change while they wait. *)
Rests(q) == {q[i] : i \in {j \in DOMAIN q : q[j].op # "erase"}}

(* A call that is entered joins those that wait.                           *)
LEMMA RestsPushed ==
  ASSUME NEW S, NEW q \in Seq(S), NEW x \in S
  PROVE  /\ Rests(q) \subseteq Rests(<<x>> \o q)
         /\ x.op # "erase" => x \in Rests(<<x>> \o q)
         /\ \A f \in Rests(<<x>> \o q) : f = x \/ f \in Rests(q)
<1>. DEFINE p == <<x>> \o q
<1>1. /\ p[1] = x /\ 1 \in DOMAIN p
      /\ \A i \in DOMAIN q : i + 1 \in DOMAIN p /\ p[i + 1] = q[i]
      /\ \A i \in DOMAIN p : i = 1 \/ (i - 1 \in DOMAIN q /\ p[i] = q[i - 1])
  BY PushedPositions
<1>. HIDE DEF p
<1>2. Rests(q) \subseteq Rests(p)
  BY <1>1 DEF Rests
<1>3. x.op # "erase" => x \in Rests(p)
  BY <1>1 DEF Rests
<1>4. \A f \in Rests(p) : f = x \/ f \in Rests(q)
  BY <1>1 DEF Rests
<1>. QED  BY <1>2, <1>3, <1>4 DEF p

(* Marking iterators invalid changes none of these.                        *)
LEMMA RestsMarked ==
  ASSUME NEW q \in Seq(Frame), NEW sc, NEW n \in Nat
  PROVE  Rests(q) \subseteq Rests(Invalidate(q, sc, n))
<1>. DEFINE p == Invalidate(q, sc, n)
<1>1. MarkedFrom(q, p, sc, n)
  BY InvalidateSame
<1>. HIDE DEF p
<1>2. DOMAIN p = DOMAIN q /\ \A i \in DOMAIN q : q[i].op # "erase" => p[i] = q[i]
  BY <1>1 DEF MarkedFrom
<1>. QED  BY <1>2 DEF Rests, p

(* A call of the given kind that works on record r is on the stack.        *)
Waiting(op, r) == \E f \in Rests(stack) : f.op = op /\ f.rec = r

(* That is what the properties mean by it.                                 *)
LEMMA WaitingSame ==
  ASSUME NEW op, op # "erase", NEW r
  PROVE  OnStack(op, r) <=> Waiting(op, r)
BY DEF OnStack, Waiting, Rests

(* A loop that has still to call a sentinel of r, likewise.                *)
LEMMA PendingSame ==
  ASSUME NEW r, NEW v
  PROVE  PendingFire(r, v) <=> \E f \in Rests(stack) : f.op = "fire" /\ f.val = v /\ \E w \in f.todo : w.rec = r
BY DEF PendingFire, Rests

(* The instances with which a start begins: ensureStarted() creates one    *)
(* for an object or a dynamic plugin.                                      *)
FormInstance(p) == IF HasInstance(p) THEN 1 ELSE 0

(* The record's state, its instances and the services it uses stay.        *)
Same(r) ==
  recs'[r].state = recs[r].state /\ recs'[r].inst = recs[r].inst /\ recs'[r].uses = recs[r].uses

(* ensureStarted() turns the record Active, injects its services and calls *)
(* apply().                                                                *)
Starts(r) ==
  /\ recs[r].state = "Deferred" /\ recs'[r].state = "Active" /\ HasAll(r)
  /\ recs'[r].inst = FormInstance(recs[r].plugin) /\ recs'[r].uses = Injected(r)
  /\ Waiting("apply", r)'

(* stopRecord() takes the record out of service; its instance lives on     *)
(* until the call returns. It is Deferred only if a service is missing.    *)
Stops(r) ==
  /\ recs[r].state \in {"Active", "Failed"} /\ recs'[r].state \in {"Deferred", "Failed", "Disposed"}
  /\ recs'[r].state = "Deferred" => recs[r].state = "Active" /\ ~HasAll(r)
  /\ recs'[r].state = "Failed" => recs[r].state = "Active"
  /\ recs'[r].inst = recs[r].inst /\ recs'[r].uses = recs[r].uses
  /\ Waiting("stop", r)'

(* addRecord() makes a record without instance and arms it.                *)
Fresh(r) ==
  /\ recs'[r].state = "Deferred" /\ recs'[r].inst = 0 /\ recs'[r].uses = {}
  /\ Waiting("arm", r)'

(* What calling ensureStarted(), stopRecord(), a watcher, addRecord() or   *)
(* unload() does to every record, above the calls in rest.                 *)
CallTurns(rest) ==
  /\ UNCHANGED services
  /\ Rests(rest) \subseteq Rests(stack')
  /\ \A r \in RecIds : Live(r) =>
       /\ Live(r)' /\ recs'[r].plugin = recs[r].plugin /\ recs'[r].host = recs[r].host
       /\ Same(r) \/ Starts(r) \/ Stops(r)
  /\ \A r \in RecIds : ~Live(r) /\ Live(r)' => Fresh(r)

(* A call that does nothing changes no record ...                          *)
LEMMA ReturnTurns ==
  ASSUME NEW rest, Return(rest), UNCHANGED services
  PROVE  CallTurns(rest) /\ UNCHANGED recs
BY DEF Return, CallTurns, Same, Live

(* ... ensureStarted() starts one that has all it requires ...             *)
LEMMA StartTurns ==
  ASSUME TypeOK, TypeOK', NEW r, Live(r), NEW rest \in Seq(Frame), EnsureStarted(r, rest),
         UNCHANGED services
  PROVE  /\ CallTurns(rest)
         /\ recs[r].state = "Deferred" /\ HasAll(r) => recs'[r].state = "Active"
<1>1. r \in RecIds
  BY DEF Live
<1>2. CanStart(r) <=> recs[r].state = "Deferred" /\ HasAll(r)
  BY DEF CanStart, RequiresMet, Available, HasAll
<1>3. CASE ~CanStart(r) /\ Return(rest)
  BY <1>2, <1>3, ReturnTurns
<1>4. ASSUME NEW sc \in ScopeIds, StartEffect(r, sc, rest)
      PROVE  CallTurns(rest) /\ recs'[r].state = "Active"
  <2>1. PICK x \in Frame : x = Call("apply", r, sc)
    BY <1>1, CallFrames
  <2>2. x.op = "apply" /\ x.rec = r
    BY <2>1 DEF Call
  <2>3. stack' = <<x>> \o rest
    BY <1>4, <2>1 DEF StartEffect
  <2>4. Rests(rest) \subseteq Rests(stack') /\ x \in Rests(stack')
    BY <2>2, <2>3, RestsPushed
  <2>5. Waiting("apply", r)'
    BY <2>2, <2>4 DEF Waiting
  <2>6. Starts(r)
    BY <1>2, <1>4, <2>5 DEF StartEffect, Starts, FormInstance
  <2>7. \A q \in RecIds \ {r} : Live(q)' = Live(q) /\ recs'[q] = recs[q]
    BY <1>4 DEF StartEffect, Live
  <2>8. \A q \in RecIds \ {r} : Same(q)
    BY <2>7 DEF Same
  <2>9. Live(r)' /\ recs'[r].plugin = recs[r].plugin /\ recs'[r].host = recs[r].host
        /\ recs'[r].state = "Active"
    BY <1>4 DEF StartEffect
  <2>. QED  BY <2>4, <2>6, <2>7, <2>8, <2>9 DEF CallTurns
<1>. QED  BY <1>3, <1>4, StartEffects

(* ... stopRecord() stops one that runs ...                                *)
LEMMA StopTurns ==
  ASSUME TypeOK, ListsRight, NEW r, Live(r), NEW target \in {"Deferred", "Failed", "Disposed"},
         target = "Deferred" => recs[r].state = "Active" /\ ~HasAll(r),
         target = "Failed" => recs[r].state = "Active",
         NEW rest \in Seq(Frame), StopRecord(r, target, rest), UNCHANGED services
  PROVE  /\ CallTurns(rest)
         /\ recs[r].state = "Active" => recs'[r].state = target /\ Stops(r)
<1>1. r \in RecIds
  BY DEF Live
<1>2. CASE ~MustStop(r) /\ Return(rest)
  BY <1>2, ReturnTurns DEF MustStop
<1>3. CASE StopShape(r, target, rest)
  <2>1. PICK x \in Frame : x = Call("stop", r, NoScope)
    BY <1>1, CallFrames
  <2>2. x.op = "stop" /\ x.rec = r
    BY <2>1 DEF Call
  <2>3. PICK q \in Seq(Frame) : q = <<x>> \o rest
    BY PushType
  <2>4. Rests(rest) \subseteq Rests(q) /\ x \in Rests(q)
    BY <2>2, <2>3, RestsPushed
  <2>5. Rests(q) \subseteq Rests(stack')
    <3>1. CASE recs[r].scope = NoScope
      BY <1>3, <2>1, <2>3, <3>1 DEF StopShape
    <3>2. CASE recs[r].scope # NoScope
      <4>1. stack' = <<DtorCall(recs[r].scope)>> \o q /\ Exists(recs[r].scope)
        BY <1>3, <2>1, <2>3, <3>2 DEF StopShape
      <4>2. DtorCall(recs[r].scope) \in Frame
        BY <1>1, <4>1, CallFrames DEF Exists
      <4>. QED  BY <4>1, <4>2, RestsPushed
    <3>. QED  BY <3>1, <3>2
  <2>6. Waiting("stop", r)'
    BY <2>2, <2>4, <2>5 DEF Waiting
  <2>7. Stops(r)
    BY <1>3, <2>6 DEF StopShape, Stops, MustStop
  <2>8. \A q1 \in RecIds \ {r} : Live(q1)' = Live(q1) /\ recs'[q1] = recs[q1]
    BY <1>3 DEF StopShape, Live
  <2>9. \A q1 \in RecIds \ {r} : Same(q1)
    BY <2>8 DEF Same
  <2>10. Live(r)' /\ recs'[r].plugin = recs[r].plugin /\ recs'[r].host = recs[r].host
         /\ recs'[r].state = target
    BY <1>3 DEF StopShape
  <2>11. Rests(rest) \subseteq Rests(stack')
    BY <2>4, <2>5
  <2>. QED  BY <2>7, <2>8, <2>9, <2>10, <2>11 DEF CallTurns
<1>. QED  BY <1>2, <1>3, StopShapes

(* ... a sentinel does one or the other, as its service comes or goes ...  *)
LEMMA WatcherTurns ==
  ASSUME TypeOK, TypeOK', ListsRight, NEW w \in Watcher, HeardRight(w), NEW v \in BOOLEAN,
         ~v => services[w.svc] = NoScope,
         NEW rest \in Seq(Frame), CallWatcher(w, v, rest), UNCHANGED services
  PROVE  /\ CallTurns(rest)
         /\ HostAlive(w) /\ w.rec # NoRec =>
              /\ v /\ recs[w.rec].state = "Deferred" /\ HasAll(w.rec) => recs'[w.rec].state = "Active"
              /\ ~v /\ recs[w.rec].state = "Active" => recs'[w.rec].state = "Deferred" /\ Stops(w.rec)
<1>1. CASE ~HostAlive(w)
  <2>1. Return(rest)
    BY <1>1 DEF CallWatcher
  <2>. QED  BY <1>1, <2>1, ReturnTurns
<1>2. CASE HostAlive(w) /\ w.rec = NoRec
  <2>1. PICK x : x = [Call("callback", NoRec, NoScope) EXCEPT !.val = v, !.todo = {w}]
    OBVIOUS
  <2>2. Return(<<x>> \o rest)
    BY <1>2, <2>1 DEF CallWatcher
  <2>3. x \in Frame
    <3>1. Call("callback", NoRec, NoScope) \in Frame
      BY CallType DEF Ops
    <3>. QED  BY <2>1, <3>1 DEF Call, Frame
  <2>4. CallTurns(<<x>> \o rest)
    BY <2>2, ReturnTurns
  <2>5. Rests(rest) \subseteq Rests(<<x>> \o rest)
    BY <2>3, RestsPushed
  <2>6. CallTurns(rest)
    BY <2>4, <2>5 DEF CallTurns
  <2>. QED  BY <1>2, <2>6
<1>3. CASE HostAlive(w) /\ w.rec # NoRec
  <2>1. Live(w.rec)
    BY <1>3 DEF CallWatcher
  <2>2. ~v => ~HasAll(w.rec)
    BY <2>1 DEF HeardRight, HasAll
  <2>3. PICK r : r = w.rec
    OBVIOUS
  <2>4. CASE v
    <3>1. EnsureStarted(r, rest)
      BY <1>3, <2>3, <2>4 DEF CallWatcher
    <3>. QED  BY <2>1, <2>3, <2>4, <3>1, StartTurns
  <2>5. CASE ~v /\ recs[r].state = "Active"
    <3>1. StopRecord(r, "Deferred", rest)
      BY <1>3, <2>3, <2>5 DEF CallWatcher
    <3>2. ~HasAll(r) /\ Live(r)
      BY <2>1, <2>2, <2>3, <2>5
    <3>. QED  BY <2>3, <2>5, <3>1, <3>2, StopTurns
  <2>6. CASE ~v /\ recs[r].state # "Active"
    <3>1. Return(rest)
      BY <1>3, <2>3, <2>6 DEF CallWatcher
    <3>. QED  BY <2>3, <2>6, <3>1, ReturnTurns
  <2>. QED  BY <2>4, <2>5, <2>6
<1>. QED  BY <1>1, <1>2, <1>3

(* ... addRecord() adds one ...                                            *)
LEMMA AddTurns ==
  ASSUME TypeOK, TypeOK', NEW sc, Exists(sc), NEW p \in Plugins, NEW rest \in Seq(Frame),
         AddRecord(sc, p, rest)
  PROVE  CallTurns(rest)
<1>1. PICK r \in RecIds : AddShape(r, sc, p, rest)
  BY AddShapes
<1>2. PICK x \in Frame : x = ArmCall(r, sc)
  BY <1>1 DEF AddShape
<1>3. x.op = "arm" /\ x.rec = r
  BY <1>2 DEF ArmCall, Call
<1>4. PICK q \in Seq(Frame) : q = Invalidate(rest, sc, 1)
  BY InvalidateType
<1>5. stack' = <<x>> \o q
  BY <1>1, <1>2, <1>4 DEF AddShape
<1>6. Rests(rest) \subseteq Rests(q)
  BY <1>4, RestsMarked
<1>7. Rests(q) \subseteq Rests(stack') /\ x \in Rests(stack')
  BY <1>3, <1>5, RestsPushed
<1>8. Waiting("arm", r)'
  BY <1>3, <1>7 DEF Waiting
<1>9. Fresh(r) /\ ~Live(r)
  BY <1>1, <1>8 DEF AddShape, Fresh
<1>10. \A q1 \in RecIds \ {r} : Live(q1)' = Live(q1) /\ recs'[q1] = recs[q1]
  BY <1>1 DEF AddShape, Live
<1>11. \A q1 \in RecIds \ {r} : Same(q1)
  BY <1>10 DEF Same
<1>12. UNCHANGED services /\ Rests(rest) \subseteq Rests(stack')
  BY <1>1, <1>6, <1>7 DEF AddShape
<1>. QED  BY <1>9, <1>10, <1>11, <1>12 DEF CallTurns

(* ... and unload() stops one.                                             *)
LEMMA UnloadTurns ==
  ASSUME TypeOK, ListsRight, NEW sc, Exists(sc), NEW p, NEW rest \in Seq(Frame), Unload(sc, p, rest)
  PROVE  CallTurns(rest)
<1>1. PICK i \in DOMAIN scopes[sc].records :
        /\ Live(scopes[sc].records[i])
        /\ StopRecord(scopes[sc].records[i], "Disposed",
                      <<EraseCall(scopes[sc].records[i], sc, i)>> \o rest)
        /\ UNCHANGED services
  BY DEF Unload, Named, EraseCall
<1>2. PICK r : r = scopes[sc].records[i]
  OBVIOUS
<1>3. PICK x : x = EraseCall(r, sc, i)
  OBVIOUS
<1>4. x \in Frame
  <2>1. r \in RecIds /\ sc \in ScopeIds
    BY <1>1, <1>2 DEF Live, Exists
  <2>2. i \in Nat
    <3>1. scopes[sc].records \in Seq(RecIds)
      BY ExistingScope DEF Scope
    <3>. QED  BY <3>1, LenProperties
  <2>3. Call("erase", r, sc) \in Frame
    BY <2>1, CallType DEF Ops
  <2>. QED  BY <1>3, <2>2, <2>3 DEF EraseCall, Call, Frame
<1>5. PICK q \in Seq(Frame) : q = <<x>> \o rest
  BY <1>4, PushType
<1>6. CallTurns(q)
  BY <1>1, <1>2, <1>3, <1>5, StopTurns
<1>7. Rests(rest) \subseteq Rests(q)
  BY <1>4, <1>5, RestsPushed
<1>. QED  BY <1>6, <1>7 DEF CallTurns

(* The calls that start or stop r go on waiting.                           *)
Keeps(r) == \A op \in {"apply", "stop"} : Waiting(op, r) => Waiting(op, r)'

(* The instances an Active plugin has: a function plugin none, any other   *)
(* one.                                                                    *)
FullInstance(p) == IF Form[p] = "function" THEN 0 ELSE 1

(* apply() returns: a class plugin now has its instance.                   *)
Returns(r) ==
  /\ recs[r].state = "Active" /\ recs'[r].state = "Active"
  /\ recs'[r].inst = FullInstance(recs[r].plugin) /\ recs'[r].uses = recs[r].uses

(* stopRecord() returns: instance and injected services are gone.          *)
Releases(r) ==
  /\ recs[r].state # "Active" /\ recs'[r].state = recs[r].state
  /\ recs'[r].inst = 0 /\ recs'[r].uses = {}

(* What a step may do to a record that stays: nothing, start it, stop it,  *)
(* or end one of these calls.                                              *)
Turn(r) ==
  /\ recs'[r].plugin = recs[r].plugin /\ recs'[r].host = recs[r].host
  /\ (Same(r) /\ Keeps(r)) \/ Starts(r) \/ Stops(r) \/ Returns(r) \/ Releases(r)

(* A step removes no call below the running one.                           *)
BelowWaits == stack # <<>> => Rests(Below) \subseteq Rests(stack')

(* How a step of Context.cpp turns the records.                            *)
Turned ==
  /\ \A r \in RecIds :
       /\ Live(r) /\ Live(r)' => Turn(r)
       /\ ~Live(r) /\ Live(r)' => Fresh(r)
  /\ BelowWaits

(* No call that works on a record is lost with the calls p.                *)
Carried(p, q) ==
  /\ \A f \in p : f.op \in {"apply", "stop"} => f \in q
  /\ stack # <<>> => Rests(Below) \subseteq q

(* The calls that wait below the running one.                              *)
LEMMA RestsRunning ==
  ASSUME TypeOK, NEW op, Running(op)
  PROVE  /\ Rests(Below) \subseteq Rests(stack)
         /\ \A f \in Rests(stack) : f = Top \/ f \in Rests(Below)
         /\ op # "erase" => Top \in Rests(stack)
         /\ \A g \in Frame : Rests(Below) \subseteq Rests(Resume(g))
         /\ \A g \in Frame : g.op # "erase" => g \in Rests(Resume(g))
         /\ Top.op = op /\ Top \in Frame /\ Below \in Seq(Frame)
         /\ \A g \in Frame : Resume(g) \in Seq(Frame)
<1>1. /\ stack = <<Top>> \o Below /\ stack \in Seq(Frame)
      /\ Top \in Frame /\ Top.op = op /\ Below \in Seq(Frame)
  BY RunningStack
<1>2. \A g \in Frame :
        /\ Rests(Below) \subseteq Rests(Resume(g))
        /\ g.op # "erase" => g \in Rests(Resume(g))
        /\ Resume(g) \in Seq(Frame)
  BY <1>1, RestsPushed, PushType DEF Resume
<1>3. /\ Rests(Below) \subseteq Rests(stack)
      /\ op # "erase" => Top \in Rests(stack)
      /\ \A f \in Rests(stack) : f = Top \/ f \in Rests(Below)
  BY <1>1, RestsPushed
<1>. QED  BY <1>1, <1>2, <1>3

(* A step that makes one of these calls turns the records ...              *)
LEMMA CallTurned ==
  ASSUME NEW rest, CallTurns(rest), Carried(Rests(stack), Rests(rest))
  PROVE  Turned
<1>1. ASSUME NEW r PROVE Keeps(r)
  <2>1. ASSUME NEW f \in Rests(stack), f.op \in {"apply", "stop"} PROVE f \in Rests(stack')
    BY <2>1 DEF CallTurns, Carried
  <2>. QED  BY <2>1 DEF Keeps, Waiting
<1>2. BelowWaits
  BY DEF CallTurns, Carried, BelowWaits
<1>. QED  BY <1>1, <1>2 DEF CallTurns, Turned, Turn

(* ... and so does one that leaves them as they are.                       *)
LEMMA QuietTurned ==
  ASSUME \A r \in RecIds : Live(r)' =>
           /\ Live(r) /\ Same(r)
           /\ recs'[r].plugin = recs[r].plugin /\ recs'[r].host = recs[r].host,
         Carried(Rests(stack), Rests(stack'))
  PROVE  Turned
<1>1. ASSUME NEW r PROVE Keeps(r)
  <2>1. ASSUME NEW f \in Rests(stack), f.op \in {"apply", "stop"} PROVE f \in Rests(stack')
    BY <2>1 DEF Carried
  <2>. QED  BY <2>1 DEF Keeps, Waiting
<1>2. BelowWaits
  BY DEF Carried, BelowWaits
<1>. QED  BY <1>1, <1>2 DEF Turned, Turn

(* The steps that note something in a record turn it.                      *)
LEMMA NoteTurned ==
  ASSUME LayerInv, ArmToken \/ ApplyReturns \/ StopRelease
  PROVE  Turned
<1>1. TypeOK /\ Layers
  BY DEF LayerInv, TreeInv
<1>2. PICK r : r = Top.rec
  OBVIOUS
<1>3. /\ NoteShape(r)
      /\ ArmToken => recs'[r].inst = recs[r].inst /\ recs'[r].uses = recs[r].uses
      /\ ApplyReturns =>
           /\ recs'[r].inst = recs[r].inst + (IF Form[recs[r].plugin] = "class" THEN 1 ELSE 0)
           /\ recs'[r].uses = recs[r].uses
      /\ StopRelease => recs'[r].inst = 0 /\ recs'[r].uses = {}
  BY <1>1, <1>2, NoteShapes
<1>4. /\ Live(r) /\ r \in RecIds /\ Placed(r) /\ recs[r].plugin \in Plugins
      /\ recs'[r].plugin = recs[r].plugin /\ recs'[r].host = recs[r].host
      /\ recs'[r].state = recs[r].state
  BY <1>1, <1>3, RecordPlugin DEF NoteShape, Layers
<1>5. /\ \A q \in RecIds : Live(q)' => Live(q)
      /\ \A q \in RecIds \ {r} : recs'[q] = recs[q]
  BY <1>3 DEF NoteShape
<1>6. \A q \in RecIds \ {r} : Same(q)
  BY <1>5 DEF Same
<1>7. CASE ArmToken
  <2>1. Running("arm")
    BY <1>7 DEF ArmToken
  <2>2. PICK g : g = [Top EXCEPT !.todo = {}, !.ix = Top.ix + 1]
    OBVIOUS
  <2>3. Top \in Frame /\ Top.op = "arm"
    BY <1>1, <2>1, RestsRunning
  <2>4. g \in Frame
    <3>1. Top.ix + 1 \in Nat /\ {} \in SUBSET Watcher
      BY <2>3 DEF Frame
    <3>. QED  BY <2>2, <2>3, <3>1 DEF Frame
  <2>5. stack' = Resume(g)
    BY <1>7, <2>2 DEF ArmToken
  <2>6. Carried(Rests(stack), Rests(stack'))
    <3>1. /\ \A f \in Rests(stack) : f = Top \/ f \in Rests(Resume(g))
          /\ Rests(Below) \subseteq Rests(Resume(g))
      BY <1>1, <2>1, <2>4, RestsRunning
    <3>. QED  BY <2>3, <2>5, <3>1 DEF Carried
  <2>7. Same(r)
    BY <1>3, <1>4, <1>7 DEF Same
  <2>. QED  BY <1>4, <1>5, <1>6, <2>6, <2>7, QuietTurned
<1>8. CASE ApplyReturns \/ StopRelease
  <2>1. (Running("apply") \/ Running("stop")) /\ stack' = Below
    BY <1>8 DEF ApplyReturns, StopRelease
  <2>2. \A f \in Rests(stack) : f = Top \/ f \in Rests(stack')
    BY <1>1, <2>1, RestsRunning
  <2>3. ASSUME NEW q \in RecIds \ {r} PROVE Keeps(q)
    BY <1>2, <2>2 DEF Keeps, Waiting
  <2>4. Turn(r)
    <3>1. CASE ApplyReturns
      <4>1. Running("apply")
        BY <3>1 DEF ApplyReturns
      <4>2. Top \in Good /\ Top.op = "apply"
        BY <4>1, RunningLayers
      <4>3. /\ recs[r].scope = Top.scope /\ Top.scope # NoScope
            /\ recs[r].inst = IF HasInstance(recs[r].plugin) THEN 1 ELSE 0
        BY <1>2, <4>2 DEF Good
      <4>4. recs[r].state = "Active"
        BY <1>4, <4>3 DEF Placed
      <4>5. Form[recs[r].plugin] \in Forms
        BY <1>4, ContextAssumption
      <4>6. recs'[r].inst = FullInstance(recs[r].plugin)
        BY <1>3, <3>1, <4>3, <4>5 DEF HasInstance, FullInstance, Forms
      <4>. QED  BY <1>3, <1>4, <3>1, <4>4, <4>6 DEF Turn, Returns
    <3>2. CASE StopRelease
      <4>1. Running("stop")
        BY <3>2 DEF StopRelease
      <4>2. Top \in Good /\ Top.op = "stop"
        BY <4>1, RunningLayers
      <4>3. recs[r].state # "Active"
        BY <1>2, <4>2 DEF Good
      <4>. QED  BY <1>3, <1>4, <3>2, <4>3 DEF Turn, Releases
    <3>. QED  BY <1>8, <3>1, <3>2
  <2>5. BelowWaits
    BY <2>1 DEF BelowWaits
  <2>. QED  BY <1>5, <1>6, <2>3, <2>4, <2>5 DEF Turned, Turn
<1>. QED  BY <1>7, <1>8

(* A throwing apply() stops its record as Failed.                          *)
LEMMA ApplyThrowsTurned ==
  ASSUME LayerInv, Layered, ApplyThrows
  PROVE  Turned
<1>1. TypeOK /\ ListsRight /\ Layers /\ Running("apply") /\ Live(Top.rec)
      /\ StopRecord(Top.rec, "Failed", Below) /\ UNCHANGED services
  BY DEF ApplyThrows, LayerInv, TreeInv
<1>2. PICK r, b : r = Top.rec /\ b = Below
  OBVIOUS
<1>3. Top \in Good /\ Top.op = "apply" /\ Below \in Seq(Frame)
  BY <1>1, RunningLayers
<1>4. recs[r].state = "Active" /\ Live(r)
  BY <1>1, <1>2, <1>3 DEF Good, Layers, Placed, Live
<1>5. CallTurns(b) /\ Stops(r)
  BY <1>1, <1>2, <1>3, <1>4, StopTurns
<1>6. ASSUME NEW q \in RecIds \ {r} PROVE Keeps(q)
  <2>1. \A f \in Rests(stack) : f = Top \/ f \in Rests(b)
    BY <1>1, <1>2, RestsRunning
  <2>2. Rests(b) \subseteq Rests(stack')
    BY <1>5 DEF CallTurns
  <2>. QED  BY <1>2, <2>1, <2>2 DEF Keeps, Waiting
<1>7. BelowWaits
  BY <1>2, <1>5 DEF BelowWaits, CallTurns
<1>. QED  BY <1>5, <1>6, <1>7 DEF CallTurns, Turned, Turn

(* Arming starts the record or leaves it Deferred.                         *)
LEMMA ArmTurned ==
  ASSUME LayerInv, Layered, TypeOK', ArmNext \/ ArmStarts
  PROVE  Turned
<1>1. TypeOK /\ ListsRight /\ Running("arm")
  BY DEF ArmNext, ArmStarts, LayerInv, TreeInv
<1>2. CASE ArmNext
  <2>1. PICK w \in Watcher, g \in Frame :
          /\ UNCHANGED services
          /\ CallWatcher(w, Available(w.svc), Resume(g))
          /\ HeardRight(w)
    BY <1>2, ArmNextParts
  <2>2. PICK q, v : q = Resume(g) /\ v = Available(w.svc)
    OBVIOUS
  <2>3. q \in Seq(Frame) /\ v \in BOOLEAN /\ (~v => services[w.svc] = NoScope)
    BY <1>1, <2>2, RestsRunning DEF Available
  <2>4. CallTurns(q)
    BY <1>1, <2>1, <2>2, <2>3, WatcherTurns
  <2>5. Carried(Rests(stack), Rests(q))
    BY <1>1, <2>2, RestsRunning DEF Carried
  <2>. QED  BY <2>4, <2>5, CallTurned
<1>3. CASE ArmStarts
  <2>1. PICK r, b : r = Top.rec /\ b = Below
    OBVIOUS
  <2>2. Live(r) /\ EnsureStarted(r, b) /\ UNCHANGED services
    BY <1>3, <2>1 DEF ArmStarts
  <2>3. b \in Seq(Frame) /\ Carried(Rests(stack), Rests(b))
    BY <1>1, <2>1, RestsRunning DEF Carried
  <2>4. CallTurns(b)
    BY <1>1, <2>2, <2>3, StartTurns
  <2>. QED  BY <2>3, <2>4, CallTurned
<1>. QED  BY SMTT(40), <1>2, <1>3

(* A watcher's call turns the record it belongs to.                        *)
LEMMA FireTurned ==
  ASSUME LayerInv, Layered, TypeOK', FireNext
  PROVE  Turned
<1>1. TypeOK /\ ListsRight /\ Running("fire")
  BY DEF FireNext, LayerInv, TreeInv
<1>2. PICK w \in Watcher, g \in Frame :
          /\ w \in Top.todo /\ CallWatcher(w, Top.val, Resume(g)) /\ HeardRight(w) /\ UNCHANGED services
  BY FireNextParts
<1>3. Top \in Good /\ Top \in Frame /\ Top.op = "fire"
  BY <1>1, RunningLayers
<1>4. PICK q, v : q = Resume(g) /\ v = Top.val
  OBVIOUS
<1>5. q \in Seq(Frame) /\ Carried(Rests(stack), Rests(q))
  BY <1>1, <1>4, RestsRunning DEF Carried
<1>6. v \in BOOLEAN /\ (~v => services[w.svc] = NoScope)
  BY <1>2, <1>3, <1>4 DEF Frame, Good
<1>7. CallTurns(q)
  BY <1>1, <1>2, <1>4, <1>5, <1>6, WatcherTurns
<1>. QED  BY <1>5, <1>7, CallTurned

(* Loading and unloading from a plugin's body turn the records ...         *)
LEMMA ApplyTurned ==
  ASSUME LayerInv, TypeOK', NEW p \in Plugins, ApplyLoad(p) \/ ApplyEvict(p)
  PROVE  Turned
<1>1. TypeOK /\ ListsRight /\ Applying
  BY DEF ApplyLoad, ApplyEvict, LayerInv, TreeInv
<1>2. stack \in Seq(Frame)
  BY <1>1 DEF TypeOK
<1>3. PICK q \in Seq(Frame) : q = stack
  BY <1>2
<1>6. Carried(Rests(stack), Rests(q))
  BY <1>1, <1>3, RestsRunning DEF Carried, Applying
<1>4. CASE ApplyLoad(p)
  <2>1. PICK sc : sc = Top.scope
    OBVIOUS
  <2>2. Exists(sc) /\ AddRecord(sc, p, q)
    BY <1>3, <1>4, <2>1 DEF ApplyLoad, Applying
  <2>3. CallTurns(q)
    BY <1>1, <2>2, AddTurns
  <2>. QED  BY <1>6, <2>3, CallTurned
<1>5. CASE ApplyEvict(p)
  <2>1. PICK sc : sc = recs[Top.rec].host
    OBVIOUS
  <2>2. Exists(sc) /\ Unload(sc, p, q)
    BY <1>3, <1>5, <2>1 DEF ApplyEvict
  <2>3. CallTurns(q)
    BY <1>1, <2>2, UnloadTurns
  <2>. QED  BY <1>6, <2>3, CallTurned
<1>. QED  BY <1>4, <1>5

(* ... and so do they from a host's watcher.                               *)
LEMMA CallbackTurned ==
  ASSUME LayerInv, TypeOK', NEW p \in Plugins, CallbackLoads(p) \/ CallbackUnloads(p)
  PROVE  Turned
<1>1. TypeOK /\ ListsRight /\ Running("callback") /\ Exists(Root)
  BY DEF CallbackLoads, CallbackUnloads, LayerInv, TreeInv
<1>2. PICK b : b = Below
  OBVIOUS
<1>3. b \in Seq(Frame) /\ Carried(Rests(stack), Rests(b))
  BY <1>1, <1>2, RestsRunning DEF Carried
<1>4. AddRecord(Root, p, b) \/ Unload(Root, p, b)
  BY <1>2 DEF CallbackLoads, CallbackUnloads
<1>5. CallTurns(b)
  BY <1>1, <1>3, <1>4, AddTurns, UnloadTurns
<1>. QED  BY <1>3, <1>5, CallTurned

(* The destructor disposes of its next record.                             *)
LEMMA DtorStopTurned ==
  ASSUME LayerInv, DtorStop
  PROVE  Turned
<1>1. TypeOK /\ ListsRight /\ Running("dtor") /\ UNCHANGED services
  BY DEF DtorStop, LayerInv, TreeInv
<1>2. PICK r : r = scopes[Top.scope].records[Top.ix]
  OBVIOUS
<1>3. PICK g : g = [Top EXCEPT !.val = TRUE]
  OBVIOUS
<1>4. Top \in Frame /\ Top.op = "dtor"
  BY <1>1, RestsRunning
<1>5. g \in Frame
  BY <1>3, <1>4 DEF Frame
<1>6. PICK q : q = Resume(g)
  OBVIOUS
<1>7. Live(r) /\ StopRecord(r, "Disposed", q)
  BY <1>2, <1>3, <1>6 DEF DtorStop
<1>8. q \in Seq(Frame) /\ Carried(Rests(stack), Rests(q))
  BY <1>1, <1>5, <1>6, RestsRunning DEF Carried
<1>9. CallTurns(q)
  BY <1>1, <1>7, <1>8, StopTurns
<1>. QED  BY <1>8, <1>9, CallTurned

(* The calls below are among all that wait.                                *)
LEMMA BelowRests ==
  ASSUME TypeOK
  PROVE  stack # <<>> => Rests(Below) \subseteq Rests(stack)
<1>1. SUFFICES ASSUME stack # <<>> PROVE Rests(Below) \subseteq Rests(stack)
  OBVIOUS
<1>2. Running(Top.op)
  BY <1>1 DEF Running
<1>. QED  BY <1>2, RestsRunning

(* A host's call turns the records ...                                     *)
LEMMA HostTurned ==
  ASSUME LayerInv, TypeOK', HostCalls
  PROVE  Turned
<1>1. TypeOK /\ ListsRight /\ stack = <<>> /\ Exists(Root) /\ <<>> \in Seq(Frame)
  BY NobodyWaits DEF HostCalls, HostLoad, HostUnload, HostProvide, HostDestroy, Idle, LayerInv, TreeInv
<1>2. Rests(stack) = {}
  BY <1>1 DEF Rests
<1>3. CASE \E p \in Plugins : HostLoad(p)
  <2>1. PICK p \in Plugins : AddRecord(Root, p, <<>>)
    BY <1>3 DEF HostLoad
  <2>2. CallTurns(<<>>)
    BY <1>1, <2>1, AddTurns
  <2>. QED  BY <1>1, <1>2, <2>2, CallTurned DEF Carried
<1>4. CASE \E p \in HostUnloads : HostUnload(p)
  <2>1. PICK p : Unload(Root, p, <<>>)
    BY <1>4 DEF HostUnload
  <2>2. CallTurns(<<>>)
    BY <1>1, <2>1, UnloadTurns
  <2>. QED  BY <1>1, <1>2, <2>2, CallTurned DEF Carried
<1>5. CASE (\E s \in Services : HostProvide(s)) \/ HostDestroy
  <2>1. UNCHANGED recs
    BY <1>5 DEF HostProvide, ProvideService, HostDestroy
  <2>2. \A r \in RecIds : Live(r)' => Live(r) /\ recs'[r] = recs[r]
    BY <2>1 DEF Live
  <2>. QED  BY <1>1, <1>2, <2>2, QuietTurned DEF Carried, Same
<1>. QED  BY <1>3, <1>4, <1>5 DEF HostCalls

(* ... and so do the rest of the destructor ...                            *)
LEMMA TeardownTurned ==
  ASSUME LayerInv, DtorRelease \/ DtorClear \/ RevokeNext \/ RevokeDone
  PROVE  Turned
<1>1. TypeOK /\ ListsRight /\ Exists(Top.scope) /\ (Running("dtor") \/ Running("revoke"))
  BY Zenon DEF DtorRelease, DtorClear, RevokeNext, RevokeDone, LayerInv, TreeInv
<1>2. Top.op \in {"dtor", "revoke"} /\ Top \in Frame /\ Below \in Seq(Frame)
      /\ \A f \in Rests(stack) : f = Top \/ f \in Rests(Below)
  BY <1>1, RestsRunning
<1>3. ASSUME Rests(Below) \subseteq Rests(stack') PROVE Carried(Rests(stack), Rests(stack'))
  BY <1>2, <1>3 DEF Carried
<1>4. recs \in [RecIds -> LoadRecord \cup {NoRec}]
  BY <1>1 DEF TypeOK
<1>5. CASE DtorRelease
  <2>1. PICK r : r = scopes[Top.scope].records[Top.ix]
    BY SMTT(40)
  <2>2. Live(r) /\ recs[r] \in LoadRecord /\ r \in RecIds
    BY Zenon, <1>1, <1>5, <2>1, LiveRecord DEF DtorRelease, Live
  <2>3. PICK rec : rec = [recs[r] EXCEPT !.lib = FALSE, !.tokens = {}]
    OBVIOUS
  <2>4. /\ rec.state = recs[r].state /\ rec.uses = recs[r].uses /\ rec.inst = recs[r].inst
        /\ rec.plugin = recs[r].plugin /\ rec.host = recs[r].host
    BY SMTT(40), <2>2, <2>3 DEF LoadRecord
  <2>5. recs' = [recs EXCEPT ![r] = rec]
    BY Zenon, <1>5, <2>1, <2>3 DEF DtorRelease
  <2>6. recs'[r] = rec /\ \A q \in RecIds \ {r} : recs'[q] = recs[q]
    BY <1>4, <2>2, <2>5
  <2>7. \A q \in RecIds : Live(q)' =>
          /\ Live(q) /\ Same(q)
          /\ recs'[q].plugin = recs[q].plugin /\ recs'[q].host = recs[q].host
    BY <2>2, <2>4, <2>6 DEF Live, Same
  <2>8. Rests(Below) \subseteq Rests(stack')
    <3>1. stack' = <<Earlier(Top)>> \o Below
      BY Zenon, <1>5 DEF DtorRelease, Resume
    <3>2. PICK g : g = Earlier(Top)
      OBVIOUS
    <3>3. Below \in Seq(Frame \cup {g}) /\ g \in Frame \cup {g}
      BY <1>2, LargerSeq
    <3>. QED  BY <3>1, <3>2, <3>3, RestsPushed
  <2>. QED  BY <1>3, <2>7, <2>8, QuietTurned
<1>6. CASE DtorClear
  <2>1. \A q \in RecIds : recs'[q] = IF q \in ToSet(scopes[Top.scope].records) THEN NoRec ELSE recs[q]
    BY <1>4, <1>6 DEF DtorClear
  <2>2. \A q \in RecIds : Live(q)' => Live(q) /\ recs'[q] = recs[q]
    BY <2>1 DEF Live
  <2>3. Rests(Below) \subseteq Rests(stack')
    <3>1. PICK g : g = [Call("revoke", NoRec, Top.scope) EXCEPT !.ix = Len(scopes[Top.scope].provided)]
      OBVIOUS
    <3>2. stack' = <<g>> \o Below
      BY <1>6, <3>1 DEF DtorClear, Resume
    <3>3. Below \in Seq(Frame \cup {g}) /\ g \in Frame \cup {g}
      BY <1>2, LargerSeq
    <3>. QED  BY <3>2, <3>3, RestsPushed
  <2>. QED  BY <1>3, <2>2, <2>3, QuietTurned DEF Same
<1>7. CASE RevokeNext
  <2>1. \A q \in RecIds : Live(q)' => Live(q) /\ recs'[q] = recs[q]
    BY <1>7 DEF RevokeNext, Live
  <2>2. PICK s : s = scopes[Top.scope].provided[Top.ix]
    OBVIOUS
  <2>3. PICK g : g = Earlier(Top)
    OBVIOUS
  <2>4. PICK x : x = FireWatchers(FALSE, Snapshot(s))
    OBVIOUS
  <2>5. PICK S : S = Frame \cup {g, x}
    OBVIOUS
  <2>6. PICK q \in Seq(S) : q = Resume(g)
    <3>1. Below \in Seq(S) /\ g \in S
      BY <1>2, <2>5, LargerSeq
    <3>. QED  BY <3>1, PushType DEF Resume
  <2>7. Rests(Below) \subseteq Rests(q)
    <3>1. Below \in Seq(S) /\ g \in S
      BY SMTT(40), <1>2, <2>5, LargerSeq
    <3>. QED  BY <2>6, <3>1, RestsPushed DEF Resume
  <2>8. stack' = <<x>> \o q \/ stack' = <<>> \o q
    BY Zenon, <1>7, <2>2, <2>3, <2>4, <2>6 DEF RevokeNext
  <2>9. Rests(q) \subseteq Rests(stack')
    <3>1. <<>> \o q = q /\ x \in S
      BY <2>5
    <3>. QED  BY <2>8, <3>1, RestsPushed
  <2>. QED  BY SMTT(40), <1>3, <2>1, <2>7, <2>9, QuietTurned DEF Same
<1>8. CASE RevokeDone
  <2>1. \A q \in RecIds : Live(q)' => Live(q) /\ recs'[q] = recs[q]
    BY <1>8 DEF RevokeDone, Live
  <2>2. stack' = Below
    BY <1>8 DEF RevokeDone
  <2>. QED  BY <1>3, <2>1, <2>2, QuietTurned DEF Same
<1>. QED  BY SMTT(40), <1>5, <1>6, <1>7, <1>8

(* ... and the steps that only touch services, or end a call.              *)
LEMMA OtherTurned ==
  ASSUME LayerInv, (\E s \in Services : ApplyProvide(s)) \/ Erase \/ FireDone \/ CallbackReturns
  PROVE  Turned
<1>1. TypeOK /\ recs \in [RecIds -> LoadRecord \cup {NoRec}] /\ stack \in Seq(Frame)
  BY DEF LayerInv, TreeInv, TypeOK
<1>2. CASE \E s \in Services : ApplyProvide(s)
  <2>1. PICK s \in Services : ProvideService(s, Top.scope, stack)
    BY <1>2 DEF ApplyProvide
  <2>2. \A q \in RecIds : Live(q)' => Live(q) /\ recs'[q] = recs[q]
    BY <2>1 DEF ProvideService, Live
  <2>3. PICK x : x = FireWatchers(TRUE, Snapshot(s))
    OBVIOUS
  <2>4. stack' = <<x>> \o stack \/ stack' = <<>> \o stack
    BY <2>1, <2>3 DEF ProvideService
  <2>5. Rests(stack) \subseteq Rests(stack')
    <3>1. <<>> \o stack = stack
      BY <1>1
    <3>2. stack \in Seq(Frame \cup {x}) /\ x \in Frame \cup {x}
      BY <1>1, LargerSeq
    <3>. QED  BY <2>4, <3>1, <3>2, RestsPushed
  <2>6. stack # <<>> => Rests(Below) \subseteq Rests(stack)
    BY <1>1, BelowRests DEF LayerInv, TreeInv
  <2>. QED  BY <2>2, <2>5, <2>6, QuietTurned DEF Same, Carried
<1>3. CASE Erase
  <2>1. Running("erase") /\ Live(Top.rec) /\ Exists(Top.scope)
        /\ Top.ix \in DOMAIN scopes[Top.scope].records
        /\ recs' = [recs EXCEPT ![Top.rec] = NoRec]
        /\ stack' = Invalidate(Below, Top.scope, Top.ix)
    BY <1>3 DEF Erase
  <2>2. \A q \in RecIds : Live(q)' => Live(q) /\ recs'[q] = recs[q]
    BY <1>1, <2>1 DEF Live
  <2>3. Top.ix \in Nat /\ Top.op = "erase" /\ Below \in Seq(Frame)
        /\ \A f \in Rests(stack) : f = Top \/ f \in Rests(Below)
    <3>1. Top.op = "erase" /\ Below \in Seq(Frame) /\ Top \in Frame
          /\ \A f \in Rests(stack) : f = Top \/ f \in Rests(Below)
      BY <1>1, <2>1, RestsRunning
    <3>. QED  BY <3>1 DEF Frame
  <2>4. PICK sc, n, b : sc = Top.scope /\ n = Top.ix /\ b = Below
    OBVIOUS
  <2>5. Rests(b) \subseteq Rests(Invalidate(b, sc, n))
    BY <2>3, <2>4, RestsMarked
  <2>6. Carried(Rests(stack), Rests(stack'))
    BY <2>1, <2>3, <2>4, <2>5 DEF Carried
  <2>. QED  BY <2>2, <2>6, QuietTurned DEF Same
<1>4. CASE FireDone \/ CallbackReturns
  <2>1. (Running("fire") \/ Running("callback")) /\ stack' = Below /\ UNCHANGED recs
    BY <1>4 DEF FireDone, CallbackReturns
  <2>2. \A q \in RecIds : Live(q)' => Live(q) /\ recs'[q] = recs[q]
    BY <2>1 DEF Live
  <2>3. Carried(Rests(stack), Rests(stack'))
    BY <1>1, <2>1, RestsRunning DEF Carried
  <2>. QED  BY <2>2, <2>3, QuietTurned DEF Same
<1>. QED  BY <1>2, <1>3, <1>4

(* Every step turns the records.                                           *)
LEMMA StepTurned ==
  ASSUME LayerInv, Layered, TypeOK', [Next]_vars
  PROVE  Turned
<1>1. CASE UNCHANGED vars
  <2>1. \A r \in RecIds : Live(r)' => Live(r) /\ recs'[r] = recs[r]
    BY <1>1 DEF vars, Live
  <2>2. stack' = stack
    BY <1>1 DEF vars
  <2>3. stack # <<>> => Rests(Below) \subseteq Rests(stack)
    BY BelowRests DEF LayerInv, TreeInv
  <2>. QED  BY <2>1, <2>2, <2>3, QuietTurned DEF Same, Carried
<1>2. CASE HostCalls
  BY <1>2, HostTurned
<1>3. CASE ThreadSteps
  <2>1. CASE ArmNext \/ ArmStarts
    BY <2>1, ArmTurned
  <2>2. CASE ArmToken \/ ApplyReturns \/ StopRelease
    BY <2>2, NoteTurned
  <2>3. CASE (\E s \in Services : ApplyProvide(s)) \/ Erase \/ FireDone \/ CallbackReturns
    BY <2>3, OtherTurned
  <2>4. CASE \E p \in Plugins : ApplyLoad(p) \/ ApplyEvict(p) \/ CallbackLoads(p) \/ CallbackUnloads(p)
    BY <2>4, ApplyTurned, CallbackTurned
  <2>5. CASE ApplyThrows
    BY <2>5, ApplyThrowsTurned
  <2>6. CASE DtorStop
    BY <2>6, DtorStopTurned
  <2>7. CASE DtorRelease \/ DtorClear \/ RevokeNext \/ RevokeDone
    BY <2>7, TeardownTurned
  <2>8. CASE FireNext
    BY <2>8, FireTurned
  <2>. QED  BY <1>3, <2>1, <2>2, <2>3, <2>4, <2>5, <2>6, <2>7, <2>8 DEF ThreadSteps
<1>. QED  BY <1>1, <1>2, <1>3 DEF Next, Terminated

(* The instance that a record has while no call starts or stops it: none   *)
(* unless it is Active, and then what its form asks for.                   *)
InstanceRight(r) ==
  /\ recs[r].inst \in {0, 1}
  /\ recs[r].state # "Active" /\ ~Waiting("stop", r) => recs[r].inst = 0 /\ recs[r].uses = {}
  /\ recs[r].state = "Active" /\ ~Waiting("apply", r) => recs[r].inst = FullInstance(recs[r].plugin)

(* Every record has it: the inductive invariant for instances.             *)
Instances == \A r \in RecIds : Live(r) => InstanceRight(r)

(* Turning the records keeps their instances right.                        *)
LEMMA InstancesStep ==
  ASSUME Instances, Turned
  PROVE  Instances'
<1>1. SUFFICES ASSUME NEW r \in RecIds, Live(r)' PROVE InstanceRight(r)'
  BY DEF Instances
<1>2. CASE ~Live(r)
  BY <1>1, <1>2 DEF Turned, Fresh, InstanceRight
<1>3. CASE Live(r)
  <2>1. Turn(r) /\ InstanceRight(r)
    BY <1>1, <1>3 DEF Turned, Instances
  <2>2. recs'[r].plugin = recs[r].plugin
    BY <2>1 DEF Turn
  <2>3. CASE Same(r) /\ Keeps(r)
    <3>1. /\ Waiting("stop", r) => Waiting("stop", r)'
          /\ Waiting("apply", r) => Waiting("apply", r)'
      BY <2>3 DEF Keeps
    <3>. QED  BY <2>1, <2>2, <2>3, <3>1 DEF Same, InstanceRight
  <2>4. CASE Starts(r)
    BY <2>2, <2>4 DEF Starts, InstanceRight, FormInstance
  <2>5. CASE Stops(r)
    <3>1. recs'[r].state # "Active"
      BY <2>5 DEF Stops
    <3>. QED  BY <2>1, <2>5, <3>1 DEF Stops, InstanceRight
  <2>6. CASE Returns(r)
    BY <2>2, <2>6 DEF Returns, InstanceRight, FullInstance
  <2>7. CASE Releases(r)
    BY <2>7 DEF Releases, InstanceRight
  <2>. QED  BY <2>1, <2>3, <2>4, <2>5, <2>6, <2>7 DEF Turn
<1>. QED  BY <1>2, <1>3

(* That is the property the runs check.                                    *)
LEMMA InstancesSame == Instances => InstancesMatch
<1>1. SUFFICES ASSUME Instances, NEW r \in Records
               PROVE  /\ recs[r].inst <= 1
                      /\ recs[r].state # "Active" /\ ~OnStack("stop", r) => recs[r].inst = 0 /\ recs[r].uses = {}
                      /\ recs[r].state = "Active" /\ ~OnStack("apply", r) =>
                           recs[r].inst = IF Form[recs[r].plugin] = "function" THEN 0 ELSE 1
  BY DEF InstancesMatch
<1>2. InstanceRight(r)
  BY <1>1 DEF Instances, Records
<1>3. (OnStack("stop", r) <=> Waiting("stop", r)) /\ (OnStack("apply", r) <=> Waiting("apply", r))
  BY WaitingSame
<1>4. recs[r].inst <= 1
  BY <1>2 DEF InstanceRight
<1>. QED  BY <1>2, <1>3, <1>4 DEF InstanceRight, FullInstance

(* A turn of a record is a legal step of its life cycle.                   *)
LEMMA LegalTurn ==
  ASSUME Turned
  PROVE  \A r \in Records : recs'[r] # NoRec => LegalStep(r)
<1>1. SUFFICES ASSUME NEW r \in Records, recs'[r] # NoRec PROVE LegalStep(r)
  OBVIOUS
<1>2. Turn(r)
  BY <1>1 DEF Turned, Records, Live
<1>3. Same(r) \/ Starts(r) \/ Stops(r) \/ Returns(r) \/ Releases(r)
  BY <1>2 DEF Turn
<1>4. CASE Same(r)
  BY <1>4 DEF Same, LegalStep
<1>5. CASE Starts(r)
  BY <1>5 DEF Starts, LegalStep
<1>6. CASE Stops(r)
  BY <1>6 DEF Stops, LegalStep
<1>7. CASE Returns(r) \/ Releases(r)
  BY <1>7 DEF Returns, Releases, LegalStep
<1>. QED  BY <1>3, <1>4, <1>5, <1>6, <1>7

(* InstancesMatch for every layered product: ensureStarted() and           *)
(* stopRecord() of Context.cpp pair creation and release of the plugin's   *)
(* instance and of the services injected into it, however they are nested. *)
THEOREM InstancesKept == Layered => (Spec => []InstancesMatch)
<1>1. Init => Instances
  BY DEF Init, Instances, Live
<1>2. Layered /\ LayerInv /\ LayerInv' /\ Instances /\ [Next]_vars => Instances'
  <2>1. TreeInv' => TypeOK'
    BY DEF TreeInv
  <2>2. LayerInv' => TreeInv'
    BY DEF LayerInv
  <2>. QED  BY <2>1, <2>2, StepTurned, InstancesStep
<1>3. CASE Layered
  BY <1>1, <1>2, <1>3, LayersHold, InstancesSame, PTL DEF Spec
<1>. QED  BY <1>3

(* LifeCycle for every layered product: a record of Context.cpp only       *)
(* starts when all it requires is there, only stops through stopRecord(),  *)
(* and never leaves Disposed.                                              *)
THEOREM RecordsStepLegally == Layered => (Spec => LifeCycle)
<1>1. Layered /\ LayerInv /\ LayerInv' /\ [Next]_vars
        => [\A r \in Records : recs'[r] # NoRec => LegalStep(r)]_vars
  <2>1. LayerInv' => TypeOK'
    BY DEF LayerInv, TreeInv
  <2>. QED  BY <2>1, StepTurned, LegalTurn
<1>2. CASE Layered
  BY <1>1, <1>2, LayersHold, PTL DEF Spec, LifeCycle
<1>. QED  BY <1>2
=============================================================================
