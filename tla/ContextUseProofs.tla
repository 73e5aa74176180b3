-------------------------- MODULE ContextUseProofs --------------------------
(***************************************************************************)
(* What the plugins of a layered product can rely on: dependents are told, *)
(* and libraries outlive their use.                                        *)
(*                                                                         *)
(* Tracked follows a notification from the registry's entry to the record: *)
(* if a record's state contradicts the registry, a loop on the stack has   *)
(* still to call one of its sentinels, or addRecord() has still to arm it  *)
(* (DependenciesTracked).                                                  *)
(*                                                                         *)
(* Users follows a service from the record that uses it to the library of  *)
(* its provider: while the user runs, the provider supplies it, is being   *)
(* torn down above its own stopRecord(), or the user is about to be told   *)
(* (ResidentWhileUsed).                                                    *)
(***************************************************************************)
EXTENDS ContextLayerProofs

(* The liveness token of a Context, once dropped, is never back.           *)
Ages == \A sc \in ScopeIds : Exists(sc) /\ Exists(sc)' /\ scopes'[sc].alive => scopes[sc].alive

(* Not when a record stops ...                                             *)
LEMMA StopAges ==
  ASSUME TypeOK, ListsRight, NEW r, Live(r), NEW target \in {"Deferred", "Failed", "Disposed"},
         NEW rest \in Seq(Frame), StopRecord(r, target, rest)
  PROVE  Ages
<1>1. CASE Return(rest)
  BY <1>1 DEF Return, Ages
<1>2. CASE StopShape(r, target, rest)
  BY <1>2, RegistryAssumption DEF StopShape, Ages
<1>. QED  BY <1>1, <1>2, StopShapes

(* ... starts ...                                                          *)
LEMMA StartAges ==
  ASSUME TypeOK, TypeOK', NEW r, Live(r), NEW rest, EnsureStarted(r, rest)
  PROVE  Ages
<1>1. CASE Return(rest)
  BY <1>1 DEF Return, Ages
<1>2. CASE \E sc \in ScopeIds : StartEffect(r, sc, rest)
  <2>1. PICK sc \in ScopeIds : StartEffect(r, sc, rest)
    BY <1>2
  <2>. QED  BY <2>1 DEF StartEffect, Ages, UsedScopes
<1>. QED  BY <1>1, <1>2, StartEffects

(* ... hears of a service ...                                              *)
LEMMA WatcherAges ==
  ASSUME TypeOK, TypeOK', ListsRight, NEW w, NEW v, NEW rest \in Seq(Frame), CallWatcher(w, v, rest)
  PROVE  Ages
<1>1. CASE \E q : Return(q)
  BY <1>1 DEF Return, Ages
<1>2. CASE Live(w.rec) /\ EnsureStarted(w.rec, rest)
  BY <1>2, StartAges
<1>3. CASE Live(w.rec) /\ StopRecord(w.rec, "Deferred", rest)
  BY <1>3, StopAges
<1>. QED  BY <1>1, <1>2, <1>3 DEF CallWatcher

(* ... is unloaded ...                                                     *)
LEMMA UnloadAges ==
  ASSUME TypeOK, ListsRight, NEW sc, Exists(sc), NEW p, NEW rest \in Seq(Frame), Unload(sc, p, rest)
  PROVE  Ages
<1>1. PICK i \in DOMAIN scopes[sc].records :
        /\ Live(scopes[sc].records[i])
        /\ StopRecord(scopes[sc].records[i], "Disposed",
                      <<EraseCall(scopes[sc].records[i], sc, i)>> \o rest)
  BY DEF Unload, Named, EraseCall
<1>2. PICK r : r = scopes[sc].records[i]
  OBVIOUS
<1>3. PICK x : x = EraseCall(r, sc, i)
  OBVIOUS
<1>4. x \in Frame
  <2>1. r \in RecIds /\ sc \in ScopeIds
    BY <1>1, <1>2 DEF Live, Exists
  <2>2. i \in Nat
    <3>1. scopes[sc].records \in Seq(RecIds)
      BY ExistingScope DEF Scope
    <3>. QED  BY <3>1, LenProperties
  <2>3. Call("erase", r, sc) \in Frame
    BY <2>1, CallType DEF Ops
  <2>. QED  BY <1>3, <2>2, <2>3 DEF EraseCall, Call, Frame
<1>5. PICK q \in Seq(Frame) : q = <<x>> \o rest
  BY <1>4, PushType
<1>. QED  BY <1>1, <1>2, <1>3, <1>5, StopAges

(* ... or is added ...                                                     *)
LEMMA AddAges ==
  ASSUME TypeOK, TypeOK', NEW sc, Exists(sc), NEW p \in Plugins, NEW rest, AddRecord(sc, p, rest)
  PROVE  Ages
<1>1. PICK r \in RecIds : AddShape(r, sc, p, rest)
  BY AddShapes
<1>. QED  BY <1>1 DEF AddShape, Ages

(* ... nor in any other step.                                              *)
LEMMA StepAges ==
  ASSUME LayerInv, TypeOK', [Next]_vars, Layered
  PROVE  Ages
<1>0. TypeOK /\ ListsRight /\ scopes \in [ScopeIds -> Scope \cup {Gone}]
      /\ \A sc : Exists(sc) => sc \in ScopeIds /\ scopes[sc] \in Scope
  BY ExistingScope DEF LayerInv, TreeInv, TypeOK, Exists
<1>1. CASE UNCHANGED scopes
  BY <1>1 DEF Ages
<1>2. CASE HostCalls
  <2>1. stack = <<>> /\ Exists(Root) /\ <<>> \in Seq(Frame)
    BY <1>2, NobodyWaits DEF HostCalls, HostLoad, HostUnload, HostProvide, HostDestroy, Idle
  <2>2. CASE \E p \in Plugins : HostLoad(p)
    BY <1>0, <2>1, <2>2, AddAges DEF HostLoad
  <2>3. CASE \E p \in HostUnloads : HostUnload(p)
    BY <1>0, <2>1, <2>3, UnloadAges DEF HostUnload
  <2>4. CASE \E s \in Services : HostProvide(s)
    <3>1. PICK s \in Services : ProvideService(s, Root, <<>>)
      BY <2>4 DEF HostProvide
    <3>2. ProvideShape(s, Root)
      BY <1>0, <2>1, <3>1, ProvideShapes
    <3>. QED  BY <3>2 DEF ProvideShape, Ages
  <2>5. CASE HostDestroy
    <3>1. scopes' = [scopes EXCEPT ![Root] = [scopes[Root] EXCEPT !.alive = FALSE]]
      BY <2>5 DEF HostDestroy
    <3>2. PICK new : new = [scopes[Root] EXCEPT !.alive = FALSE]
      OBVIOUS
    <3>3. ~new.alive
      BY <1>0, <2>1, <3>2 DEF Scope
    <3>. QED  BY <1>0, <3>1, <3>2, <3>3 DEF Ages
  <2>. QED  BY <1>2, <2>2, <2>3, <2>4, <2>5 DEF HostCalls
<1>3. CASE ArmNext
  <2>1. PICK w \in Watcher, g \in Frame : CallWatcher(w, Available(w.svc), Resume(g)) /\ Running("arm")
    BY <1>3, ArmNextParts
  <2>2. PICK q : q = Resume(g)
    OBVIOUS
  <2>3. q \in Seq(Frame)
    BY <1>0, <2>1, <2>2, RestsRunning
  <2>. QED  BY <1>0, <2>1, <2>2, <2>3, WatcherAges
<1>4. CASE FireNext
  <2>1. PICK w \in Watcher, g \in Frame : CallWatcher(w, Top.val, Resume(g)) /\ Running("fire")
    BY <1>4, FireNextParts
  <2>2. PICK q : q = Resume(g)
    OBVIOUS
  <2>3. q \in Seq(Frame)
    BY <1>0, <2>1, <2>2, RestsRunning
  <2>. QED  BY <1>0, <2>1, <2>2, <2>3, WatcherAges
<1>5. CASE ArmStarts
  BY <1>0, <1>5, StartAges DEF ArmStarts
<1>6. CASE \E s \in Services : ApplyProvide(s)
  <2>1. PICK s \in Services : ProvideService(s, Top.scope, stack) /\ Exists(Top.scope)
    BY <1>6 DEF ApplyProvide, Applying
  <2>2. PICK sc : sc = Top.scope
    OBVIOUS
  <2>3. stack \in Seq(Frame)
    BY <1>0 DEF TypeOK
  <2>4. ProvideShape(s, sc)
    BY <1>0, <2>1, <2>2, <2>3, ProvideShapes
  <2>. QED  BY <2>4 DEF ProvideShape, Ages
<1>7. CASE \E p \in Plugins : ApplyLoad(p)
  <2>1. PICK p, sc : p \in Plugins /\ sc = Top.scope /\ AddRecord(sc, p, stack) /\ Exists(sc)
    BY <1>7 DEF ApplyLoad, Applying
  <2>. QED  BY <1>0, <2>1, AddAges
<1>8. CASE \E p \in Plugins : ApplyEvict(p)
  <2>1. PICK p, sc : p \in Plugins /\ sc = recs[Top.rec].host /\ Unload(sc, p, stack) /\ Exists(sc)
    BY <1>8 DEF ApplyEvict
  <2>2. stack \in Seq(Frame)
    BY <1>0 DEF TypeOK
  <2>. QED  BY <1>0, <2>1, <2>2, UnloadAges
<1>9. CASE \E p \in Plugins : CallbackLoads(p)
  <2>1. PICK p, b : p \in Plugins /\ b = Below /\ AddRecord(Root, p, b) /\ Exists(Root)
    BY <1>9 DEF CallbackLoads
  <2>. QED  BY <1>0, <2>1, AddAges
<1>10. CASE \E p \in Plugins : CallbackUnloads(p)
  <2>1. PICK p, b : p \in Plugins /\ b = Below /\ Unload(Root, p, b) /\ Exists(Root) /\ Running("callback")
    BY <1>10 DEF CallbackUnloads
  <2>2. b \in Seq(Frame)
    BY <1>0, <2>1, RestsRunning
  <2>. QED  BY <1>0, <2>1, <2>2, UnloadAges
<1>11. CASE ApplyThrows
  <2>1. PICK r, b : r = Top.rec /\ b = Below /\ StopRecord(r, "Failed", b) /\ Live(r) /\ Running("apply")
    BY <1>11 DEF ApplyThrows
  <2>2. b \in Seq(Frame)
    BY <1>0, <2>1, RestsRunning
  <2>. QED  BY <1>0, <2>1, <2>2, StopAges
<1>12. CASE DtorStop
  <2>1. Running("dtor") /\ Top \in Frame
    BY <1>0, <1>12, RestsRunning DEF DtorStop
  <2>2. PICK g : g = [Top EXCEPT !.val = TRUE]
    OBVIOUS
  <2>3. g \in Frame
    BY <2>1, <2>2 DEF Frame
  <2>4. PICK r, q : r = scopes[Top.scope].records[Top.ix] /\ q = Resume(g) /\ Live(r) /\ StopRecord(r, "Disposed", q)
    BY <1>12, <2>2 DEF DtorStop
  <2>5. q \in Seq(Frame)
    BY <1>0, <2>1, <2>3, <2>4, RestsRunning
  <2>. QED  BY <1>0, <2>4, <2>5, StopAges
<1>13. CASE DtorClear
  <2>1. PICK new : new = [scopes[Top.scope] EXCEPT !.records = <<>>, !.retired = {}]
    OBVIOUS
  <2>2. new.alive = scopes[Top.scope].alive
    BY <1>0, <1>13, <2>1 DEF DtorClear, Scope
  <2>3. scopes' = [scopes EXCEPT ![Top.scope] = new]
    BY <1>13, <2>1 DEF DtorClear
  <2>. QED  BY <1>0, <2>2, <2>3 DEF Ages
<1>14. CASE RevokeDone
  <2>1. scopes' = [scopes EXCEPT ![Top.scope] = Gone]
    BY <1>14 DEF RevokeDone
  <2>. QED  BY <1>0, <2>1 DEF Ages, Exists
<1>15. CASE Erase
  <2>1. PICK new : new = [scopes[Top.scope] EXCEPT
           !.retired = @ \cup Retired(Top.rec), !.records = RemoveAt(@, Top.ix)]
    OBVIOUS
  <2>2. new.alive = scopes[Top.scope].alive
    BY <1>0, <1>15, <2>1 DEF Erase, Scope
  <2>3. scopes' = [scopes EXCEPT ![Top.scope] = new]
    BY Zenon, <1>15, <2>1 DEF Erase
  <2>. QED  BY <1>0, <2>2, <2>3 DEF Ages
<1>16. CASE ArmToken \/ ApplyReturns \/ StopRelease \/ DtorRelease \/ RevokeNext \/ FireDone
            \/ CallbackReturns \/ Terminated \/ UNCHANGED vars
  BY Zenon, <1>1, <1>16 DEF ArmToken, ApplyReturns, StopRelease, DtorRelease, RevokeNext, FireDone,
                     CallbackReturns, Terminated, vars
<1>. QED  BY <1>2, <1>3, <1>4, <1>5, <1>6, <1>7, <1>8, <1>9, <1>10, <1>11, <1>12, <1>13, <1>14, <1>15, <1>16
             DEF Next, ThreadSteps

(* The loop f has still to tell record r that a service has come or gone.  *)
Tells(f, r, v) == f.op = "fire" /\ f.val = v /\ \E w \in f.todo : w.rec = r

(* Some loop on the stack has.                                             *)
Told(r, v) == \E f \in Rests(stack) : Tells(f, r, v)

(* That is the pending notification of the property.                       *)
LEMMA ToldSame ==
  ASSUME NEW r, NEW v
  PROVE  PendingFire(r, v) <=> Told(r, v)
BY PendingSame DEF Told, Tells

(* A record that misses a service and still runs is about to be told; one  *)
(* that has all and does not run is about to be told, or is still being    *)
(* armed.                                                                  *)
TrackedRight(r) ==
  HostIsAlive(r) =>
    /\ recs[r].state = "Active" /\ ~HasAll(r) => Told(r, FALSE)
    /\ recs[r].state = "Deferred" /\ HasAll(r) => Told(r, TRUE) \/ Waiting("arm", r)

(* DependenciesTracked in terms of the calls that wait: the inductive      *)
(* invariant.                                                              *)
Tracked == \A r \in RecIds : Live(r) => TrackedRight(r)

(* In a step, a notification that is due to r stays due unless r acts on   *)
(* it.                                                                     *)
Heeds(r) ==
  /\ Told(r, FALSE) => Told(r, FALSE)' \/ recs[r].state # "Active" \/ recs'[r].state # "Active"
  /\ Told(r, TRUE) \/ Waiting("arm", r) =>
       \/ Told(r, TRUE)' \/ Waiting("arm", r)'
       \/ recs[r].state # "Deferred" \/ ~HasAll(r) \/ recs'[r].state # "Deferred"

(* A host scope that is alive after the step was so before it.             *)
StaysAlive(r) == HostIsAlive(r)' => HostIsAlive(r)

(* That holds of every step.                                               *)
LEMMA StillAlive ==
  ASSUME LayerInv, LayerInv', Ages, Turned, NEW r \in RecIds, Live(r), Live(r)'
  PROVE  StaysAlive(r)
<1>1. Placed(r) /\ Placed(r)' /\ recs'[r].host = recs[r].host
  BY DEF LayerInv, Layers, Turned, Turn
<1>2. PICK sc : sc = recs[r].host
  OBVIOUS
<1>3. sc \in ScopeIds /\ Exists(sc) /\ Exists(sc)'
  BY <1>1, <1>2 DEF Placed, Exists
<1>. QED  BY <1>1, <1>2, <1>3 DEF Ages, StaysAlive, HostIsAlive

(* A record whose notifications are heeded stays tracked ...               *)
LEMMA TrackedKept ==
  ASSUME Tracked, Turned, UNCHANGED services,
         NEW r \in RecIds, Live(r), Live(r)', HostIsAlive(r)' => HostIsAlive(r),
         HostIsAlive(r)' => Heeds(r)
  PROVE  TrackedRight(r)'
<1>1. SUFFICES ASSUME HostIsAlive(r)'
               PROVE  /\ recs'[r].state = "Active" /\ ~HasAll(r)' => Told(r, FALSE)'
                      /\ recs'[r].state = "Deferred" /\ HasAll(r)' => Told(r, TRUE)' \/ Waiting("arm", r)'
  BY DEF TrackedRight
<1>2. TrackedRight(r) /\ HostIsAlive(r) /\ Turn(r) /\ Heeds(r)
  BY <1>1 DEF Tracked, Turned
<1>3. HasAll(r)' <=> HasAll(r)
  BY <1>2 DEF HasAll, Required, Turn
<1>4. recs'[r].state = recs[r].state \/ Starts(r) \/ Stops(r)
  BY <1>2 DEF Turn, Same, Returns, Releases
<1>5. CASE recs'[r].state = recs[r].state
  BY <1>2, <1>3, <1>5 DEF TrackedRight, Heeds
<1>6. CASE Starts(r)
  BY <1>3, <1>6 DEF Starts
<1>7. CASE Stops(r)
  BY <1>3, <1>7 DEF Stops
<1>. QED  BY <1>4, <1>5, <1>6, <1>7

(* ... and so do all, if no service comes or goes.                         *)
LEMMA TrackedQuiet ==
  ASSUME Tracked, Turned, UNCHANGED services, LayerInv, LayerInv', Ages,
         \A r \in RecIds : Live(r) /\ Live(r)' /\ StaysAlive(r) /\ HostIsAlive(r)' => Heeds(r)
  PROVE  Tracked'
<1>1. SUFFICES ASSUME NEW r \in RecIds, Live(r)' PROVE TrackedRight(r)'
  BY DEF Tracked
<1>2. CASE ~Live(r)
  <2>1. recs'[r].state = "Deferred" /\ Waiting("arm", r)'
    BY <1>1, <1>2 DEF Turned, Fresh
  <2>. QED  BY <2>1 DEF TrackedRight
<1>3. CASE Live(r)
  <2>1. StaysAlive(r)
    BY <1>1, <1>3, StillAlive
  <2>2. HostIsAlive(r)' => Heeds(r)
    BY <1>1, <1>3, <2>1
  <2>. QED  BY <1>1, <1>3, <2>1, <2>2, TrackedKept DEF StaysAlive
<1>. QED  BY <1>2, <1>3

(* What the calls below the running one are to tell, they still are.       *)
LEMMA BelowHeeds ==
  ASSUME TypeOK, BelowWaits, NEW op, Running(op), NEW r
  PROVE  /\ \A v \in BOOLEAN : Told(r, v) => Told(r, v)' \/ (op = "fire" /\ Tells(Top, r, v))
         /\ Waiting("arm", r) => Waiting("arm", r)' \/ (op = "arm" /\ Top.rec = r)
<1>1. /\ \A f \in Rests(stack) : f = Top \/ f \in Rests(stack')
      /\ Top.op = op
  BY RestsRunning DEF BelowWaits, Running
<1>. QED  BY <1>1 DEF Told, Waiting, Tells

(* A step of a call that tells nobody drops no notification.               *)
LEMMA OthersHeed ==
  ASSUME LayerInv, Turned, Running(Top.op),
         Top.op \notin {"fire", "arm"} \/ (Top.op = "fire" /\ Top.todo = {})
  PROVE  \A r : Heeds(r)
<1>1. TypeOK /\ BelowWaits
  BY DEF LayerInv, TreeInv, Turned
<1>2. PICK op : op = Top.op
  OBVIOUS
<1>3. SUFFICES ASSUME NEW r PROVE Heeds(r)
  OBVIOUS
<1>4. /\ \A v \in BOOLEAN : Told(r, v) => Told(r, v)' \/ (op = "fire" /\ Tells(Top, r, v))
      /\ Waiting("arm", r) => Waiting("arm", r)' \/ (op = "arm" /\ Top.rec = r)
  BY <1>1, <1>2, BelowHeeds
<1>. QED  BY <1>2, <1>4 DEF Heeds, Tells

(* Arming ends when the record was last seen to, so nothing is dropped.    *)
LEMMA ArmHeeds ==
  ASSUME LayerInv, Layered, TypeOK', Turned, ArmNext \/ ArmToken \/ ArmStarts
  PROVE  \A r : Heeds(r)
<1>1. TypeOK /\ BelowWaits /\ Running("arm") /\ ListsRight
  BY DEF LayerInv, TreeInv, Turned, ArmNext, ArmToken, ArmStarts
<1>2. SUFFICES ASSUME NEW r PROVE Heeds(r)
  OBVIOUS
<1>3. /\ \A v \in BOOLEAN : Told(r, v) => Told(r, v)'
      /\ Waiting("arm", r) => Waiting("arm", r)' \/ Top.rec = r
  BY <1>1, BelowHeeds
<1>4. CASE ArmNext
  <2>1. PICK w \in Watcher, g \in Frame :
          /\ UNCHANGED services /\ HeardRight(w)
          /\ CallWatcher(w, Available(w.svc), Resume(g))
          /\ g.op = "arm" /\ g.rec = Top.rec
    BY <1>4, ArmNextParts
  <2>2. PICK q, v : q = Resume(g) /\ v = Available(w.svc)
    OBVIOUS
  <2>3. q \in Seq(Frame) /\ g \in Rests(q) /\ v \in BOOLEAN /\ (~v => services[w.svc] = NoScope)
    BY <1>1, <2>1, <2>2, RestsRunning DEF Available
  <2>4. CallTurns(q)
    BY <1>1, <2>1, <2>2, <2>3, WatcherTurns
  <2>5. Top.rec = r => Waiting("arm", r)'
    BY <2>1, <2>3, <2>4 DEF CallTurns, Waiting
  <2>. QED  BY <1>3, <2>5 DEF Heeds
<1>5. CASE ArmToken
  <2>1. PICK g : g = [Top EXCEPT !.todo = {}, !.ix = Top.ix + 1]
    OBVIOUS
  <2>2. Top \in Frame /\ Top.op = "arm"
    BY <1>1, RestsRunning
  <2>3. g \in Frame /\ g.op = "arm" /\ g.rec = Top.rec
    <3>1. Top.ix + 1 \in Nat /\ {} \in SUBSET Watcher
      BY <2>2 DEF Frame
    <3>. QED  BY <2>1, <2>2, <3>1 DEF Frame
  <2>4. stack' = Resume(g)
    BY <1>5, <2>1 DEF ArmToken
  <2>5. Top.rec = r => Waiting("arm", r)'
    <3>1. g \in Rests(stack')
      BY <1>1, <2>3, <2>4, RestsRunning
    <3>. QED  BY <2>3, <3>1 DEF Waiting
  <2>. QED  BY <1>3, <2>5 DEF Heeds
<1>6. CASE ArmStarts
  <2>1. PICK x, b : x = Top.rec /\ b = Below
    OBVIOUS
  <2>2. Live(x) /\ EnsureStarted(x, b) /\ UNCHANGED services
    BY <1>6, <2>1 DEF ArmStarts
  <2>3. b \in Seq(Frame)
    BY <1>1, <2>1, RestsRunning
  <2>4. recs[x].state = "Deferred" /\ HasAll(x) => recs'[x].state = "Active"
    BY <1>1, <2>2, <2>3, StartTurns
  <2>. QED  BY <1>3, <2>1, <2>4 DEF Heeds
<1>. QED  BY SMTT(40), <1>4, <1>5, <1>6

(* fireWatchers() drops a notification by giving it to its record.         *)
LEMMA FireHeeds ==
  ASSUME LayerInv, Layered, TypeOK', Turned, FireNext, NEW r \in RecIds, Live(r), Live(r)',
         StaysAlive(r), HostIsAlive(r)'
  PROVE  Heeds(r)
<1>1. TypeOK /\ BelowWaits /\ Running("fire") /\ ListsRight /\ Top.op = "fire"
  BY DEF LayerInv, TreeInv, Turned, FireNext, Running
<1>2. /\ \A v \in BOOLEAN : Told(r, v) => Told(r, v)' \/ Tells(Top, r, v)
      /\ Waiting("arm", r) => Waiting("arm", r)'
  BY <1>1, BelowHeeds
<1>3. PICK w \in Watcher, g \in Frame :
          /\ w \in Top.todo /\ CallWatcher(w, Top.val, Resume(g)) /\ HeardRight(w) /\ UNCHANGED services
          /\ g.op = "fire" /\ g.val = Top.val /\ g.todo = Top.todo \ {w}
  BY FireNextParts
<1>4. Top \in Good /\ Top \in Frame /\ Top \in RightFrames
  BY <1>1, RunningLayers
<1>5. PICK q, v : q = Resume(g) /\ v = Top.val
  OBVIOUS
<1>6. q \in Seq(Frame) /\ g \in Rests(q)
  BY <1>1, <1>3, <1>5, RestsRunning
<1>7. v \in BOOLEAN /\ (~v => services[w.svc] = NoScope)
  BY <1>3, <1>4, <1>5, <1>1 DEF Frame, Good
<1>8. CallTurns(q)
  BY <1>1, <1>3, <1>5, <1>6, <1>7, WatcherTurns
<1>9. HostAlive(w) /\ w.rec # NoRec =>
        /\ v /\ recs[w.rec].state = "Deferred" /\ HasAll(w.rec) => recs'[w.rec].state = "Active"
        /\ ~v /\ recs[w.rec].state = "Active" => recs'[w.rec].state = "Deferred"
  BY <1>1, <1>3, <1>5, <1>6, <1>7, WatcherTurns
<1>10. g \in Rests(stack')
  BY <1>6, <1>8 DEF CallTurns
<1>11. CASE w.rec # r
  <2>1. \A x \in BOOLEAN : Tells(Top, r, x) => Tells(g, r, x)
    BY <1>3, <1>11 DEF Tells
  <2>2. \A x \in BOOLEAN : Tells(Top, r, x) => Told(r, x)'
    BY <1>10, <2>1 DEF Told, Tells
  <2>. QED  BY <1>2, <2>2 DEF Heeds
<1>12. CASE w.rec = r
  <2>1. recs[r].host = w.host
    BY <1>3, <1>4, <1>12 DEF RightFrames, PointersRight, RightWatchers
  <2>2. HostAlive(w)
    <3>1. HostIsAlive(r) /\ Exists(recs[r].host)
      BY DEF StaysAlive, LayerInv, Layers, Placed
    <3>. QED  BY <2>1, <3>1 DEF HostAlive, HostIsAlive
  <2>3. w.rec # NoRec
    BY <1>12, ContextAssumption
  <2>4. /\ v /\ recs[r].state = "Deferred" /\ HasAll(r) => recs'[r].state = "Active"
        /\ ~v /\ recs[r].state = "Active" => recs'[r].state = "Deferred"
    BY <1>9, <1>12, <2>2, <2>3
  <2>5. Told(r, FALSE) => Told(r, FALSE)' \/ recs[r].state # "Active" \/ recs'[r].state # "Active"
    BY <1>2, <1>5, <2>4 DEF Tells
  <2>6. Told(r, TRUE) \/ Waiting("arm", r) =>
       \/ Told(r, TRUE)' \/ Waiting("arm", r)'
       \/ recs[r].state # "Deferred" \/ ~HasAll(r) \/ recs'[r].state # "Deferred"
    BY <1>2, <1>5, <2>4 DEF Tells
  <2>. QED  BY <2>5, <2>6 DEF Heeds
<1>. QED  BY <1>11, <1>12

(* No scope that is being torn down is alive.                              *)
LEMMA AllTornDown ==
  ASSUME LayerInv
  PROVE  NoneAlive(stack)
<1>1. CASE stack = <<>>
  BY <1>1 DEF NoneAlive, Tears
<1>2. CASE stack # <<>>
  <2>1. PICK op : op = Top.op
    OBVIOUS
  <2>2. Running(op)
    BY <1>2, <2>1 DEF Running
  <2>3. CASE op \in {"dtor", "revoke"}
    BY <2>2, <2>3, RunningLayers
  <2>4. CASE op \notin {"dtor", "revoke"}
    <3>1. Tears(stack) = Tears(Below) /\ Waits(Below)
      BY <2>2, <2>4, RunningLayers
    <3>. QED  BY <3>1 DEF Waits, NoneAlive
  <2>. QED  BY <2>3, <2>4
<1>. QED  BY <1>1, <1>2

(* An armed record has a sentinel on each service it requires.             *)
LEMMA SentinelThere ==
  ASSUME LayerInv, SentinelInv, NEW r \in RecIds, Live(r), HostIsAlive(r), ~Waiting("arm", r),
         NEW s \in Required(r)
  PROVE  \E w \in watchers : w.rec = r /\ w.svc = s
<1>1. TypeOK /\ ListsRight /\ RecordRight(r)
  BY DEF LayerInv, TreeInv, SentinelInv
<1>2. ~Doomed(r)
  <2>1. SUFFICES ASSUME Doomed(r) PROVE FALSE
    OBVIOUS
  <2>2. PICK d \in Dooms(stack) : Exists(d[1]) /\ r \in ToSet(scopes[d[1]].records)
    BY <2>1 DEF Doomed
  <2>3. PICK i \in DOMAIN stack : stack[i].op = "dtor" /\ d = <<stack[i].scope, stack[i].ix>>
    BY <2>2 DEF Dooms
  <2>4. PICK sc : sc = d[1]
    OBVIOUS
  <2>5. sc \in Tears(stack) /\ Exists(sc) /\ sc \in ScopeIds
    BY <2>2, <2>3, <2>4 DEF Tears, Exists
  <2>6. ~scopes[sc].alive
    BY <2>5, AllTornDown DEF NoneAlive
  <2>7. recs[r].host = sc
    BY <1>1, <2>2, <2>4, <2>5 DEF ListsRight, ListRight, ToSet
  <2>. QED  BY <2>6, <2>7 DEF HostIsAlive
<1>3. \A a \in Arms(stack) : a.rec # r
  BY DEF Arms, Waiting, Rests
<1>4. Armed(r, Len(Requires[recs[r].plugin]))
  BY <1>1, <1>2, <1>3 DEF RecordRight
<1>5. recs[r].plugin \in Plugins
  BY <1>1, RecordPlugin
<1>6. Requires[recs[r].plugin] \in Seq(Services)
  BY <1>5, ContextAssumption
<1>7. DOMAIN Requires[recs[r].plugin] = 1..Len(Requires[recs[r].plugin])
  BY <1>6
<1>8. s \in Passed(r, Len(Requires[recs[r].plugin]))
  BY <1>7 DEF Passed, Required, ToSet
<1>9. s \in {w.svc : w \in Kept(r)}
  BY <1>4, <1>8 DEF Armed
<1>. QED  BY <1>9 DEF Kept

(* Everyone who waits for s is told that it is there.                      *)
LEMMA ProvideTracked ==
  ASSUME LayerInv, LayerInv', SentinelInv, Tracked, Turned, Ages, NEW s \in Services, NEW sc, Exists(sc),
         NEW rest \in Seq(Frame), Rests(stack) = Rests(rest), ProvideService(s, sc, rest)
  PROVE  Tracked'
<1>1. TypeOK /\ \A w \in watchers : HeardRight(w)
  BY DEF LayerInv, TreeInv, Layers
<1>2. ProvideShape(s, sc)
  BY <1>1, ProvideShapes
<1>3. PICK x \in Frame : x = FireWatchers(TRUE, Snapshot(s)) /\ x.op = "fire" /\ x.val = TRUE /\ x.todo = Snapshot(s)
  BY <1>1, FireFrame
<1>4. sc # NoScope
  BY RegistryAssumption DEF Exists
<1>5. CASE services[s] # NoScope
  <2>1. stack' = rest /\ UNCHANGED services
    <3>1. stack' = rest
      BY <1>1, <1>5, ProvideShapes
    <3>2. UNCHANGED services
      BY <1>5 DEF ProvideService, ProvideEntry, Appears
    <3>. QED  BY <3>1, <3>2
  <2>2. \A r : Heeds(r)
    BY <2>1 DEF Heeds, Told, Tells, Waiting
  <2>. QED  BY <2>1, <2>2, TrackedQuiet
<1>6. CASE services[s] = NoScope
  <2>1. stack' = <<x>> \o rest
    BY <1>1, <1>3, <1>6, ProvideShapes
  <2>2. Rests(stack) \subseteq Rests(stack') /\ x \in Rests(stack')
    BY <1>3, <2>1, RestsPushed
  <2>3. SUFFICES ASSUME NEW r \in RecIds, Live(r)' PROVE TrackedRight(r)'
    BY DEF Tracked
  <2>4. Live(r) /\ recs' = recs
    BY <1>2, <2>3 DEF ProvideShape, Live
  <2>5. SUFFICES ASSUME HostIsAlive(r)'
                 PROVE  /\ recs[r].state = "Active" /\ ~HasAll(r)' => Told(r, FALSE)'
                        /\ recs[r].state = "Deferred" /\ HasAll(r)' => Told(r, TRUE)' \/ Waiting("arm", r)'
    BY <2>4 DEF TrackedRight
  <2>6. HostIsAlive(r)
    BY <2>3, <2>4, <2>5, StillAlive DEF StaysAlive
  <2>7. TrackedRight(r)
    BY <2>4 DEF Tracked
  <2>8. Required(r) \subseteq Services
    <3>1. recs[r].plugin \in Plugins
      BY <1>1, <2>4, RecordPlugin
    <3>. QED  BY <3>1, ContextAssumption DEF Required, ToSet
  <2>9. \A t \in Required(r) : services'[t] # NoScope <=> (services[t] # NoScope \/ t = s)
    BY <1>2, <1>4, <1>6, <2>8 DEF ProvideShape
  <2>10. HasAll(r)' <=> \A t \in Required(r) : services'[t] # NoScope
    BY <2>4 DEF HasAll, Required
  <2>11. /\ Told(r, FALSE) => Told(r, FALSE)'
         /\ Told(r, TRUE) => Told(r, TRUE)'
         /\ Waiting("arm", r) => Waiting("arm", r)'
    BY <2>2 DEF Told, Waiting
  <2>12. s \in Required(r) => Told(r, TRUE)' \/ Waiting("arm", r)'
    <3>1. SUFFICES ASSUME s \in Required(r), ~Waiting("arm", r) PROVE Told(r, TRUE)'
      BY <2>11
    <3>2. PICK w \in watchers : w.rec = r /\ w.svc = s
      BY <2>4, <2>6, <3>1, SentinelThere
    <3>3. Tells(x, r, TRUE)
      BY <1>3, <3>2 DEF Tells, Snapshot
    <3>. QED  BY <2>2, <3>3 DEF Told, Tells
  <2>. QED  BY <2>6, <2>7, <2>9, <2>10, <2>11, <2>12 DEF TrackedRight, HasAll
<1>. QED  BY <1>5, <1>6

(* Everyone who runs on s is told that it is gone.                         *)
LEMMA RevokeTracked ==
  ASSUME LayerInv, LayerInv', Layered, SentinelInv, Tracked, Turned, Ages, RevokeNext
  PROVE  Tracked'
<1>1. TypeOK /\ (\A w \in watchers : HeardRight(w)) /\ Running("revoke") /\ BelowWaits /\ stack # <<>>
      /\ UNCHANGED <<watchers, recs, scopes>> /\ Exists(Top.scope)
      /\ services \in [Services -> ScopeIds \cup {NoScope}]
  BY Zenon DEF LayerInv, TreeInv, Layers, TypeOK, RevokeNext, Running, Turned
<1>2. PICK s : s = scopes[Top.scope].provided[Top.ix]
  BY SMTT(40)
<1>3. s \in Services
  <2>1. scopes[Top.scope].provided \in Seq(Services)
    BY SMTT(40), <1>1, ExistingScope DEF Scope
  <2>. QED  BY <1>2, <2>1 DEF RevokeNext
<1>4. RevokeEntry(s, Top.scope)
  BY <1>2 DEF RevokeNext
<1>5. Rests(Below) \subseteq Rests(stack') /\ (\A f \in Rests(stack) : f = Top \/ f \in Rests(Below)) /\ Top.op = "revoke"
  BY <1>1, RestsRunning DEF BelowWaits
<1>6. \A r : /\ Told(r, FALSE) => Told(r, FALSE)'
             /\ Told(r, TRUE) => Told(r, TRUE)'
             /\ Waiting("arm", r) => Waiting("arm", r)'
  BY <1>5 DEF Told, Waiting, Tells
<1>7. CASE services[s] # Top.scope
  <2>1. UNCHANGED services
    BY <1>4, <1>7 DEF RevokeEntry, Disappears
  <2>2. \A r : Heeds(r)
    BY <1>6 DEF Heeds
  <2>. QED  BY <2>1, <2>2, TrackedQuiet
<1>8. CASE services[s] = Top.scope
  <2>1. PICK x \in Frame : x = FireWatchers(FALSE, Snapshot(s)) /\ x.op = "fire" /\ x.val = FALSE /\ x.todo = Snapshot(s)
    BY <1>1, <1>3, FireFrame
  <2>2. services' = [services EXCEPT ![s] = NoScope]
    BY <1>4, <1>8 DEF RevokeEntry, Disappears
  <2>3. x \in Rests(stack')
    <3>1. PICK g : g = Earlier(Top)
      OBVIOUS
    <3>2. stack' = <<x>> \o Resume(g)
      BY <1>2, <1>8, <2>1, <3>1 DEF RevokeNext, Disappears
    <3>3. PICK S : S = Frame \cup {g}
      OBVIOUS
    <3>4. Resume(g) \in Seq(S) /\ x \in S
      <4>1. Below \in Seq(S) /\ g \in S
        BY <1>1, <3>3, RestsRunning, LargerSeq
      <4>. QED  BY <2>1, <3>3, <4>1, PushType DEF Resume
    <3>. QED  BY <2>1, <3>2, <3>4, RestsPushed
  <2>4. SUFFICES ASSUME NEW r \in RecIds, Live(r)' PROVE TrackedRight(r)'
    BY DEF Tracked
  <2>5. Live(r) /\ recs' = recs
    BY <1>1, <2>4 DEF Live
  <2>6. SUFFICES ASSUME HostIsAlive(r)'
                 PROVE  /\ recs[r].state = "Active" /\ ~HasAll(r)' => Told(r, FALSE)'
                        /\ recs[r].state = "Deferred" /\ HasAll(r)' => Told(r, TRUE)' \/ Waiting("arm", r)'
    BY <2>5 DEF TrackedRight
  <2>7. HostIsAlive(r)
    BY <2>4, <2>5, <2>6, StillAlive DEF StaysAlive
  <2>8. TrackedRight(r)
    BY <2>5 DEF Tracked
  <2>9. recs[r].plugin \in Plugins /\ Required(r) \subseteq Services
    <3>1. recs[r].plugin \in Plugins
      BY <1>1, <2>5, RecordPlugin
    <3>. QED  BY <3>1, ContextAssumption DEF Required, ToSet
  <2>10. \A t \in Required(r) : services'[t] # NoScope <=> (services[t] # NoScope /\ t # s)
    BY <1>1, <1>3, <2>2, <2>9
  <2>11. HasAll(r)' <=> \A t \in Required(r) : services'[t] # NoScope
    BY <2>5 DEF HasAll, Required
  <2>12. s \in Required(r) => Told(r, FALSE)'
    <3>1. SUFFICES ASSUME s \in Required(r) PROVE Told(r, FALSE)'
      OBVIOUS
    <3>2. recs[r].plugin \in Hears(s)
      BY <2>9, <3>1 DEF Hears, Required
    <3>3. ~Waiting("arm", r)
      <4>1. SUFFICES ASSUME Waiting("arm", r) PROVE FALSE
        OBVIOUS
      <4>2. PICK f \in Rests(Below) : f.op = "arm" /\ f.rec = r
        BY <1>5, <4>1 DEF Waiting
      <4>3. PICK j \in DOMAIN Below : f = Below[j]
        BY <4>2 DEF Rests
      <4>4. Hears(s) \subseteq Over(f)
        BY <1>1, <1>3, <1>8, <4>3, BelowApart
      <4>. QED  BY <1>1, <2>5, <3>2, <4>2, <4>4, NotOver
    <3>4. PICK w \in watchers : w.rec = r /\ w.svc = s
      BY <2>5, <2>7, <3>1, <3>3, SentinelThere
    <3>5. Tells(x, r, FALSE)
      BY <2>1, <3>4 DEF Tells, Snapshot
    <3>. QED  BY <2>3, <3>5 DEF Told, Tells
  <2>. QED  BY <1>6, <2>7, <2>8, <2>10, <2>11, <2>12 DEF TrackedRight, HasAll
<1>. QED  BY <1>7, <1>8

(* Every step keeps the dependencies tracked.                              *)
LEMMA TrackedStep ==
  ASSUME LayerInv, LayerInv', Layered, SentinelInv, Tracked, [Next]_vars
  PROVE  Tracked'
<1>1. TypeOK /\ TypeOK'
  BY DEF LayerInv, TreeInv
<1>2. Turned /\ Ages
  BY <1>1, StepTurned, StepAges
<1>3. CASE UNCHANGED vars
  <2>1. \A r : Heeds(r)
    BY <1>3 DEF vars, Heeds, Told, Waiting
  <2>. QED  BY <1>2, <1>3, <2>1, TrackedQuiet DEF vars
<1>4. CASE HostCalls
  <2>1. stack = <<>> /\ Exists(Root) /\ <<>> \in Seq(Frame)
    BY <1>4, NobodyWaits DEF HostCalls, HostLoad, HostUnload, HostProvide, HostDestroy, Idle
  <2>2. Rests(stack) = {}
    BY <2>1 DEF Rests
  <2>3. CASE \E s \in Services : HostProvide(s)
    <3>1. PICK s \in Services : ProvideService(s, Root, <<>>)
      BY <2>3 DEF HostProvide
    <3>. QED  BY <1>2, <2>1, <3>1, ProvideTracked
  <2>4. CASE ~\E s \in Services : HostProvide(s)
    <3>1. UNCHANGED services
      BY <1>4, <2>4 DEF HostCalls, HostLoad, HostUnload, HostDestroy, AddRecord, Unload
    <3>2. \A r : Heeds(r)
      BY <2>2 DEF Heeds, Told, Waiting
    <3>. QED  BY <1>2, <3>1, <3>2, TrackedQuiet
  <2>. QED  BY <2>3, <2>4
<1>5. CASE ThreadSteps
  <2>1. CASE \E s \in Services : ApplyProvide(s)
    <3>1. PICK s \in Services, sc \in ScopeIds :
            /\ ProvideService(s, sc, stack) /\ Exists(sc)
      BY <2>1 DEF ApplyProvide, Applying, Exists
    <3>2. stack \in Seq(Frame)
      BY <1>1 DEF TypeOK
    <3>. QED  BY <1>2, <3>1, <3>2, ProvideTracked
  <2>2. CASE RevokeNext
    BY <1>2, <2>2, RevokeTracked
  <2>3. CASE ArmNext \/ ArmToken \/ ArmStarts
    <3>1. UNCHANGED services
      BY <2>3 DEF ArmNext, ArmToken, ArmStarts
    <3>. QED  BY SMTT(40), <1>1, <1>2, <2>3, <3>1, ArmHeeds, TrackedQuiet
  <2>4. CASE FireNext
    <3>1. UNCHANGED services
      BY <2>4 DEF FireNext
    <3>. QED  BY <1>1, <1>2, <2>4, <3>1, FireHeeds, TrackedQuiet
  <2>5. CASE \/ \E p \in Plugins : ApplyLoad(p) \/ ApplyEvict(p) \/ CallbackLoads(p) \/ CallbackUnloads(p)
             \/ ApplyReturns \/ ApplyThrows \/ StopRelease
             \/ DtorStop \/ DtorRelease \/ DtorClear \/ RevokeDone
             \/ Erase \/ FireDone \/ CallbackReturns
    <3>1. UNCHANGED services
      BY ZenonT(60), <2>5 DEF ApplyLoad, ApplyEvict, CallbackLoads, CallbackUnloads, ApplyReturns, ApplyThrows, StopRelease,
                  DtorStop, DtorRelease, DtorClear, RevokeDone, Erase, FireDone, CallbackReturns,
                  AddRecord, Unload
    <3>2. stack # <<>> /\ (Top.op \notin {"fire", "arm"} \/ (Top.op = "fire" /\ Top.todo = {}))
      BY Zenon, <2>5 DEF ApplyLoad, ApplyEvict, CallbackLoads, CallbackUnloads, ApplyReturns, ApplyThrows, StopRelease,
                  DtorStop, DtorRelease, DtorClear, RevokeDone, Erase, FireDone, CallbackReturns,
                  Applying, Running
    <3>3. Running(Top.op)
      BY <3>2 DEF Running
    <3>. QED  BY SMTT(40), <1>2, <3>1, <3>2, <3>3, OthersHeed, TrackedQuiet
  <2>. QED  BY <1>5, <2>1, <2>2, <2>3, <2>4, <2>5 DEF ThreadSteps
<1>. QED  BY <1>3, <1>4, <1>5 DEF Next, Terminated

(* That is the property the runs check.                                    *)
LEMMA TrackedSame == Tracked => DependenciesTracked
<1>1. SUFFICES ASSUME Tracked, NEW r \in Records, HostIsAlive(r)
               PROVE  /\ recs[r].state = "Active" /\ ~HasAll(r) => PendingFire(r, FALSE)
                      /\ recs[r].state = "Deferred" /\ HasAll(r) => PendingFire(r, TRUE) \/ OnStack("arm", r)
  BY DEF DependenciesTracked
<1>2. TrackedRight(r)
  BY <1>1 DEF Tracked, Records
<1>3. /\ PendingFire(r, TRUE) <=> Told(r, TRUE)
      /\ PendingFire(r, FALSE) <=> Told(r, FALSE)
      /\ OnStack("arm", r) <=> Waiting("arm", r)
  BY ToldSame, WaitingSame
<1>. QED  BY <1>1, <1>2, <1>3 DEF TrackedRight

(* DependenciesTracked for every layered product: whatever comes or goes   *)
(* while fireWatchers() of Context.cpp is in the middle of its snapshot,   *)
(* no dependent record is left in a state that contradicts the registry    *)
(* without a call on the stack that will correct it.                       *)
THEOREM DependentsAreTold == Layered => (Spec => []DependenciesTracked)
<1>1. Init => Tracked
  BY DEF Init, Tracked, Live
<1>2. Layered /\ LayerInv /\ LayerInv' /\ SentinelInv /\ Tracked /\ [Next]_vars => Tracked'
  BY TrackedStep
<1>3. Init => SentinelInv
  BY InitSentinels
<1>4. TreeInv /\ SentinelInv /\ [Next]_vars => SentinelInv'
  BY StepSentinels
<1>5. LayerInv => TreeInv
  BY DEF LayerInv
<1>6. CASE Layered
  BY <1>1, <1>2, <1>3, <1>4, <1>5, <1>6, LayersHold, TrackedSame, PTL DEF Spec
<1>. QED  BY <1>6

(* The calls q destroy the scope sc on behalf of stopping record r.        *)
Unwinds(q, sc, r) ==
  \E i, j \in DOMAIN q :
    /\ i < j /\ q[i].op \in {"dtor", "revoke"} /\ q[i].scope = sc
    /\ q[j].op = "stop" /\ q[j].rec = r

(* Entering a call can only begin to destroy a scope ...                   *)
LEMMA UnwindsPushed ==
  ASSUME NEW S, NEW q \in Seq(S), NEW x \in S, NEW sc, NEW r
  PROVE  /\ Unwinds(q, sc, r) => Unwinds(<<x>> \o q, sc, r)
         /\ Unwinds(<<x>> \o q, sc, r) =>
              \/ Unwinds(q, sc, r)
              \/ x.op \in {"dtor", "revoke"} /\ x.scope = sc
                 /\ \E j \in DOMAIN q : q[j].op = "stop" /\ q[j].rec = r
         /\ x.op \in {"dtor", "revoke"} /\ x.scope = sc
              /\ (\E j \in DOMAIN q : q[j].op = "stop" /\ q[j].rec = r)
              => Unwinds(<<x>> \o q, sc, r)
<1>. DEFINE p == <<x>> \o q
<1>1. /\ p[1] = x /\ 1 \in DOMAIN p
      /\ \A i \in DOMAIN q : i + 1 \in DOMAIN p /\ p[i + 1] = q[i]
      /\ \A i \in DOMAIN p : i = 1 \/ (i - 1 \in DOMAIN q /\ p[i] = q[i - 1])
      /\ DOMAIN q \subseteq Nat \ {0} /\ DOMAIN p \subseteq Nat \ {0}
  BY PushedPositions
<1>. HIDE DEF p
<1>2. ASSUME Unwinds(q, sc, r) PROVE Unwinds(p, sc, r)
  <2>1. PICK i, j \in DOMAIN q :
          /\ i < j /\ q[i].op \in {"dtor", "revoke"} /\ q[i].scope = sc
          /\ q[j].op = "stop" /\ q[j].rec = r
    BY <1>2 DEF Unwinds
  <2>2. i + 1 < j + 1
    BY <1>1, <2>1
  <2>3. i + 1 \in DOMAIN p /\ j + 1 \in DOMAIN p /\ p[i + 1] = q[i] /\ p[j + 1] = q[j]
    BY <1>1
  <2>. QED  BY <2>1, <2>2, <2>3 DEF Unwinds
<1>3. ASSUME Unwinds(p, sc, r)
      PROVE  \/ Unwinds(q, sc, r)
             \/ x.op \in {"dtor", "revoke"} /\ x.scope = sc
                /\ \E j \in DOMAIN q : q[j].op = "stop" /\ q[j].rec = r
  <2>1. PICK i, j \in DOMAIN p :
          /\ i < j /\ p[i].op \in {"dtor", "revoke"} /\ p[i].scope = sc
          /\ p[j].op = "stop" /\ p[j].rec = r
    BY <1>3 DEF Unwinds
  <2>2. j # 1 /\ j - 1 \in DOMAIN q /\ p[j] = q[j - 1]
    BY <1>1, <2>1
  <2>3. CASE i = 1
    BY <1>1, <2>1, <2>2, <2>3
  <2>4. CASE i # 1
    <3>1. i - 1 \in DOMAIN q /\ p[i] = q[i - 1] /\ i - 1 < j - 1
      BY <1>1, <2>1, <2>4
    <3>. QED  BY <2>1, <2>2, <3>1 DEF Unwinds
  <2>. QED  BY <2>3, <2>4
<1>4. ASSUME x.op \in {"dtor", "revoke"}, x.scope = sc,
             NEW j \in DOMAIN q, q[j].op = "stop", q[j].rec = r
      PROVE  Unwinds(p, sc, r)
  <2>1. 1 < j + 1 /\ j + 1 \in DOMAIN p /\ p[j + 1] = q[j]
    BY <1>1
  <2>. QED  BY <1>1, <1>4, <2>1 DEF Unwinds
<1>. QED  BY <1>2, <1>3, <1>4 DEF p

(* ... marking iterators changes nothing ...                               *)
LEMMA UnwindsMarked ==
  ASSUME NEW q \in Seq(Frame), NEW sc, NEW n \in Nat, NEW x, NEW r
  PROVE  Unwinds(q, x, r) => Unwinds(Invalidate(q, sc, n), x, r)
<1>. DEFINE p == Invalidate(q, sc, n)
<1>1. MarkedFrom(q, p, sc, n)
  BY InvalidateSame
<1>. HIDE DEF p
<1>2. DOMAIN p = DOMAIN q /\ \A i \in DOMAIN q : q[i].op # "erase" => p[i] = q[i]
  BY <1>1 DEF MarkedFrom
<1>. QED  BY <1>2 DEF Unwinds, p

(* ... and the running destructor goes on with its own.                    *)
LEMMA UnwindsRunning ==
  ASSUME TypeOK, NEW op, Running(op), NEW sc, NEW r
  PROVE  /\ Unwinds(stack, sc, r) => Unwinds(Below, sc, r) \/ (op \in {"dtor", "revoke"} /\ Top.scope = sc)
         /\ \A g : Unwinds(Below, sc, r) => Unwinds(Resume(g), sc, r)
         /\ \A g : g.op \in {"dtor", "revoke"} /\ g.scope = Top.scope /\ Unwinds(stack, sc, r)
                     => Unwinds(Resume(g), sc, r)
<1>1. /\ stack = <<Top>> \o Below /\ stack \in Seq(Frame)
      /\ Top \in Frame /\ Top.op = op /\ Below \in Seq(Frame)
  BY RunningStack
<1>2. Unwinds(stack, sc, r) =>
        \/ Unwinds(Below, sc, r)
        \/ op \in {"dtor", "revoke"} /\ Top.scope = sc /\ \E j \in DOMAIN Below : Below[j].op = "stop" /\ Below[j].rec = r
  BY <1>1, UnwindsPushed
<1>3. ASSUME NEW g
      PROVE  /\ Unwinds(Below, sc, r) => Unwinds(Resume(g), sc, r)
             /\ g.op \in {"dtor", "revoke"} /\ g.scope = sc
                  /\ (\E j \in DOMAIN Below : Below[j].op = "stop" /\ Below[j].rec = r)
                  => Unwinds(Resume(g), sc, r)
  <2>1. PICK S : S = Frame \cup {g}
    OBVIOUS
  <2>2. Below \in Seq(S) /\ g \in S
    BY <1>1, <2>1, LargerSeq
  <2>. QED  BY <2>2, UnwindsPushed DEF Resume
<1>. QED  BY <1>2, <1>3

(* q keeps its library, and its scope until it is unwound.                 *)
Supplies(q) ==
  /\ Live(q)' /\ recs'[q].plugin = recs[q].plugin /\ recs'[q].lib = recs[q].lib
  /\ recs[q].scope # NoScope =>
       recs'[q].scope = recs[q].scope \/ Unwinds(stack', recs[q].scope, q)

(* A call above rest leaves every record its library and its scope, or is  *)
(* destroying that scope.                                                  *)
CallSupplies(rest) ==
  /\ \A sc, r : Unwinds(rest, sc, r) => Unwinds(stack', sc, r)
  /\ \A q \in RecIds : Live(q) => Supplies(q)

(* A call that does nothing leaves them ...                                *)
LEMMA ReturnSupplies ==
  ASSUME NEW rest, Return(rest)
  PROVE  CallSupplies(rest)
BY DEF Return, CallSupplies, Supplies, Live

(* ... so does a start ...                                                 *)
LEMMA StartSupplies ==
  ASSUME LayerInv, TypeOK', NEW r, Live(r), NEW rest \in Seq(Frame), EnsureStarted(r, rest)
  PROVE  CallSupplies(rest)
<1>1. r \in RecIds /\ TypeOK /\ Placed(r)
  BY DEF Live, LayerInv, TreeInv, Layers
<1>2. CASE Return(rest)
  BY <1>2, ReturnSupplies
<1>3. ASSUME NEW sc \in ScopeIds, StartEffect(r, sc, rest)
      PROVE  CallSupplies(rest)
  <2>1. PICK x \in Frame : x = Call("apply", r, sc)
    BY <1>1, CallFrames
  <2>2. stack' = <<x>> \o rest
    BY <1>3, <2>1 DEF StartEffect
  <2>3. \A s, q : Unwinds(rest, s, q) => Unwinds(stack', s, q)
    BY <2>2, UnwindsPushed
  <2>4. recs[r].scope = NoScope
    BY <1>1, <1>3 DEF StartEffect, CanStart, Placed
  <2>5. Supplies(r)
    BY <1>3, <2>4 DEF StartEffect, Supplies
  <2>6. \A q \in RecIds \ {r} : Live(q) => Supplies(q)
    BY <1>3 DEF StartEffect, Supplies, Live
  <2>. QED  BY <2>3, <2>5, <2>6 DEF CallSupplies
<1>. QED  BY <1>1, <1>2, <1>3, StartEffects

(* ... stopping destroys a scope ...                                       *)
LEMMA StopSupplies ==
  ASSUME TypeOK, ListsRight, NEW r, Live(r), NEW target \in {"Deferred", "Failed", "Disposed"},
         NEW rest \in Seq(Frame), StopRecord(r, target, rest)
  PROVE  CallSupplies(rest)
<1>1. r \in RecIds
  BY DEF Live
<1>2. CASE Return(rest)
  BY <1>2, ReturnSupplies
<1>3. CASE StopShape(r, target, rest)
  <2>1. PICK x \in Frame : x = Call("stop", r, NoScope)
    BY <1>1, CallFrames
  <2>2. x.op = "stop" /\ x.rec = r
    BY <2>1 DEF Call
  <2>3. PICK q \in Seq(Frame) : q = <<x>> \o rest
    BY PushType
  <2>4. \A s, y : Unwinds(rest, s, y) => Unwinds(q, s, y)
    BY <2>3, UnwindsPushed
  <2>5. \E j \in DOMAIN q : q[j].op = "stop" /\ q[j].rec = r
    BY <2>2, <2>3, PushedPositions
  <2>6. /\ \A s, y : Unwinds(q, s, y) => Unwinds(stack', s, y)
        /\ recs[r].scope # NoScope => Unwinds(stack', recs[r].scope, r)
    <3>1. CASE recs[r].scope = NoScope
      BY <1>3, <2>1, <2>3, <3>1 DEF StopShape
    <3>2. CASE recs[r].scope # NoScope
      <4>1. PICK sc \in ScopeIds : sc = recs[r].scope /\ Exists(sc)
        BY <1>3, <3>2 DEF StopShape, Exists
      <4>2. PICK d \in Frame : d = DtorCall(sc) /\ d.op = "dtor" /\ d.scope = sc
        BY <1>1, <4>1, CallFrames
      <4>3. stack' = <<d>> \o q
        BY <1>3, <2>1, <2>3, <3>2, <4>1, <4>2 DEF StopShape
      <4>4. \A s, y : Unwinds(q, s, y) => Unwinds(stack', s, y)
        BY <4>3, UnwindsPushed
      <4>5. Unwinds(stack', sc, r)
        BY <2>5, <4>2, <4>3, UnwindsPushed
      <4>. QED  BY <4>1, <4>4, <4>5
    <3>. QED  BY <3>1, <3>2
  <2>7. Supplies(r)
    BY <1>3, <2>6 DEF StopShape, Supplies
  <2>8. \A y \in RecIds \ {r} : Live(y) => Supplies(y)
    BY <1>3 DEF StopShape, Supplies, Live
  <2>. QED  BY <2>4, <2>6, <2>7, <2>8 DEF CallSupplies
<1>. QED  BY <1>2, <1>3, StopShapes

(* ... a sentinel does one or the other ...                                *)
LEMMA WatcherSupplies ==
  ASSUME LayerInv, TypeOK', NEW w \in Watcher, NEW v \in BOOLEAN,
         NEW rest \in Seq(Frame), CallWatcher(w, v, rest)
  PROVE  CallSupplies(rest)
<1>0. TypeOK /\ ListsRight
  BY DEF LayerInv, TreeInv
<1>1. CASE Return(rest)
  BY <1>1, ReturnSupplies
<1>2. ASSUME NEW x, x = [Call("callback", NoRec, NoScope) EXCEPT !.val = v, !.todo = {w}], Return(<<x>> \o rest)
      PROVE  CallSupplies(rest)
  <2>1. x \in Frame
    <3>1. Call("callback", NoRec, NoScope) \in Frame
      BY CallType DEF Ops
    <3>. QED  BY <1>2, <3>1 DEF Call, Frame
  <2>2. CallSupplies(<<x>> \o rest)
    BY <1>2, ReturnSupplies
  <2>3. \A s, y : Unwinds(rest, s, y) => Unwinds(<<x>> \o rest, s, y)
    BY <2>1, UnwindsPushed
  <2>. QED  BY <2>2, <2>3 DEF CallSupplies
<1>3. PICK r : r = w.rec
  OBVIOUS
<1>4. CASE Live(r) /\ EnsureStarted(r, rest)
  BY <1>4, StartSupplies
<1>5. CASE Live(r) /\ StopRecord(r, "Deferred", rest)
  BY <1>0, <1>5, StopSupplies
<1>. QED  BY <1>1, <1>2, <1>3, <1>4, <1>5 DEF CallWatcher

(* ... adding a record changes no other ...                                *)
LEMMA AddSupplies ==
  ASSUME TypeOK, TypeOK', NEW sc, Exists(sc), NEW p \in Plugins, NEW rest \in Seq(Frame),
         AddRecord(sc, p, rest)
  PROVE  CallSupplies(rest)
<1>1. PICK r \in RecIds : AddShape(r, sc, p, rest)
  BY AddShapes
<1>2. PICK x \in Frame : x = ArmCall(r, sc)
  BY <1>1 DEF AddShape
<1>3. PICK q \in Seq(Frame) : q = Invalidate(rest, sc, 1)
  BY InvalidateType
<1>4. stack' = <<x>> \o q
  BY <1>1, <1>2, <1>3 DEF AddShape
<1>5. \A s, y : Unwinds(rest, s, y) => Unwinds(q, s, y)
  BY <1>3, UnwindsMarked
<1>6. \A s, y : Unwinds(q, s, y) => Unwinds(stack', s, y)
  BY <1>4, UnwindsPushed
<1>7. \A y \in RecIds : Live(y) => Supplies(y)
  BY <1>1 DEF AddShape, Supplies, Live
<1>. QED  BY <1>5, <1>6, <1>7 DEF CallSupplies

(* ... and unloading is stopping.                                          *)
LEMMA UnloadSupplies ==
  ASSUME TypeOK, ListsRight, NEW sc, Exists(sc), NEW p, NEW rest \in Seq(Frame), Unload(sc, p, rest)
  PROVE  CallSupplies(rest)
<1>1. PICK i \in DOMAIN scopes[sc].records :
        /\ Live(scopes[sc].records[i])
        /\ StopRecord(scopes[sc].records[i], "Disposed",
                      <<EraseCall(scopes[sc].records[i], sc, i)>> \o rest)
  BY DEF Unload, Named, EraseCall
<1>2. PICK r : r = scopes[sc].records[i]
  OBVIOUS
<1>3. PICK x : x = EraseCall(r, sc, i)
  OBVIOUS
<1>4. x \in Frame
  <2>1. r \in RecIds /\ sc \in ScopeIds
    BY <1>1, <1>2 DEF Live, Exists
  <2>2. i \in Nat
    <3>1. scopes[sc].records \in Seq(RecIds)
      BY ExistingScope DEF Scope
    <3>. QED  BY <3>1, LenProperties
  <2>3. Call("erase", r, sc) \in Frame
    BY <2>1, CallType DEF Ops
  <2>. QED  BY <1>3, <2>2, <2>3 DEF EraseCall, Call, Frame
<1>5. PICK q \in Seq(Frame) : q = <<x>> \o rest
  BY <1>4, PushType
<1>6. CallSupplies(q)
  BY <1>1, <1>2, <1>3, <1>5, StopSupplies
<1>7. \A s, y : Unwinds(rest, s, y) => Unwinds(q, s, y)
  BY <1>4, <1>5, UnwindsPushed
<1>. QED  BY <1>6, <1>7 DEF CallSupplies

(* A record keeps the library of p mapped.                                 *)
Holder(p) == \E q \in RecIds : Live(q) /\ recs[q].lib /\ recs[q].plugin = p

(* Record q of plugin p provides service s, which r requires: the service  *)
(* is in the scope of q, or in the one whose destruction q waits for.      *)
Supplier(r, p, s, q) ==
  /\ s \in Required(r) /\ Provider(p, s) /\ services[s] # NoScope
  /\ q \in RecIds /\ Live(q) /\ recs[q].lib /\ recs[q].plugin = p
  /\ recs[q].scope = services[s] \/ Unwinds(stack, services[s], q)

(* Some record supplies r with something of p.                             *)
Supplied(r, p) == \E s \in Services, q \in RecIds : Supplier(r, p, s, q)

(* The loop f has still to tell r that a service of p is lost.             *)
Warns(f, r, p) == f.op = "fire" /\ ~f.val /\ \E w \in f.todo : w.rec = r /\ Provider(p, w.svc)

(* Some loop on the stack has.                                             *)
Losing(r, p) == \E f \in Rests(stack) : Warns(f, r, p)

(* A plugin p whose service r was given is on a lower level, its library   *)
(* is mapped, and while r is Active either p still supplies it or r is     *)
(* about to be told of the loss.                                           *)
UseRight(r, p) ==
  /\ Level[p] < Level[recs[r].plugin]
  /\ Holder(p)
  /\ recs[r].state = "Active" => Supplied(r, p) \/ Losing(r, p)

(* All services in use are right: the inductive invariant for mapped       *)
(* libraries.                                                              *)
Users == \A r \in RecIds : Live(r) /\ HostIsAlive(r) => \A p \in recs[r].uses : UseRight(r, p)

(* r runs before and after the step.                                       *)
StaysActive(r) ==
  /\ Live(r) /\ Live(r)' /\ HostIsAlive(r) /\ HostIsAlive(r)'
  /\ recs[r].state = "Active" /\ recs'[r].state = "Active"

(* What the step has to keep for r to use p.                               *)
UseKept(r, p) ==
  /\ Holder(p)'
  /\ StaysActive(r) => Supplied(r, p)' \/ Losing(r, p)'

(* A step keeps Users if it keeps each use and each start uses what is     *)
(* there.                                                                  *)
LEMMA UsersKept ==
  ASSUME Users, Turned, Ages, LayerInv, LayerInv',
         \A r \in RecIds : Live(r) /\ Live(r)' /\ HostIsAlive(r) /\ HostIsAlive(r)' =>
           \A p \in recs[r].uses : p \in recs'[r].uses => UseKept(r, p),
         \A r \in RecIds : Live(r) /\ Live(r)' /\ Starts(r) =>
           \A p \in Injected(r) : UseRight(r, p)'
  PROVE  Users'
<1>1. SUFFICES ASSUME NEW r \in RecIds, Live(r)', HostIsAlive(r)', NEW p \in recs'[r].uses
               PROVE  UseRight(r, p)'
  BY DEF Users
<1>2. CASE ~Live(r)
  BY <1>1, <1>2 DEF Turned, Fresh
<1>3. CASE Live(r)
  <2>1. Turn(r) /\ HostIsAlive(r) /\ recs'[r].plugin = recs[r].plugin
    BY <1>1, <1>3, StillAlive DEF Turned, Turn, StaysAlive
  <2>2. CASE Starts(r)
    BY <1>1, <1>3, <2>2 DEF Starts
  <2>3. CASE ~Starts(r)
    <3>1. /\ p \in recs[r].uses
          /\ recs'[r].state = "Active" => recs[r].state = "Active"
      BY <1>1, <2>1, <2>3 DEF Turn, Same, Stops, Returns, Releases
    <3>2. UseRight(r, p)
      BY <1>3, <2>1, <3>1 DEF Users
    <3>3. UseKept(r, p)
      BY <1>1, <1>3, <2>1, <3>1
    <3>. QED  BY <1>1, <1>3, <2>1, <3>1, <3>2, <3>3 DEF UseRight, UseKept, StaysActive
  <2>. QED  BY <2>2, <2>3
<1>. QED  BY <1>2, <1>3

(* A supplier goes on supplying.                                           *)
LEMMA SupplierKept ==
  ASSUME NEW r, NEW p, NEW s \in Services, NEW q \in RecIds, Supplier(r, p, s, q),
         recs'[r].plugin = recs[r].plugin, services'[s] = services[s], Supplies(q),
         Unwinds(stack, services[s], q) => Unwinds(stack', services[s], q)
  PROVE  Supplied(r, p)'
<1>1. s \in Required(r)'
  BY DEF Supplier, Required
<1>2. Live(q)' /\ recs'[q].lib /\ recs'[q].plugin = p
  BY DEF Supplier, Supplies
<1>3. recs'[q].scope = services[s] \/ Unwinds(stack', services[s], q)
  BY DEF Supplier, Supplies
<1>. QED  BY <1>1, <1>2, <1>3 DEF Supplier, Supplied

(* What ensureStarted() injects is supplied by the plugins that provide    *)
(* it.                                                                     *)
LEMMA StartUses ==
  ASSUME LayerInv, Layered, UNCHANGED services, \A q \in RecIds : Live(q) => Supplies(q),
         NEW r \in RecIds, Live(r), Starts(r), recs'[r].plugin = recs[r].plugin, NEW p \in Injected(r)
  PROVE  UseRight(r, p)'
<1>1. PICK q \in RecIds : /\ Live(q) /\ recs[q].lib /\ recs[q].plugin = p
                          /\ \E s \in Required(r) : services[s] = recs[q].scope
  BY DEF Injected
<1>2. PICK s \in Required(r) : services[s] = recs[q].scope
  BY <1>1
<1>3. TypeOK /\ recs[r].plugin \in Plugins /\ p \in Plugins /\ Placed(q)
  BY <1>1, RecordPlugin DEF LayerInv, TreeInv, Layers
<1>4. s \in Services
  BY <1>3, ContextAssumption DEF Required, ToSet
<1>5. services[s] # NoScope
  BY DEF Starts, HasAll
<1>6. Provider(p, s)
  BY <1>1, <1>2, <1>3, <1>4, <1>5 DEF Placed, OwnRight
<1>7. Level[p] < Level[recs[r].plugin]
  <2>1. recs[r].plugin \in Hears(s)
    BY <1>3 DEF Hears, Required
  <2>. QED  BY <1>3, <1>4, <1>6, <2>1 DEF Layered
<1>8. Supplier(r, p, s, q)
  BY <1>1, <1>2, <1>5, <1>6 DEF Supplier
<1>9. Supplies(q)
  BY <1>1
<1>10. Supplied(r, p)'
  <2>1. recs[q].scope # NoScope
    BY <1>2, <1>5
  <2>2. recs'[q].scope = services[s] \/ Unwinds(stack', services[s], q)
    BY <1>2, <1>9, <2>1 DEF Supplies
  <2>3. Live(q)' /\ recs'[q].lib /\ recs'[q].plugin = p
    BY <1>1, <1>9 DEF Supplies
  <2>4. s \in Required(r)'
    BY DEF Required
  <2>5. services'[s] = services[s]
    OBVIOUS
  <2>. QED  BY <1>4, <1>5, <1>6, <2>2, <2>3, <2>4, <2>5 DEF Supplier, Supplied
<1>11. Holder(p)'
  BY <1>1, <1>9 DEF Supplies, Holder
<1>. QED  BY <1>7, <1>10, <1>11 DEF UseRight

(* A step after which every record of a mapped library is still there.     *)
LEMMA UsersCalls ==
  ASSUME Users, Turned, Ages, LayerInv, LayerInv', Layered, UNCHANGED services,
         \A q \in RecIds : Live(q) => Supplies(q),
         \A sc, q : Unwinds(stack, sc, q) => Unwinds(stack', sc, q),
         \A r \in RecIds : StaysActive(r) => \A p : Losing(r, p) => Losing(r, p)'
  PROVE  Users'
<1>1. ASSUME NEW r \in RecIds, Live(r), Live(r)', HostIsAlive(r), HostIsAlive(r)',
             NEW p \in recs[r].uses
      PROVE  UseKept(r, p)
  <2>1. UseRight(r, p) /\ recs'[r].plugin = recs[r].plugin
    BY <1>1 DEF Users, Turned, Turn
  <2>2. Holder(p)'
    BY <2>1 DEF UseRight, Holder, Supplies
  <2>3. ASSUME Supplied(r, p) PROVE Supplied(r, p)'
    <3>1. PICK s \in Services, q \in RecIds : Supplier(r, p, s, q)
      BY <2>3 DEF Supplied
    <3>2. Supplies(q) /\ services'[s] = services[s]
      BY <3>1 DEF Supplier
    <3>. QED  BY <2>1, <3>1, <3>2, SupplierKept
  <2>4. StaysActive(r) /\ Losing(r, p) => Losing(r, p)'
    OBVIOUS
  <2>. QED  BY <2>1, <2>2, <2>3, <2>4 DEF UseKept, UseRight, StaysActive
<1>2. ASSUME NEW r \in RecIds, Live(r), Live(r)', Starts(r), NEW p \in Injected(r)
      PROVE  UseRight(r, p)'
  <2>1. recs'[r].plugin = recs[r].plugin
    BY <1>2 DEF Turned, Turn
  <2>. QED  BY <1>2, <2>1, StartUses
<1>. QED  BY <1>1, <1>2, UsersKept

(* Whom a loop is to warn, it still is, but for the one it has just told.  *)
LEMMA LosingBelow ==
  ASSUME TypeOK, BelowWaits, NEW r, NEW p, Losing(r, p)
  PROVE  Losing(r, p)' \/ (Running("fire") /\ Warns(Top, r, p))
<1>1. PICK f \in Rests(stack) : Warns(f, r, p)
  BY DEF Losing
<1>2. stack # <<>>
  BY <1>1 DEF Rests
<1>3. Running(Top.op)
  BY <1>2 DEF Running
<1>4. f = Top \/ f \in Rests(Below)
  BY <1>1, <1>3, RestsRunning
<1>5. CASE f = Top
  BY <1>1, <1>3, <1>5 DEF Warns, Running
<1>6. CASE f \in Rests(Below)
  BY <1>1, <1>2, <1>6 DEF BelowWaits, Losing
<1>. QED  BY <1>4, <1>5, <1>6

(* Only fireWatchers() gives such a warning ...                            *)
LEMMA LosingHeeds ==
  ASSUME LayerInv, Turned, ~Running("fire") \/ Top.todo = {}
  PROVE  \A r, p : Losing(r, p) => Losing(r, p)'
BY LosingBelow DEF LayerInv, TreeInv, Turned, Warns

(* ... and it gives it to its record.                                      *)
LEMMA FireLosing ==
  ASSUME LayerInv, Layered, TypeOK', Turned, FireNext, NEW r \in RecIds, StaysActive(r), NEW p, Losing(r, p)
  PROVE  Losing(r, p)'
<1>1. TypeOK /\ BelowWaits /\ Running("fire") /\ ListsRight /\ Top.op = "fire"
  BY DEF LayerInv, TreeInv, Turned, FireNext, Running
<1>2. Losing(r, p)' \/ Warns(Top, r, p)
  BY <1>1, LosingBelow
<1>3. PICK w \in Watcher, g \in Frame :
          /\ w \in Top.todo /\ CallWatcher(w, Top.val, Resume(g)) /\ HeardRight(w) /\ UNCHANGED services
          /\ g.op = "fire" /\ g.val = Top.val /\ g.todo = Top.todo \ {w}
  BY FireNextParts
<1>4. Top \in Good /\ Top \in Frame /\ Top \in RightFrames
  BY <1>1, RunningLayers
<1>5. PICK q, v : q = Resume(g) /\ v = Top.val
  OBVIOUS
<1>6. q \in Seq(Frame) /\ g \in Rests(q)
  BY <1>1, <1>3, <1>5, RestsRunning
<1>7. v \in BOOLEAN /\ (~v => services[w.svc] = NoScope)
  BY <1>3, <1>4, <1>5, <1>1 DEF Frame, Good
<1>8. CallTurns(q)
  BY <1>1, <1>3, <1>5, <1>6, <1>7, WatcherTurns
<1>9. HostAlive(w) /\ w.rec # NoRec =>
        (~v /\ recs[w.rec].state = "Active" => recs'[w.rec].state = "Deferred")
  BY <1>1, <1>3, <1>5, <1>6, <1>7, WatcherTurns
<1>10. g \in Rests(stack')
  BY <1>6, <1>8 DEF CallTurns
<1>11. CASE w.rec # r
  <2>1. Warns(Top, r, p) => Warns(g, r, p)
    BY <1>3, <1>11 DEF Warns
  <2>. QED  BY <1>2, <1>10, <2>1 DEF Losing
<1>12. CASE w.rec = r
  <2>1. recs[r].host = w.host
    BY <1>3, <1>4, <1>12 DEF RightFrames, PointersRight, RightWatchers, StaysActive
  <2>2. HostAlive(w)
    <3>1. HostIsAlive(r) /\ Exists(recs[r].host)
      BY DEF StaysActive, LayerInv, Layers, Placed
    <3>. QED  BY <2>1, <3>1 DEF HostAlive, HostIsAlive
  <2>3. w.rec # NoRec
    BY <1>12, ContextAssumption
  <2>4. v
    BY <1>9, <1>12, <2>2, <2>3 DEF StaysActive
  <2>. QED  BY <1>2, <1>5, <2>4 DEF Warns
<1>. QED  BY <1>11, <1>12

(* A step that changes no record's state.                                  *)
LEMMA SettledUsers ==
  ASSUME Users, Turned, Ages, LayerInv, LayerInv',
         \A r \in RecIds : Live(r) /\ Live(r)' => recs'[r].state = recs[r].state,
         \A r \in RecIds : Live(r) /\ Live(r)' /\ HostIsAlive(r) /\ HostIsAlive(r)' =>
           \A p \in recs[r].uses : p \in recs'[r].uses => UseKept(r, p)
  PROVE  Users'
<1>1. \A r \in RecIds : Live(r) /\ Live(r)' => ~Starts(r)
  BY DEF Starts
<1>. QED  BY <1>1, UsersKept

(* The plugin a record uses was loaded before the one that uses it.        *)
LEMMA UsedPlugin ==
  ASSUME TypeOK, NEW r \in RecIds, Live(r), NEW p \in recs[r].uses
  PROVE  p \in Plugins /\ recs[r].plugin \in Plugins
<1>1. recs[r] \in LoadRecord
  BY LiveRecord
<1>. QED  BY <1>1 DEF LoadRecord

(* provide(): who is served by something else still is.                    *)
LEMMA ProvideUsers ==
  ASSUME LayerInv, LayerInv', Users, Turned, Ages, NEW s \in Services, NEW sc, Exists(sc),
         NEW rest \in Seq(Frame), ProvideService(s, sc, rest), ~Running("fire"),
         \A x, q : Unwinds(stack, x, q) => Unwinds(rest, x, q)
  PROVE  Users'
<1>1. TypeOK /\ \A w \in watchers : HeardRight(w)
  BY DEF LayerInv, TreeInv, Layers
<1>2. ProvideShape(s, sc)
  BY <1>1, ProvideShapes
<1>3. recs' = recs /\ \A t \in Services : services[t] # NoScope => services'[t] = services[t]
  BY <1>2 DEF ProvideShape
<1>4. \A x, q : Unwinds(rest, x, q) => Unwinds(stack', x, q)
  <2>1. PICK x \in Frame : x = FireWatchers(TRUE, Snapshot(s))
    BY ZenonT(60), <1>1, FireFrame
  <2>2. stack' = rest \/ stack' = <<x>> \o rest
    BY <1>1, <2>1, ProvideShapes
  <2>3. \A y, q : Unwinds(rest, y, q) => Unwinds(<<x>> \o rest, y, q)
    BY UnwindsPushed
  <2>. QED  BY <2>2, <2>3
<1>5. \A q \in RecIds : Live(q) => Supplies(q)
  BY <1>3 DEF Supplies, Live
<1>6. ASSUME NEW r \in RecIds, Live(r), Live(r)', HostIsAlive(r), NEW p \in recs[r].uses
      PROVE  UseKept(r, p)
  <2>1. UseRight(r, p)
    BY <1>6 DEF Users
  <2>2. Holder(p)'
    BY <1>3, <2>1 DEF UseRight, Holder, Live
  <2>3. ASSUME Supplied(r, p) PROVE Supplied(r, p)'
    <3>1. PICK t \in Services, q \in RecIds : Supplier(r, p, t, q)
      BY <2>3 DEF Supplied
    <3>2. Supplies(q) /\ services'[t] = services[t]
      BY <1>3, <1>5, <3>1 DEF Supplier
    <3>3. Unwinds(stack, services[t], q) => Unwinds(stack', services[t], q)
      BY <1>4
    <3>. QED  BY <1>3, <3>1, <3>2, <3>3, SupplierKept
  <2>4. Losing(r, p) => Losing(r, p)'
    BY LosingHeeds
  <2>. QED  BY <2>1, <2>2, <2>3, <2>4 DEF UseKept, UseRight, StaysActive
<1>. QED  BY <1>3, <1>6, SettledUsers

(* A scope that is destroyed for a record has its stopRecord() below.      *)
LEMMA UnwindsStops ==
  ASSUME TypeOK, NEW op, Running(op), NEW sc, NEW r, Unwinds(stack, sc, r)
  PROVE  \E j \in DOMAIN Below : Below[j].op = "stop" /\ Below[j].rec = r
<1>1. stack = <<Top>> \o Below /\ Top \in Frame /\ Below \in Seq(Frame)
  BY RunningStack
<1>2. \/ Unwinds(Below, sc, r)
      \/ \E j \in DOMAIN Below : Below[j].op = "stop" /\ Below[j].rec = r
  BY <1>1, UnwindsPushed
<1>. QED  BY <1>2 DEF Unwinds

(* Teardown and unload() drop the records X, which have stopped and are of *)
(* no plugin that a suspended call depends on.                             *)
LEMMA DropUsers ==
  ASSUME LayerInv, LayerInv', Layered, Users, Turned, Ages, Instances, UNCHANGED services,
         NEW op \in {"dtor", "erase"}, Running(op), NEW X \in SUBSET RecIds,
         \A x \in X : Live(x) /\ recs[x].scope = NoScope,
         \A x \in X : \A j \in DOMAIN Below : Of(x, Over(Below[j])),
         \A q \in RecIds \ X : recs'[q] = recs[q],
         \A r \in RecIds : Live(r) /\ Live(r)' => recs'[r].state = recs[r].state,
         \A sc, q : Unwinds(stack, sc, q) => Unwinds(stack', sc, q)
  PROVE  Users'
<1>1. TypeOK /\ Top.op = op /\ \A f \in Rests(stack) : f = Top \/ f \in Rests(Below)
  BY RestsRunning DEF LayerInv, TreeInv
<1>2. ASSUME NEW p \in Plugins, NEW j \in DOMAIN Below,
             \/ Below[j].op = "stop" /\ Live(Below[j].rec) /\ Level[p] <= Level[recs[Below[j].rec].plugin]
             \/ Below[j].op = "fire" /\ \E w \in Below[j].todo : Provider(p, w.svc),
             NEW x \in X
      PROVE  recs[x].plugin # p
  <2>1. recs[x].plugin \in Over(Below[j])
    BY <1>2 DEF Of
  <2>2. CASE Below[j].op = "stop" /\ Live(Below[j].rec) /\ Level[p] <= Level[recs[Below[j].rec].plugin]
    <3>1. recs[Below[j].rec].plugin \in Plugins
      BY <1>1, <2>2, RecordPlugin
    <3>2. Level[recs[Below[j].rec].plugin] < Level[recs[x].plugin] /\ recs[x].plugin \in Plugins
      BY <2>1, <2>2, <3>1 DEF Over, Bases
    <3>3. /\ Level[p] \in Nat /\ Level[recs[x].plugin] \in Nat /\ Level[recs[Below[j].rec].plugin] \in Nat
      BY <3>1, <3>2 DEF Layered
    <3>. QED  BY <2>2, <3>2, <3>3
  <2>3. CASE Below[j].op = "fire" /\ \E w \in Below[j].todo : Provider(p, w.svc)
    <3>1. Level[p] < Level[recs[x].plugin]
      BY <2>1, <2>3 DEF Over, Bases
    <3>2. Level[p] \in Nat
      BY DEF Layered
    <3>. QED  BY <3>1, <3>2
  <2>. QED  BY <1>2, <2>2, <2>3
<1>3. ASSUME NEW r \in RecIds, Live(r), Live(r)', HostIsAlive(r), HostIsAlive(r)', NEW p \in recs[r].uses
      PROVE  UseKept(r, p)
  <2>1. UseRight(r, p) /\ p \in Plugins /\ recs[r].plugin \in Plugins /\ recs'[r].plugin = recs[r].plugin
    BY <1>1, <1>3, UsedPlugin DEF Users, Turned, Turn
  <2>2. Level[p] \in Nat /\ Level[recs[r].plugin] \in Nat
    BY <2>1 DEF Layered
  <2>3. PICK h \in RecIds : Live(h) /\ recs[h].lib /\ recs[h].plugin = p
    BY <2>1 DEF UseRight, Holder
  <2>4. ASSUME \A x \in X : recs[x].plugin # p PROVE Holder(p)'
    <3>1. recs'[h] = recs[h]
      BY <2>3, <2>4
    <3>. QED  BY <2>3, <3>1 DEF Holder, Live
  <2>5. CASE recs[r].state # "Active"
    <3>1. Waiting("stop", r)
      BY <1>3, <2>5 DEF Instances, InstanceRight
    <3>2. PICK f \in Rests(Below) : f.op = "stop" /\ f.rec = r
      BY <1>1, <3>1 DEF Waiting
    <3>3. PICK j \in DOMAIN Below : f = Below[j]
      BY <3>2 DEF Rests
    <3>4. Level[p] <= Level[recs[r].plugin]
      BY <2>1, <2>2 DEF UseRight
    <3>5. \A x \in X : recs[x].plugin # p
      BY <1>2, <1>3, <2>1, <3>2, <3>3, <3>4
    <3>. QED  BY <2>4, <2>5, <3>5 DEF UseKept, StaysActive
  <2>6. CASE Losing(r, p)
    <3>1. PICK f \in Rests(Below) : Warns(f, r, p)
      BY <1>1, <2>6 DEF Losing, Warns
    <3>2. PICK j \in DOMAIN Below : f = Below[j]
      BY <3>1 DEF Rests
    <3>3. \A x \in X : recs[x].plugin # p
      BY <1>2, <2>1, <3>1, <3>2 DEF Warns
    <3>4. Losing(r, p)'
      <4>1. ~Running("fire")
        BY <1>1 DEF Running
      <4>. QED  BY <2>6, <4>1, LosingHeeds
    <3>. QED  BY <2>4, <3>3, <3>4 DEF UseKept
  <2>7. CASE Supplied(r, p)
    <3>1. PICK s \in Services, q \in RecIds : Supplier(r, p, s, q)
      BY <2>7 DEF Supplied
    <3>2. q \notin X
      <4>1. CASE recs[q].scope = services[s]
        BY <3>1, <4>1 DEF Supplier
      <4>2. CASE Unwinds(stack, services[s], q)
        <5>1. PICK j \in DOMAIN Below : Below[j].op = "stop" /\ Below[j].rec = q
          BY <1>1, <4>2, UnwindsStops
        <5>2. Live(q) /\ recs[q].plugin = p
          BY <3>1 DEF Supplier
        <5>3. \A x \in X : recs[x].plugin # p
          BY <1>2, <2>1, <2>2, <5>1, <5>2
        <5>. QED  BY <5>2, <5>3
      <4>. QED  BY <3>1, <4>1, <4>2 DEF Supplier
    <3>3. recs'[q] = recs[q] /\ Live(q)'
      BY <3>1, <3>2 DEF Supplier, Live
    <3>4. Supplies(q)
      BY <3>3 DEF Supplies
    <3>5. Supplied(r, p)'
      BY <2>1, <3>1, <3>4, SupplierKept
    <3>6. Holder(p)'
      BY <3>1, <3>3 DEF Supplier, Holder
    <3>. QED  BY <3>5, <3>6 DEF UseKept
  <2>. QED  BY <2>1, <2>5, <2>6, <2>7 DEF UseRight
<1>. QED  BY <1>3, SettledUsers

(* A call that suspends the running one, goes on in its place or returns   *)
(* from it.                                                                *)
LEMMA CallUsers ==
  ASSUME LayerInv, LayerInv', Layered, Users, Turned, Ages, UNCHANGED services,
         NEW rest, CallSupplies(rest), \A sc, q : Unwinds(stack, sc, q) => Unwinds(rest, sc, q),
         ~Running("fire") \/ Top.todo = {} \/ FireNext
  PROVE  Users'
<1>1. \A sc, q : Unwinds(stack, sc, q) => Unwinds(stack', sc, q)
  BY DEF CallSupplies
<1>2. \A q \in RecIds : Live(q) => Supplies(q)
  BY DEF CallSupplies
<1>3. \A r \in RecIds : StaysActive(r) => \A p : Losing(r, p) => Losing(r, p)'
  <2>1. CASE FireNext
    <3>1. TypeOK'
      BY DEF LayerInv, TreeInv
    <3>. QED  BY <2>1, <3>1, FireLosing
  <2>2. CASE ~Running("fire") \/ Top.todo = {}
    BY <2>2, LosingHeeds
  <2>. QED  BY <2>1, <2>2
<1>. QED  BY <1>1, <1>2, <1>3, UsersCalls

(* Steps that leave the records and the calls below as they are.           *)
LEMMA PopUsers ==
  ASSUME LayerInv, LayerInv', Layered, Users, Turned, Ages,
         ArmToken \/ ApplyReturns \/ StopRelease \/ FireDone \/ CallbackReturns
  PROVE  Users'
<1>1. TypeOK /\ UNCHANGED services
  BY DEF LayerInv, TreeInv, ArmToken, ApplyReturns, StopRelease, FireDone, CallbackReturns
<1>2. PICK op \in {"arm", "apply", "stop", "fire", "callback"} :
        /\ Running(op)
        /\ op = "fire" => Top.todo = {}
        /\ stack' = Below \/ \E g : stack' = Resume(g)
  BY DEF ArmToken, ApplyReturns, StopRelease, FireDone, CallbackReturns
<1>3. \A sc, q : Unwinds(stack, sc, q) => Unwinds(stack', sc, q)
  <2>1. \A sc, q : /\ Unwinds(stack, sc, q) => Unwinds(Below, sc, q)
                   /\ \A g : Unwinds(Below, sc, q) => Unwinds(Resume(g), sc, q)
    BY <1>1, <1>2, UnwindsRunning
  <2>2. CASE stack' = Below
    BY <2>1, <2>2
  <2>3. CASE \E g : stack' = Resume(g)
    <3>1. PICK g : stack' = Resume(g)
      BY <2>3
    <3>2. \A sc, q : Unwinds(Below, sc, q) => Unwinds(Resume(g), sc, q)
      BY <2>1
    <3>. QED  BY <2>1, <3>1, <3>2
  <2>. QED  BY <1>2, <2>2, <2>3
<1>4. \A q \in RecIds : Live(q) => Supplies(q)
  <2>1. CASE ArmToken \/ ApplyReturns \/ StopRelease
    <3>1. PICK r : NoteShape(r)
      BY <1>1, <2>1, NoteShapes
    <3>. QED  BY <3>1 DEF NoteShape, Supplies
  <2>2. CASE FireDone \/ CallbackReturns
    BY <2>2 DEF FireDone, CallbackReturns, Supplies, Live
  <2>. QED  BY <2>1, <2>2
<1>5. PICK q : q = stack
  OBVIOUS
<1>6. CallSupplies(q)
  BY <1>3, <1>4, <1>5 DEF CallSupplies
<1>7. ~Running("fire") \/ Top.todo = {}
  BY <1>2 DEF Running
<1>. QED  BY <1>1, <1>5, <1>6, <1>7, CallUsers

(* Arming keeps Users ...                                                  *)
LEMMA ArmUsers ==
  ASSUME LayerInv, LayerInv', Layered, Users, Turned, Ages, ArmNext \/ ArmStarts
  PROVE  Users'
<1>1. TypeOK /\ TypeOK' /\ Running("arm") /\ ~Running("fire") /\ UNCHANGED services
  BY DEF ArmNext, ArmStarts, LayerInv, TreeInv, Running
<1>2. \A sc, q : /\ Unwinds(stack, sc, q) => Unwinds(Below, sc, q)
                 /\ \A g : Unwinds(Below, sc, q) => Unwinds(Resume(g), sc, q)
  BY <1>1, UnwindsRunning
<1>3. CASE ArmNext
  <2>1. PICK w \in Watcher, g \in Frame : CallWatcher(w, Available(w.svc), Resume(g))
    BY <1>1, <1>3, ArmNextParts
  <2>2. PICK q, v : q = Resume(g) /\ v = Available(w.svc)
    OBVIOUS
  <2>3. q \in Seq(Frame) /\ v \in BOOLEAN
    BY <1>1, <2>2, RestsRunning DEF Available
  <2>4. CallSupplies(q)
    BY <1>1, <2>1, <2>2, <2>3, WatcherSupplies
  <2>5. \A sc, x : Unwinds(stack, sc, x) => Unwinds(q, sc, x)
    BY <1>2, <2>2
  <2>. QED  BY <1>1, <2>4, <2>5, CallUsers
<1>4. CASE ArmStarts
  <2>1. PICK r, b : r = Top.rec /\ b = Below
    OBVIOUS
  <2>2. Live(r) /\ EnsureStarted(r, b)
    BY <1>4, <2>1 DEF ArmStarts
  <2>3. b \in Seq(Frame)
    BY <1>1, <2>1, RestsRunning
  <2>4. CallSupplies(b)
    BY <1>1, <2>2, <2>3, StartSupplies
  <2>5. \A sc, x : Unwinds(stack, sc, x) => Unwinds(b, sc, x)
    BY <1>2, <2>1
  <2>. QED  BY <1>1, <2>4, <2>5, CallUsers
<1>. QED  BY SMTT(40), <1>3, <1>4

(* ... so does a watcher ...                                               *)
LEMMA FireUsers ==
  ASSUME LayerInv, LayerInv', Layered, Users, Turned, Ages, FireNext
  PROVE  Users'
<1>1. TypeOK /\ TypeOK' /\ Running("fire") /\ UNCHANGED services
  BY DEF FireNext, LayerInv, TreeInv
<1>2. \A sc, q : /\ Unwinds(stack, sc, q) => Unwinds(Below, sc, q)
                 /\ \A g : Unwinds(Below, sc, q) => Unwinds(Resume(g), sc, q)
  BY <1>1, UnwindsRunning
<1>3. PICK w \in Watcher, g \in Frame : CallWatcher(w, Top.val, Resume(g))
  BY <1>1, FireNextParts
<1>4. PICK q, v : q = Resume(g) /\ v = Top.val
  OBVIOUS
<1>5. q \in Seq(Frame) /\ v \in BOOLEAN
  <2>1. Top \in Frame /\ q \in Seq(Frame)
    BY <1>1, <1>4, RestsRunning
  <2>. QED  BY <1>4, <2>1 DEF Frame
<1>6. CallSupplies(q)
  BY <1>1, <1>3, <1>4, <1>5, WatcherSupplies
<1>7. \A sc, x : Unwinds(stack, sc, x) => Unwinds(q, sc, x)
  BY <1>2, <1>4
<1>. QED  BY <1>1, <1>6, <1>7, CallUsers

(* ... loading and unloading by a plugin ...                               *)
LEMMA ApplyUsers ==
  ASSUME LayerInv, LayerInv', Layered, Users, Turned, Ages,
         NEW p \in Plugins, ApplyLoad(p) \/ ApplyEvict(p)
  PROVE  Users'
<1>1. TypeOK /\ TypeOK' /\ ListsRight /\ Applying /\ ~Running("fire") /\ UNCHANGED services
  BY Zenon DEF ApplyLoad, ApplyEvict, LayerInv, TreeInv, Applying, Running, AddRecord, Unload
<1>2. stack \in Seq(Frame)
  BY <1>1 DEF TypeOK
<1>3. PICK q \in Seq(Frame) : q = stack
  BY <1>2
<1>4. CallSupplies(q)
  <2>1. CASE ApplyLoad(p)
    <3>1. PICK sc : sc = Top.scope /\ Exists(sc) /\ AddRecord(sc, p, q)
      BY <1>3, <2>1 DEF ApplyLoad, Applying
    <3>. QED  BY <1>1, <3>1, AddSupplies
  <2>2. CASE ApplyEvict(p)
    <3>1. PICK sc : sc = recs[Top.rec].host /\ Exists(sc) /\ Unload(sc, p, q)
      BY <1>3, <2>2 DEF ApplyEvict
    <3>. QED  BY <1>1, <3>1, UnloadSupplies
  <2>. QED  BY <2>1, <2>2
<1>. QED  BY SMTT(40), <1>1, <1>3, <1>4, CallUsers

(* ... or by a host's watcher ...                                          *)
LEMMA CallbackUsers ==
  ASSUME LayerInv, LayerInv', Layered, Users, Turned, Ages,
         NEW p \in Plugins, CallbackLoads(p) \/ CallbackUnloads(p)
  PROVE  Users'
<1>1. TypeOK /\ TypeOK' /\ ListsRight /\ Running("callback") /\ ~Running("fire") /\ Exists(Root)
      /\ UNCHANGED services
  BY DEF CallbackLoads, CallbackUnloads, LayerInv, TreeInv, Running, AddRecord, Unload
<1>2. PICK b : b = Below
  OBVIOUS
<1>3. b \in Seq(Frame)
  BY <1>1, <1>2, RestsRunning
<1>4. AddRecord(Root, p, b) \/ Unload(Root, p, b)
  BY <1>2 DEF CallbackLoads, CallbackUnloads
<1>5. CallSupplies(b)
  BY <1>1, <1>3, <1>4, AddSupplies, UnloadSupplies
<1>6. \A sc, x : Unwinds(stack, sc, x) => Unwinds(b, sc, x)
  BY <1>1, <1>2, UnwindsRunning
<1>. QED  BY <1>1, <1>5, <1>6, CallUsers

(* ... a failing plugin or a dying scope that stops a record ...           *)
LEMMA StoppingUsers ==
  ASSUME LayerInv, LayerInv', Layered, Users, Turned, Ages, ApplyThrows \/ DtorStop
  PROVE  Users'
<1>1. TypeOK /\ ListsRight /\ ~Running("fire") /\ UNCHANGED services
  BY DEF ApplyThrows, DtorStop, LayerInv, TreeInv, Running
<1>2. CASE ApplyThrows
  <2>1. PICK r, b : r = Top.rec /\ b = Below
    OBVIOUS
  <2>2. Live(r) /\ StopRecord(r, "Failed", b) /\ Running("apply")
    BY <1>2, <2>1 DEF ApplyThrows
  <2>3. b \in Seq(Frame)
    BY <1>1, <2>1, <2>2, RestsRunning
  <2>4. CallSupplies(b)
    BY <1>1, <2>2, <2>3, StopSupplies
  <2>5. \A sc, x : Unwinds(stack, sc, x) => Unwinds(b, sc, x)
    BY <1>1, <2>1, <2>2, UnwindsRunning
  <2>. QED  BY <1>1, <2>4, <2>5, CallUsers
<1>3. CASE DtorStop
  <2>1. PICK r : r = scopes[Top.scope].records[Top.ix]
    OBVIOUS
  <2>2. PICK g : g = [Top EXCEPT !.val = TRUE]
    OBVIOUS
  <2>3. Running("dtor") /\ Top \in Frame /\ Top.op = "dtor"
    BY <1>1, <1>3, RestsRunning DEF DtorStop
  <2>4. g \in Frame /\ g.op = "dtor" /\ g.scope = Top.scope
    BY <2>2, <2>3 DEF Frame
  <2>5. PICK q : q = Resume(g)
    OBVIOUS
  <2>6. Live(r) /\ StopRecord(r, "Disposed", q)
    BY <1>3, <2>1, <2>2, <2>5 DEF DtorStop
  <2>7. q \in Seq(Frame)
    BY <1>1, <2>3, <2>4, <2>5, RestsRunning
  <2>8. CallSupplies(q)
    BY <1>1, <2>6, <2>7, StopSupplies
  <2>9. \A sc, x : Unwinds(stack, sc, x) => Unwinds(q, sc, x)
    BY <1>1, <2>3, <2>4, <2>5, UnwindsRunning
  <2>. QED  BY <1>1, <2>8, <2>9, CallUsers
<1>. QED  BY <1>2, <1>3

(* ... and what the host calls.                                            *)
LEMMA HostUsers ==
  ASSUME LayerInv, LayerInv', Layered, Users, Turned, Ages, HostCalls
  PROVE  Users'
<1>1. TypeOK /\ TypeOK' /\ ListsRight /\ stack = <<>> /\ Exists(Root) /\ <<>> \in Seq(Frame)
      /\ ~Running("fire")
  BY NobodyWaits DEF HostCalls, HostLoad, HostUnload, HostProvide, HostDestroy, Idle, LayerInv, TreeInv,
                     Running
<1>2. \A sc, q, rest : Unwinds(stack, sc, q) => Unwinds(rest, sc, q)
  BY <1>1 DEF Unwinds
<1>3. CASE \E p \in Plugins : HostLoad(p)
  <2>1. PICK p \in Plugins : AddRecord(Root, p, <<>>)
    BY <1>3 DEF HostLoad
  <2>2. CallSupplies(<<>>) /\ UNCHANGED services
    BY <1>1, <2>1, AddSupplies DEF AddRecord
  <2>. QED  BY <1>1, <1>2, <2>2, CallUsers
<1>4. CASE \E p \in HostUnloads : HostUnload(p)
  <2>1. PICK p : Unload(Root, p, <<>>)
    BY <1>4 DEF HostUnload
  <2>2. CallSupplies(<<>>) /\ UNCHANGED services
    BY <1>1, <2>1, UnloadSupplies DEF Unload
  <2>. QED  BY <1>1, <1>2, <2>2, CallUsers
<1>5. CASE \E s \in Services : HostProvide(s)
  <2>1. PICK s \in Services : ProvideService(s, Root, <<>>)
    BY <1>5 DEF HostProvide
  <2>. QED  BY <1>1, <1>2, <2>1, ProvideUsers
<1>6. CASE HostDestroy
  <2>1. UNCHANGED <<services, recs>>
    BY <1>6 DEF HostDestroy
  <2>2. CallSupplies(<<>>)
    <3>1. \A sc, q : ~Unwinds(<<>>, sc, q)
      BY <1>1 DEF Unwinds
    <3>. QED  BY <2>1, <3>1 DEF CallSupplies, Supplies, Live
  <2>. QED  BY <1>1, <1>2, <2>1, <2>2, CallUsers
<1>. QED  BY <1>3, <1>4, <1>5, <1>6 DEF HostCalls

(* Letting the dynamic plugins go keeps Users: nobody uses them any more   *)
(* ...                                                                     *)
LEMMA DtorReleaseUsers ==
  ASSUME LayerInv, LayerInv', Layered, Users, Turned, Ages, Instances, DtorRelease
  PROVE  Users'
<1>1. /\ Running("dtor") /\ Exists(Top.scope) /\ TypeOK /\ ListsRight /\ Layers /\ Top.val
      /\ Top.ix \in DOMAIN scopes[Top.scope].records
  BY Zenon DEF DtorRelease, LayerInv, TreeInv
<1>2. PICK r : r = scopes[Top.scope].records[Top.ix]
  BY SMTT(40)
<1>3. Live(r) /\ recs[r] \in LoadRecord /\ r \in RecIds /\ recs \in [RecIds -> LoadRecord \cup {NoRec}]
  BY Zenon, <1>1, <1>2, LiveRecord DEF DtorRelease, TypeOK, Live
<1>4. PICK rec : rec = [recs[r] EXCEPT !.lib = FALSE, !.tokens = {}]
  OBVIOUS
<1>5. rec.state = recs[r].state
  BY SMTT(40), <1>3, <1>4 DEF LoadRecord
<1>6. recs' = [recs EXCEPT ![r] = rec] /\ UNCHANGED services /\ stack' = Resume(Earlier(Top))
  BY Zenon, <1>2, <1>3, <1>4 DEF DtorRelease
<1>7. /\ recs'[r] = rec /\ \A q \in RecIds \ {r} : recs'[q] = recs[q]
  BY <1>3, <1>6
<1>8. /\ Top \in Frame /\ Top \in RightFrames /\ Top.op = "dtor"
      /\ \A j \in DOMAIN Below : Within(Top, Over(Below[j]))
  BY <1>1, RunningLayers, TeardownTop
<1>9. recs[r].scope = NoScope
  <2>1. Quiet(r)
    <3>1. Top.ix \in Nat
      BY <1>8 DEF Frame
    <3>. QED  BY <1>1, <1>2, <1>8, <3>1 DEF RightFrames, TeardownRight
  <2>2. Placed(r)
    BY <1>1, <1>3 DEF Layers
  <2>. QED  BY <2>1, <2>2 DEF Placed, Quiet
<1>10. \A j \in DOMAIN Below : Of(r, Over(Below[j]))
  <2>1. r \in ToSet(scopes[Top.scope].records)
    BY <1>1, <1>2 DEF ToSet
  <2>. QED  BY <1>8, <2>1 DEF Within
<1>11. \A sc, q : Unwinds(stack, sc, q) => Unwinds(stack', sc, q)
  <2>1. PICK g : g = Earlier(Top)
    OBVIOUS
  <2>2. g.op \in {"dtor", "revoke"} /\ g.scope = Top.scope
    BY <1>8, <2>1 DEF Earlier, Frame
  <2>3. \A sc, q : Unwinds(stack, sc, q) => Unwinds(Resume(g), sc, q)
    BY <1>1, <2>2, UnwindsRunning
  <2>. QED  BY <1>6, <2>1, <2>3
<1>12. \A q \in RecIds : Live(q) /\ Live(q)' => recs'[q].state = recs[q].state
  BY <1>5, <1>7
<1>. DEFINE X == {r}
<1>13. /\ X \in SUBSET RecIds /\ \A q \in RecIds \ X : recs'[q] = recs[q]
       /\ \A x \in X : Live(x) /\ recs[x].scope = NoScope
       /\ \A x \in X : \A j \in DOMAIN Below : Of(x, Over(Below[j]))
  BY <1>3, <1>7, <1>9, <1>10
<1>. HIDE DEF X
<1>14. UNCHANGED services
  BY <1>6
<1>. QED  BY <1>1, <1>11, <1>12, <1>13, <1>14, DropUsers

(* ... nor the records that the destructor drops ...                       *)
LEMMA DtorClearUsers ==
  ASSUME LayerInv, LayerInv', Layered, Users, Turned, Ages, Instances, DtorClear
  PROVE  Users'
<1>1. /\ Running("dtor") /\ Exists(Top.scope) /\ Top.ix = 0 /\ TypeOK /\ ListsRight
      /\ UNCHANGED services /\ recs \in [RecIds -> LoadRecord \cup {NoRec}]
  BY DEF DtorClear, LayerInv, TreeInv, TypeOK
<1>2. PICK X : X = ToSet(scopes[Top.scope].records)
  OBVIOUS
<1>3. /\ Top.scope \in ScopeIds
      /\ \A x \in X : recs[x].scope = NoScope
      /\ \A j \in DOMAIN Below : Within(Top, Over(Below[j]))
      /\ Top.op = "dtor"
  BY <1>1, <1>2, TeardownTop, RunningLayers
<1>4. \A x \in X : Live(x)
  BY <1>1, <1>2, <1>3, ListedKnown
<1>5. X \in SUBSET RecIds
  BY <1>4 DEF Live
<1>6. \A q \in RecIds : recs'[q] = IF q \in X THEN NoRec ELSE recs[q]
  BY <1>1, <1>2 DEF DtorClear
<1>7. \A q \in RecIds \ X : recs'[q] = recs[q]
  BY <1>6
<1>8. \A q \in RecIds : Live(q) /\ Live(q)' => recs'[q].state = recs[q].state
  BY <1>6 DEF Live
<1>9. \A x \in X : \A j \in DOMAIN Below : Of(x, Over(Below[j]))
  BY <1>2, <1>3 DEF Within
<1>10. \A sc, q : Unwinds(stack, sc, q) => Unwinds(stack', sc, q)
  <2>1. PICK g : g = [Call("revoke", NoRec, Top.scope) EXCEPT !.ix = Len(scopes[Top.scope].provided)]
    OBVIOUS
  <2>2. g.op \in {"dtor", "revoke"} /\ g.scope = Top.scope
    BY <2>1 DEF Call
  <2>3. \A sc, q : Unwinds(stack, sc, q) => Unwinds(Resume(g), sc, q)
    BY <1>1, <2>2, UnwindsRunning
  <2>4. stack' = Resume(g)
    BY <2>1 DEF DtorClear
  <2>. QED  BY <2>3, <2>4
<1>. QED  BY <1>1, <1>3, <1>4, <1>5, <1>7, <1>8, <1>9, <1>10, DropUsers

(* ... nor the record that unload() erases.                                *)
LEMMA EraseUsers ==
  ASSUME LayerInv, LayerInv', Layered, Users, Turned, Ages, Instances, Erase
  PROVE  Users'
<1>1. /\ TypeOK /\ ListsRight /\ Layers /\ Running("erase") /\ Live(Top.rec) /\ UNCHANGED services
      /\ recs \in [RecIds -> LoadRecord \cup {NoRec}]
      /\ recs' = [recs EXCEPT ![Top.rec] = NoRec]
      /\ stack' = Invalidate(Below, Top.scope, Top.ix)
  BY DEF LayerInv, TreeInv, Erase, TypeOK
<1>2. /\ Top \in RightFrames /\ Top \in Frame /\ Top.op = "erase" /\ Below \in Seq(Frame)
      /\ \A j \in DOMAIN Below : Apart(Top, Below[j])
  BY <1>1, RunningLayers
<1>3. PICK r : r = Top.rec
  OBVIOUS
<1>4. r \in RecIds /\ Live(r) /\ recs'[r] = NoRec /\ \A q \in RecIds \ {r} : recs'[q] = recs[q]
  BY <1>1, <1>3 DEF Live
<1>5. recs[r].scope = NoScope
  <2>1. Quiet(r)
    BY <1>1, <1>2, <1>3 DEF RightFrames, EraseRight
  <2>2. Placed(r)
    BY <1>1, <1>4 DEF Layers
  <2>. QED  BY <2>1, <2>2 DEF Placed, Quiet
<1>6. \A j \in DOMAIN Below : Of(r, Over(Below[j]))
  BY <1>2, <1>3 DEF Apart, Arming, Within
<1>7. \A sc, q : Unwinds(stack, sc, q) => Unwinds(stack', sc, q)
  <2>1. PICK s, n, b : s = Top.scope /\ n = Top.ix /\ b = Below
    OBVIOUS
  <2>2. n \in Nat /\ b \in Seq(Frame)
    BY <1>2, <2>1 DEF Frame
  <2>3. \A sc, q : Unwinds(b, sc, q) => Unwinds(Invalidate(b, s, n), sc, q)
    BY <2>2, UnwindsMarked
  <2>4. \A sc, q : Unwinds(stack, sc, q) => Unwinds(b, sc, q)
    BY <1>1, <2>1, UnwindsRunning
  <2>. QED  BY <1>1, <2>1, <2>3, <2>4
<1>8. \A q \in RecIds : Live(q) /\ Live(q)' => recs'[q].state = recs[q].state
  BY <1>4 DEF Live
<1>. DEFINE X == {r}
<1>9. /\ X \in SUBSET RecIds /\ \A q \in RecIds \ X : recs'[q] = recs[q]
      /\ \A x \in X : Live(x) /\ recs[x].scope = NoScope
      /\ \A x \in X : \A j \in DOMAIN Below : Of(x, Over(Below[j]))
  BY <1>4, <1>5, <1>6
<1>. HIDE DEF X
<1>. QED  BY <1>1, <1>7, <1>8, <1>9, DropUsers

(* A destructor that has nothing left to revoke supplies nobody.           *)
LEMMA RevokeDoneUsers ==
  ASSUME LayerInv, LayerInv', Layered, Users, Turned, Ages, RevokeDone
  PROVE  Users'
<1>1. /\ TypeOK /\ Running("revoke") /\ ~Running("fire") /\ Owned /\ Top.ix = 0
      /\ UNCHANGED <<services, recs>> /\ stack' = Below
  BY DEF LayerInv, TreeInv, RevokeDone, Running
<1>2. \A s \in Services : services[s] # NoScope => services[s] # Top.scope
  <2>1. stack = <<Top>> \o Below /\ Top \in Frame /\ Top.op = "revoke" /\ Below \in Seq(Frame)
    BY <1>1, RunningStack
  <2>2. <<Top.scope, Top.ix>> \in Revokes(stack)
    <3>1. 1 \in DOMAIN stack /\ stack[1] = Top
      BY <2>1
    <3>. QED  BY <2>1, <3>1 DEF Revokes
  <2>. QED  BY <1>1, <2>2 DEF Owned
<1>3. \A sc, q : Unwinds(stack, sc, q) => Unwinds(stack', sc, q) \/ sc = Top.scope
  BY <1>1, UnwindsRunning
<1>4. \A q \in RecIds : Live(q) => Supplies(q)
  BY <1>1 DEF Supplies, Live
<1>5. ASSUME NEW r \in RecIds, Live(r), Live(r)', HostIsAlive(r), NEW p \in recs[r].uses
      PROVE  UseKept(r, p)
  <2>1. UseRight(r, p)
    BY <1>5 DEF Users
  <2>2. Holder(p)'
    BY <1>1, <2>1 DEF UseRight, Holder, Live
  <2>3. ASSUME Supplied(r, p) PROVE Supplied(r, p)'
    <3>1. PICK t \in Services, q \in RecIds : Supplier(r, p, t, q)
      BY <2>3 DEF Supplied
    <3>2. Supplies(q) /\ services'[t] = services[t] /\ services[t] # Top.scope
      BY <1>1, <1>2, <1>4, <3>1 DEF Supplier
    <3>3. Unwinds(stack, services[t], q) => Unwinds(stack', services[t], q)
      BY <1>3, <3>2
    <3>. QED  BY <1>1, <3>1, <3>2, <3>3, SupplierKept
  <2>4. Losing(r, p) => Losing(r, p)'
    BY <1>1, LosingHeeds
  <2>. QED  BY <2>1, <2>2, <2>3, <2>4 DEF UseKept, UseRight, StaysActive
<1>6. \A q \in RecIds : Live(q) /\ Live(q)' => recs'[q].state = recs[q].state
  BY <1>1
<1>. QED  BY <1>5, <1>6, SettledUsers

(* Everyone whom a service supplied is told that it is gone.               *)
LEMMA RevokeNextUsers ==
  ASSUME LayerInv, LayerInv', Layered, SentinelInv, Users, Turned, Ages, RevokeNext
  PROVE  Users'
<1>1. TypeOK /\ (\A w \in watchers : HeardRight(w)) /\ Running("revoke") /\ ~Running("fire")
      /\ UNCHANGED <<watchers, recs, scopes>> /\ Exists(Top.scope)
      /\ services \in [Services -> ScopeIds \cup {NoScope}]
  BY Zenon DEF LayerInv, TreeInv, Layers, TypeOK, RevokeNext, Running
<1>2. PICK s : s = scopes[Top.scope].provided[Top.ix]
  OBVIOUS
<1>3. s \in Services
  <2>1. scopes[Top.scope].provided \in Seq(Services)
    BY <1>1, ExistingScope DEF Scope
  <2>. QED  BY <1>2, <2>1 DEF RevokeNext
<1>4. RevokeEntry(s, Top.scope)
  BY <1>2 DEF RevokeNext
<1>5. \A t \in Services : services'[t] = services[t] \/ (t = s /\ services[s] = Top.scope)
  <2>1. CASE services[s] # Top.scope
    BY <1>4, <2>1 DEF RevokeEntry, Disappears
  <2>2. CASE services[s] = Top.scope
    <3>1. services' = [services EXCEPT ![s] = NoScope]
      BY <1>4, <2>2 DEF RevokeEntry, Disappears
    <3>. QED  BY <1>1, <2>2, <3>1
  <2>. QED  BY <2>1, <2>2
<1>6. PICK x \in Frame : x = FireWatchers(FALSE, Snapshot(s)) /\ x.op = "fire" /\ x.val = FALSE /\ x.todo = Snapshot(s)
  BY <1>1, <1>3, FireFrame
<1>7. PICK g : g = Earlier(Top)
  OBVIOUS
<1>8. PICK S : S = Frame \cup {g}
  OBVIOUS
<1>9. Resume(g) \in Seq(S) /\ x \in S
  <2>1. Below \in Seq(S) /\ g \in S
    BY <1>1, <1>8, RestsRunning, LargerSeq
  <2>. QED  BY <1>6, <1>8, <2>1, PushType DEF Resume
<1>10. IF services[s] = Top.scope THEN stack' = <<x>> \o Resume(g) ELSE stack' = Resume(g)
  <2>1. CASE services[s] = Top.scope
    BY <1>2, <1>6, <1>7, <2>1 DEF RevokeNext, Disappears
  <2>2. CASE services[s] # Top.scope
    <3>1. stack' = <<>> \o Resume(g)
      BY <1>2, <1>7, <2>2 DEF RevokeNext, Disappears
    <3>. QED  BY SMTT(40), <1>9, <2>2, <3>1
  <2>. QED  BY SMTT(40), <2>1, <2>2
<1>11. \A sc, q : Unwinds(stack, sc, q) => Unwinds(stack', sc, q)
  <2>1. g.op \in {"dtor", "revoke"} /\ g.scope = Top.scope
    <3>1. Top \in Frame /\ Top.op = "revoke"
      BY <1>1, RestsRunning
    <3>. QED  BY <1>7, <3>1 DEF Earlier, Frame
  <2>2. \A sc, q : Unwinds(stack, sc, q) => Unwinds(Resume(g), sc, q)
    BY <1>1, <2>1, UnwindsRunning
  <2>3. \A sc, q : Unwinds(Resume(g), sc, q) => Unwinds(<<x>> \o Resume(g), sc, q)
    BY <1>9, UnwindsPushed
  <2>. QED  BY <1>10, <2>2, <2>3
<1>12. \A q \in RecIds : Live(q) => Supplies(q)
  BY <1>1 DEF Supplies, Live
<1>13. ASSUME NEW r \in RecIds, Live(r), HostIsAlive(r), s \in Required(r), services[s] = Top.scope,
              NEW p, Provider(p, s)
       PROVE  Losing(r, p)'
  <2>1. recs[r].plugin \in Plugins
    BY <1>1, <1>13, RecordPlugin
  <2>2. recs[r].plugin \in Hears(s)
    BY <1>13, <2>1 DEF Hears, Required
  <2>3. ~Waiting("arm", r)
    <3>1. SUFFICES ASSUME Waiting("arm", r) PROVE FALSE
      OBVIOUS
    <3>2. PICK f \in Rests(Below) : f.op = "arm" /\ f.rec = r
      <4>1. \A f \in Rests(stack) : f = Top \/ f \in Rests(Below)
        BY <1>1, RestsRunning
      <4>. QED  BY <1>1, <3>1, <4>1 DEF Waiting, Running
    <3>3. PICK j \in DOMAIN Below : f = Below[j]
      BY <3>2 DEF Rests
    <3>4. Hears(s) \subseteq Over(f)
      BY <1>1, <1>3, <1>13, <3>3, BelowApart
    <3>. QED  BY <1>1, <1>13, <2>2, <3>2, <3>4, NotOver
  <2>4. PICK w \in watchers : w.rec = r /\ w.svc = s
    BY <1>13, <2>3, SentinelThere
  <2>5. Warns(x, r, p)
    BY <1>6, <1>13, <2>4 DEF Warns, Snapshot
  <2>6. x \in Rests(stack')
    BY <1>6, <1>9, <1>10, <1>13, RestsPushed
  <2>. QED  BY <2>5, <2>6 DEF Losing
<1>14. ASSUME NEW r \in RecIds, Live(r), Live(r)', HostIsAlive(r), NEW p \in recs[r].uses
       PROVE  UseKept(r, p)
  <2>1. UseRight(r, p)
    BY <1>14 DEF Users
  <2>2. Holder(p)'
    BY <1>1, <2>1 DEF UseRight, Holder, Live
  <2>3. ASSUME Supplied(r, p) PROVE Supplied(r, p)' \/ Losing(r, p)'
    <3>1. PICK t \in Services, q \in RecIds : Supplier(r, p, t, q)
      BY <2>3 DEF Supplied
    <3>2. CASE services'[t] = services[t]
      <4>1. Supplies(q)
        BY <1>12, <3>1 DEF Supplier
      <4>2. Unwinds(stack, services[t], q) => Unwinds(stack', services[t], q)
        BY <1>11
      <4>. QED  BY <1>1, <3>1, <3>2, <4>1, <4>2, SupplierKept
    <3>3. CASE t = s /\ services[s] = Top.scope
      BY <1>13, <1>14, <3>1, <3>3 DEF Supplier
    <3>. QED  BY <1>5, <3>2, <3>3
  <2>4. Losing(r, p) => Losing(r, p)'
    BY <1>1, LosingHeeds
  <2>. QED  BY <2>1, <2>2, <2>3, <2>4 DEF UseKept, UseRight, StaysActive
<1>15. \A q \in RecIds : Live(q) /\ Live(q)' => recs'[q].state = recs[q].state
  BY <1>1
<1>. QED  BY SMTT(40), <1>14, <1>15, SettledUsers

(* Every step keeps Users.                                                 *)
LEMMA UsersStep ==
  ASSUME LayerInv, LayerInv', Layered, SentinelInv, Instances, Users, [Next]_vars
  PROVE  Users'
<1>1. TypeOK /\ TypeOK'
  BY DEF LayerInv, TreeInv
<1>2. Turned /\ Ages
  BY <1>1, StepTurned, StepAges
<1>3. CASE UNCHANGED vars
  <2>1. PICK q : q = stack
    OBVIOUS
  <2>2. CallSupplies(q)
    BY <1>3, <2>1 DEF vars, CallSupplies, Supplies, Live
  <2>3. \A r, p : Losing(r, p) => Losing(r, p)'
    BY <1>3 DEF vars, Losing
  <2>4. \A y \in RecIds : Live(y) => Supplies(y)
    BY <2>2 DEF CallSupplies
  <2>5. \A sc, y : Unwinds(stack, sc, y) => Unwinds(stack', sc, y)
    BY <1>3 DEF vars
  <2>. QED  BY <1>2, <1>3, <2>3, <2>4, <2>5, UsersCalls DEF vars
<1>4. CASE HostCalls
  BY <1>2, <1>4, HostUsers
<1>5. CASE ThreadSteps
  <2>1. CASE \E s \in Services : ApplyProvide(s)
    <3>1. PICK s \in Services, sc \in ScopeIds :
            /\ ProvideService(s, sc, stack) /\ Exists(sc) /\ ~Running("fire")
      BY <2>1 DEF ApplyProvide, Applying, Exists, Running
    <3>2. PICK q : q = stack
      OBVIOUS
    <3>3. q \in Seq(Frame) /\ ProvideService(s, sc, q)
      BY <1>1, <3>1, <3>2 DEF TypeOK
    <3>. QED  BY <1>2, <3>1, <3>2, <3>3, ProvideUsers
  <2>2. CASE RevokeNext
    BY <1>2, <2>2, RevokeNextUsers
  <2>3. CASE ArmNext \/ ArmStarts
    BY <1>2, <2>3, ArmUsers
  <2>4. CASE FireNext
    BY <1>2, <2>4, FireUsers
  <2>5. CASE \E p \in Plugins : ApplyLoad(p) \/ ApplyEvict(p)
    BY <1>2, <2>5, ApplyUsers
  <2>6. CASE \E p \in Plugins : CallbackLoads(p) \/ CallbackUnloads(p)
    BY <1>2, <2>6, CallbackUsers
  <2>7. CASE ArmToken \/ ApplyReturns \/ StopRelease \/ FireDone \/ CallbackReturns
    BY <1>2, <2>7, PopUsers
  <2>8. CASE ApplyThrows \/ DtorStop
    BY <1>2, <2>8, StoppingUsers
  <2>9. CASE DtorRelease
    BY <1>2, <2>9, DtorReleaseUsers
  <2>10. CASE DtorClear
    BY <1>2, <2>10, DtorClearUsers
  <2>11. CASE Erase
    BY <1>2, <2>11, EraseUsers
  <2>12. CASE RevokeDone
    BY <1>2, <2>12, RevokeDoneUsers
  <2>. QED  BY <1>5, <2>1, <2>2, <2>3, <2>4, <2>5, <2>6, <2>7, <2>8, <2>9, <2>10, <2>11, <2>12 DEF ThreadSteps
<1>. QED  BY <1>3, <1>4, <1>5 DEF Next, Terminated

(* A record that uses a plugin finds its library mapped.                   *)
LEMMA UsersSame == Users => ResidentWhileUsed
BY DEF Users, UseRight, Holder, ResidentWhileUsed, Resident, Records, Live

(* ResidentWhileUsed for every layered product: the library of a dynamic   *)
(* plugin is not unmapped by Context.cpp while a record that holds one of  *)
(* its services may still call it.                                         *)
THEOREM ServicesOutliveUse == Layered => (Spec => []ResidentWhileUsed)
<1>1. Init => Users /\ Instances
  BY DEF Init, Users, Instances, Live
<1>2. Layered /\ LayerInv /\ LayerInv' /\ SentinelInv /\ Instances /\ Users /\ [Next]_vars => Users'
  BY UsersStep
<1>3. Layered /\ LayerInv /\ LayerInv' /\ Instances /\ [Next]_vars => Instances'
  <2>1. LayerInv' => TypeOK'
    BY DEF LayerInv, TreeInv
  <2>. QED  BY <2>1, StepTurned, InstancesStep
<1>4. Init => SentinelInv
  BY InitSentinels
<1>5. TreeInv /\ SentinelInv /\ [Next]_vars => SentinelInv'
  BY StepSentinels
<1>6. LayerInv => TreeInv
  BY DEF LayerInv
<1>7. CASE Layered
  BY <1>1, <1>2, <1>3, <1>4, <1>5, <1>6, <1>7, LayersHold, UsersSame, PTL DEF Spec
<1>. QED  BY <1>7
=============================================================================
