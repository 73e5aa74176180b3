--------------------------- MODULE ContextProofs ---------------------------
(***************************************************************************)
(* What holds of a Context tree for every set of plugins, services and     *)
(* addresses, every nesting of calls and every answer a plugin gives.      *)
(*                                                                         *)
(* TypeOK is inductive as it stands. Its proof follows the code: a lemma   *)
(* for every call that several actions make (addRecord, ensureStarted,     *)
(* stopRecord, a watcher, unload, provide), which says that the call       *)
(* leaves well-typed records, scopes and suspended calls; then a lemma for *)
(* each group of actions, each of which is such a call or the continuation *)
(* of one.                                                                 *)
(*                                                                         *)
(* The other theorems rest on TreeInv, which adds to TypeOK what the code  *)
(* relies on when calls nest: a scope lists its records and nobody else's, *)
(* each once; every suspended call still points at what it will go on      *)
(* with; and a scope is torn down only above the calls that work in it, so *)
(* that nothing is added to it while its destructor waits. From it follow  *)
(* that a service never outlives its provider (ServicesOwned), that the    *)
(* code of a dynamic plugin stays mapped until its scope goes              *)
(* (CodeStaysMapped), and that the records of the root scope implement     *)
(* PluginRecords (RecordsAsPromised).                                      *)
(*                                                                         *)
(* SentinelInv, on top of it, follows each dependency sentinel from        *)
(* watch() to unwatch(): its token is in the hands of the call that arms   *)
(* the record, then of the record, and the record has as many as its loop  *)
(* has passed, unless a destructor has cancelled them (SentinelsExact).    *)
(***************************************************************************)
EXTENDS Context, CollectionLemmas, SequenceTheorems, TLAPS

USE DEF TypeOK

(* A call that is entered is pushed on the stack ...                       *)
LEMMA PushType ==
  ASSUME NEW S, NEW q \in Seq(S), NEW x \in S
  PROVE  <<x>> \o q \in Seq(S)
OBVIOUS

(* ... and one that returns leaves the calls that waited for it.           *)
LEMMA PopType ==
  ASSUME NEW S, NEW q \in Seq(S), q # <<>>
  PROVE  Head(q) \in S /\ Tail(q) \in Seq(S)
OBVIOUS

(* A new frame is well typed.                                              *)
LEMMA CallType ==
  ASSUME NEW op \in Ops, NEW r \in RecIds \cup {NoRec}, NEW sc \in ScopeIds \cup {NoScope}
  PROVE  Call(op, r, sc) \in Frame
BY DEF Call, Frame

(* So is the frame of a fireWatchers() loop over any set of watchers.      *)
LEMMA FireType ==
  ASSUME NEW v \in BOOLEAN, NEW ws \in SUBSET Watcher
  PROVE  FireWatchers(v, ws) \in Frame
<1>1. Call("fire", NoRec, NoScope) \in Frame
  BY CallType DEF Ops
<1> QED BY <1>1 DEF FireWatchers, Frame

(* Marking iterators invalid changes no type.                              *)
LEMMA InvalidateType ==
  ASSUME NEW q \in Seq(Frame), NEW sc, NEW n
  PROVE  Invalidate(q, sc, n) \in Seq(Frame)
<1>1. ASSUME NEW i \in 1..Len(q) PROVE [q[i] EXCEPT !.val = TRUE] \in Frame
  <2>1. q[i] \in Frame
    OBVIOUS
  <2> QED BY <2>1 DEF Frame
<1> QED BY <1>1 DEF Invalidate

(* A pointer that is not dangling leads to a record.                       *)
LEMMA LiveRecord ==
  ASSUME TypeOK, NEW r, Live(r)
  PROVE  r \in RecIds /\ recs[r] \in LoadRecord
BY DEF Live

(* An address at which a Context exists leads to one.                      *)
LEMMA ExistingScope ==
  ASSUME TypeOK, NEW sc, Exists(sc)
  PROVE  sc \in ScopeIds /\ scopes[sc] \in Scope
BY DEF Exists

(* The part of TypeOK that a call changes.                                 *)
TreeTypeOK ==
  /\ recs \in [RecIds -> LoadRecord \cup {NoRec}]
  /\ scopes \in [ScopeIds -> Scope \cup {Gone}]
  /\ stack \in Seq(Frame)

(* Returning at once changes nothing but the stack.                        *)
LEMMA ReturnType ==
  ASSUME TypeOK, NEW rest \in Seq(Frame), Return(rest)
  PROVE  TreeTypeOK'
BY DEF Return, TreeTypeOK

(* stopRecord() leaves a well-typed tree, whether or not there is a scope  *)
(* to destroy.                                                             *)
LEMMA StopRecordType ==
  ASSUME TypeOK, NEW r, Live(r), NEW target \in States, NEW rest \in Seq(Frame),
         StopRecord(r, target, rest)
  PROVE  TreeTypeOK'
<1>1. r \in RecIds /\ recs[r] \in LoadRecord
  BY LiveRecord
<1>2. CASE ~MustStop(r)
  BY <1>2, ReturnType DEF StopRecord
<1>3. CASE MustStop(r)
  <2> DEFINE sc == recs[r].scope
             stopped == Stopped(r, target)
             destroy == [Call("dtor", NoRec, sc) EXCEPT !.ix = Len(scopes[sc].records)]
  <2>1. stopped \in LoadRecord
    BY <1>1 DEF Stopped, LoadRecord
  <2>2. recs' \in [RecIds -> LoadRecord \cup {NoRec}]
    BY <1>1, <1>3, <2>1 DEF StopRecord
  <2>3. Call("stop", r, NoScope) \in Frame
    BY <1>1, CallType DEF Ops
  <2>4. <<Call("stop", r, NoScope)>> \o rest \in Seq(Frame)
    BY <2>3, PushType
  <2>5. CASE sc = NoScope
    BY <1>3, <2>2, <2>4, <2>5 DEF StopRecord, TreeTypeOK
  <2>6. CASE sc # NoScope
    <3>1. Exists(sc)
      BY <1>3, <2>6 DEF StopRecord
    <3>2. sc \in ScopeIds /\ scopes[sc] \in Scope
      BY <3>1, ExistingScope
    <3>3. [scopes[sc] EXCEPT !.alive = FALSE] \in Scope
      BY <3>2 DEF Scope
    <3>4. scopes' \in [ScopeIds -> Scope \cup {Gone}]
      BY <1>3, <2>6, <3>2, <3>3 DEF StopRecord
    <3>5. Len(scopes[sc].records) \in Nat
      BY <3>2 DEF Scope
    <3>6. Call("dtor", NoRec, sc) \in Frame
      BY <3>2, CallType DEF Ops
    <3>7. destroy \in Frame
      BY <3>5, <3>6 DEF Frame
    <3>8. <<destroy, Call("stop", r, NoScope)>> \o rest \in Seq(Frame)
      BY <2>3, <3>7
    <3> QED BY <1>3, <2>2, <2>6, <3>4, <3>8 DEF StopRecord, TreeTypeOK
  <2> QED BY <2>5, <2>6
<1> QED BY <1>2, <1>3

(* What inject() hands out belongs to plugins.                             *)
LEMMA InjectedType ==
  ASSUME TypeOK, NEW r
  PROVE  Injected(r) \in SUBSET Plugins
<1> SUFFICES ASSUME NEW q \in RecIds, Live(q) PROVE recs[q].plugin \in Plugins
  BY DEF Injected
<1> QED BY LiveRecord DEF LoadRecord

(* ensureStarted() leaves a well-typed tree, whether or not the record     *)
(* starts.                                                                 *)
LEMMA EnsureStartedType ==
  ASSUME TypeOK, NEW r, Live(r), NEW rest \in Seq(Frame), EnsureStarted(r, rest)
  PROVE  TreeTypeOK'
<1>1. r \in RecIds /\ recs[r] \in LoadRecord
  BY LiveRecord
<1>2. CASE ~CanStart(r)
  BY <1>2, ReturnType DEF EnsureStarted
<1>3. CASE CanStart(r)
  <2>1. PICK sc \in ScopeIds :
          /\ recs' = [recs EXCEPT ![r] = Started(r, sc)]
          /\ scopes' = [scopes EXCEPT ![sc] = NewScope]
          /\ stack' = <<Call("apply", r, sc)>> \o rest
    BY <1>3 DEF EnsureStarted
  <2>2. Started(r, sc) \in LoadRecord
    BY <1>1, InjectedType DEF Started, LoadRecord, States
  <2>3. recs' \in [RecIds -> LoadRecord \cup {NoRec}]
    BY <1>1, <2>1, <2>2
  <2>5. NewScope \in Scope
    BY DEF NewScope, Scope
  <2>6. scopes' \in [ScopeIds -> Scope \cup {Gone}]
    BY <2>1, <2>5
  <2>7. Call("apply", r, sc) \in Frame
    BY <1>1, CallType DEF Ops
  <2>8. stack' \in Seq(Frame)
    BY <2>1, <2>7, PushType
  <2> QED BY <2>3, <2>6, <2>8 DEF TreeTypeOK
<1> QED BY <1>2, <1>3

(* So does a watcher, whichever of its branches it takes.                  *)
LEMMA CallWatcherType ==
  ASSUME TypeOK, NEW w \in Watcher, NEW v \in BOOLEAN, NEW rest \in Seq(Frame),
         CallWatcher(w, v, rest)
  PROVE  TreeTypeOK'
<1>1. CASE ~HostAlive(w)
  BY <1>1, ReturnType DEF CallWatcher
<1>2. CASE HostAlive(w) /\ w.rec = NoRec
  <2> DEFINE g == [Call("callback", NoRec, NoScope) EXCEPT !.val = v, !.todo = {w}]
  <2>1. Call("callback", NoRec, NoScope) \in Frame
    BY CallType DEF Ops
  <2>2. g \in Frame
    BY <2>1 DEF Frame
  <2>3. <<g>> \o rest \in Seq(Frame)
    BY <2>2, PushType
  <2> QED BY <1>2, <2>3, ReturnType DEF CallWatcher
<1>3. CASE HostAlive(w) /\ w.rec # NoRec
  <2>1. Live(w.rec)
    BY <1>3 DEF CallWatcher
  <2>2. CASE v
    BY <1>3, <2>1, <2>2, EnsureStartedType DEF CallWatcher
  <2>3. CASE ~v /\ recs[w.rec].state = "Active"
    BY <1>3, <2>1, <2>3, StopRecordType DEF CallWatcher, States
  <2>4. CASE ~v /\ recs[w.rec].state # "Active"
    BY <1>3, <2>1, <2>4, ReturnType DEF CallWatcher
  <2> QED BY <2>2, <2>3, <2>4
<1> QED BY <1>1, <1>2, <1>3

(* addRecord() leaves a well-typed state.                                  *)
LEMMA AddRecordType ==
  ASSUME TypeOK, NEW sc, Exists(sc), NEW p \in Plugins, NEW rest \in Seq(Frame),
         AddRecord(sc, p, rest)
  PROVE  TypeOK'
<1>1. sc \in ScopeIds /\ scopes[sc] \in Scope
  BY ExistingScope
<1> DEFINE new == [plugin |-> p, host |-> sc, state |-> "Deferred", scope |-> NoScope,
                   tokens |-> {}, inst |-> 0, lib |-> Form[p] = "dynamic", uses |-> {}]
<1>2. PICK r \in RecIds :
        /\ recs' = [recs EXCEPT ![r] = new]
        /\ scopes' = [scopes EXCEPT ![sc].records = Append(@, r)]
        /\ stack' = <<[Call("arm", r, sc) EXCEPT !.ix = 1]>> \o Invalidate(rest, sc, 1)
        /\ UNCHANGED <<services, watchers>>
  BY DEF AddRecord
<1>3. new \in LoadRecord
  BY <1>1 DEF LoadRecord, States
<1>4. recs' \in [RecIds -> LoadRecord \cup {NoRec}]
  <2> HIDE DEF new
  <2> QED BY <1>2, <1>3
<1> DEFINE longer == Append(scopes[sc].records, r)
<1>5. [scopes[sc] EXCEPT !.records = longer] \in Scope
  <2>1. longer \in Seq(RecIds)
    BY <1>1 DEF Scope
  <2> HIDE DEF longer
  <2> QED BY <1>1, <2>1 DEF Scope
<1>6. scopes' \in [ScopeIds -> Scope \cup {Gone}]
  <2>1. scopes' = [scopes EXCEPT ![sc] = [scopes[sc] EXCEPT !.records = longer]]
    BY <1>2
  <2> HIDE DEF longer
  <2> QED BY <1>1, <1>5, <2>1
<1>7. Call("arm", r, sc) \in Frame
  BY <1>1, CallType DEF Ops
<1>8. [Call("arm", r, sc) EXCEPT !.ix = 1] \in Frame
  BY <1>7 DEF Frame
<1>9. stack' \in Seq(Frame)
  BY <1>2, <1>8, InvalidateType, PushType
<1> QED BY <1>2, <1>4, <1>6, <1>9

(* unload() does, up to the callbacks of its stopRecord().                 *)
LEMMA UnloadType ==
  ASSUME TypeOK, NEW sc, Exists(sc), NEW p, NEW rest \in Seq(Frame), Unload(sc, p, rest)
  PROVE  TypeOK'
<1>1. sc \in ScopeIds /\ scopes[sc] \in Scope
  BY ExistingScope
<1>2. PICK i \in Named(sc, p) :
        /\ Live(scopes[sc].records[i])
        /\ StopRecord(scopes[sc].records[i], "Disposed",
             <<[Call("erase", scopes[sc].records[i], sc) EXCEPT !.ix = i]>> \o rest)
  BY DEF Unload
<1> DEFINE r == scopes[sc].records[i]
<1>3. i \in Nat /\ r \in RecIds
  BY <1>1 DEF Named, Scope
<1>4. Call("erase", r, sc) \in Frame
  BY <1>1, <1>3, CallType DEF Ops
<1>5. [Call("erase", r, sc) EXCEPT !.ix = i] \in Frame
  BY <1>3, <1>4 DEF Frame
<1>6. TreeTypeOK'
  BY <1>2, <1>5, PushType, StopRecordType DEF States
<1> QED BY <1>6 DEF Unload, TreeTypeOK

(* provide() does, up to its watchers.                                     *)
LEMMA ProvideServiceType ==
  ASSUME TypeOK, NEW s \in Services, NEW sc, Exists(sc), NEW rest \in Seq(Frame),
         ProvideService(s, sc, rest)
  PROVE  TypeOK'
<1>1. sc \in ScopeIds /\ scopes[sc] \in Scope
  BY ExistingScope
<1>2. services' \in [Services -> ScopeIds \cup {NoScope}]
  BY <1>1 DEF ProvideService, ProvideEntry
<1> DEFINE longer == Append(scopes[sc].provided, s)
<1>3. [scopes[sc] EXCEPT !.provided = longer] \in Scope
  <2>1. longer \in Seq(Services)
    BY <1>1 DEF Scope
  <2> HIDE DEF longer
  <2> QED BY <1>1, <2>1 DEF Scope
<1>4. scopes' \in [ScopeIds -> Scope \cup {Gone}]
  BY <1>1, <1>3 DEF ProvideService
<1>5. Snapshot(s) \in SUBSET Watcher
  BY DEF Snapshot
<1>6. stack' \in Seq(Frame)
  <2>1. FireWatchers(TRUE, Snapshot(s)) \in Frame
    BY <1>5, FireType
  <2>2. CASE Appears(s, sc)
    BY <2>1, <2>2, PushType DEF ProvideService
  <2>3. CASE ~Appears(s, sc)
    <3>1. <<>> \o rest = rest
      OBVIOUS
    <3> QED BY <2>3, <3>1 DEF ProvideService
  <2> QED BY <2>2, <2>3
<1> QED BY <1>2, <1>4, <1>6 DEF ProvideService

-----------------------------------------------------------------------------
(* The frame that runs, and what it leaves below it.                       *)
LEMMA TopType ==
  ASSUME TypeOK, NEW op, Running(op)
  PROVE  stack # <<>> /\ Top \in Frame /\ Below \in Seq(Frame)
<1>1. stack # <<>>
  BY DEF Running
<1> QED BY <1>1, PopType DEF Top, Below

(* The running call may go on with other locals.                           *)
LEMMA ResumeType ==
  ASSUME TypeOK, NEW op, Running(op), NEW g \in Frame
  PROVE  Resume(g) \in Seq(Frame)
BY TopType, PushType DEF Resume

(* A new root scope is well typed.                                         *)
LEMMA InitType == Init => TypeOK
<1> SUFFICES ASSUME Init PROVE TypeOK
  OBVIOUS
<1>1. NewScope \in Scope
  BY DEF NewScope, Scope
<1>2. watchers \in SUBSET Watcher
  BY ContextAssumption DEF Init, Watcher
<1> QED BY <1>1, <1>2 DEF Init

(* The calls of the host.                                                  *)
LEMMA HostCallsType == TypeOK /\ HostCalls => TypeOK'
<1> SUFFICES ASSUME TypeOK, HostCalls PROVE TypeOK'
  OBVIOUS
<1>1. <<>> \in Seq(Frame)
  OBVIOUS
<1>2. ASSUME NEW p \in Plugins, HostLoad(p) PROVE TypeOK'
  BY <1>1, <1>2, AddRecordType, ContextAssumption DEF HostLoad, Idle
<1>3. ASSUME NEW p \in HostUnloads, HostUnload(p) PROVE TypeOK'
  BY <1>1, <1>3, UnloadType DEF HostUnload, Idle
<1>4. ASSUME NEW s \in Services, HostProvide(s) PROVE TypeOK'
  BY <1>1, <1>4, ProvideServiceType, ContextAssumption DEF HostProvide, Idle
<1>5. ASSUME HostDestroy PROVE TypeOK'
  <2>1. Root \in ScopeIds /\ scopes[Root] \in Scope
    BY <1>5, ExistingScope DEF HostDestroy, Idle
  <2>2. [scopes[Root] EXCEPT !.alive = FALSE] \in Scope
    BY <2>1 DEF Scope
  <2>3. Call("dtor", NoRec, Root) \in Frame
    BY <2>1, CallType DEF Ops
  <2>4. Len(scopes[Root].records) \in Nat
    BY <2>1 DEF Scope
  <2>5. [Call("dtor", NoRec, Root) EXCEPT !.ix = Len(scopes[Root].records)] \in Frame
    BY SMTT(40), <2>3, <2>4 DEF Frame
  <2> QED BY <1>5, <2>1, <2>2, <2>5 DEF HostDestroy
<1> QED BY <1>2, <1>3, <1>4, <1>5 DEF HostCalls

(* addRecord() and armDependencyWatchers().                                *)
LEMMA ArmType ==
  ASSUME TypeOK, ArmNext \/ ArmToken \/ ArmStarts
  PROVE  TypeOK'
<1>1. CASE ArmNext
  <2> DEFINE plugin == recs[Top.rec].plugin
             s == Requires[plugin][Top.ix]
  <2>1. Top \in Frame /\ Top.rec \in RecIds /\ Top.scope \in ScopeIds
    BY Zenon, <1>1, TopType, LiveRecord, ExistingScope DEF ArmNext
  <2>2. s \in Services
    <3>1. recs[Top.rec] \in LoadRecord /\ Top.ix \in DOMAIN Requires[plugin]
      BY Zenon, <1>1, LiveRecord DEF ArmNext
    <3>2. Requires[plugin] \in Seq(Services)
      BY SMTT(40), <3>1, ContextAssumption DEF LoadRecord
    <3> QED BY SMTT(40), <3>1, <3>2
  <2>3. PICK t \in Tokens :
          LET w == [tok |-> t, svc |-> s, rec |-> Top.rec, host |-> Top.scope] IN
          /\ Register(w)
          /\ CallWatcher(w, Available(s), Resume([Top EXCEPT !.todo = {w}]))
    BY Zenon, <1>1 DEF ArmNext
  <2> DEFINE w == [tok |-> t, svc |-> s, rec |-> Top.rec, host |-> Top.scope]
  <2>4. w \in Watcher
    BY <2>1, <2>2 DEF Watcher
  <2> HIDE DEF w
  <2>5. [Top EXCEPT !.todo = {w}] \in Frame
    BY Zenon, <2>1, <2>4 DEF Frame
  <2>6. Resume([Top EXCEPT !.todo = {w}]) \in Seq(Frame)
    BY Zenon, <1>1, <2>5, ResumeType DEF ArmNext
  <2>7. TreeTypeOK'
    <3>1. Available(s) \in BOOLEAN
      BY SMTT(40) DEF Available
    <3>2. CallWatcher(w, Available(s), Resume([Top EXCEPT !.todo = {w}]))
      BY <2>3 DEF w
    <3> QED BY <2>4, <2>6, <3>1, <3>2, CallWatcherType
  <2>8. watchers' \in SUBSET Watcher
    <3>1. Register(w)
      BY <2>3 DEF w
    <3> QED BY <2>4, <3>1 DEF Register
  <2> QED BY ZenonT(60), <1>1, <2>7, <2>8 DEF ArmNext, TreeTypeOK
<1>2. CASE ArmToken
  <2> DEFINE toks == recs[Top.rec].tokens \cup {w.tok : w \in Top.todo}
  <2>1. Top \in Frame /\ Below \in Seq(Frame) /\ Top.rec \in RecIds /\ recs[Top.rec] \in LoadRecord
    BY <1>2, TopType, LiveRecord DEF ArmToken
  <2>2. toks \in SUBSET Tokens
    BY <2>1 DEF Frame, LoadRecord, Watcher
  <2>3. [recs[Top.rec] EXCEPT !.tokens = toks] \in LoadRecord
    <3> HIDE DEF toks
    <3> QED BY <2>1, <2>2 DEF LoadRecord
  <2>4. recs' \in [RecIds -> LoadRecord \cup {NoRec}]
    BY <1>2, <2>1, <2>3 DEF ArmToken
  <2> DEFINE g == [Top EXCEPT !.todo = {}, !.ix = Top.ix + 1]
  <2>5. g \in Frame
    <3>1. Top.ix + 1 \in Nat
      BY <2>1 DEF Frame
    <3> QED BY <2>1, <3>1 DEF Frame
  <2>6. stack' \in Seq(Frame)
    <3>1. Running("arm") /\ stack' = Resume(g)
      BY <1>2 DEF ArmToken
    <3> HIDE DEF g
    <3> QED BY <2>5, <3>1, ResumeType
  <2> QED BY <1>2, <2>4, <2>6 DEF ArmToken
<1>3. CASE ArmStarts
  <2>1. TreeTypeOK'
    BY <1>3, TopType, EnsureStartedType DEF ArmStarts
  <2> QED BY <1>3, <2>1 DEF ArmStarts, TreeTypeOK
<1> QED BY <1>1, <1>2, <1>3

(* A plugin's body.                                                        *)
LEMMA ApplyType ==
  ASSUME TypeOK,
         \/ \E s \in Services : ApplyProvide(s)
         \/ \E p \in Plugins : ApplyLoad(p) \/ ApplyEvict(p)
         \/ ApplyReturns \/ ApplyThrows
  PROVE  TypeOK'
<1>1. ASSUME NEW s \in Services, ApplyProvide(s) PROVE TypeOK'
  BY <1>1, ProvideServiceType DEF ApplyProvide, Applying
<1>2. ASSUME NEW p \in Plugins, ApplyLoad(p) PROVE TypeOK'
  BY <1>2, AddRecordType DEF ApplyLoad, Applying
<1>3. ASSUME NEW p \in Plugins, ApplyEvict(p) PROVE TypeOK'
  BY <1>3, UnloadType DEF ApplyEvict, Applying
<1>4. CASE ApplyReturns
  <2> DEFINE n == recs[Top.rec].inst + (IF Form[recs[Top.rec].plugin] = "class" THEN 1 ELSE 0)
  <2>1. Below \in Seq(Frame) /\ Top.rec \in RecIds /\ recs[Top.rec] \in LoadRecord
    BY <1>4, TopType, LiveRecord DEF ApplyReturns
  <2>2. n \in Nat
    BY <2>1 DEF LoadRecord
  <2>3. [recs[Top.rec] EXCEPT !.inst = n] \in LoadRecord
    <3> HIDE DEF n
    <3> QED BY <2>1, <2>2 DEF LoadRecord
  <2> QED BY <1>4, <2>1, <2>3 DEF ApplyReturns
<1>5. CASE ApplyThrows
  <2>1. TreeTypeOK'
    BY <1>5, TopType, StopRecordType DEF ApplyThrows, States
  <2> QED BY <1>5, <2>1 DEF ApplyThrows, TreeTypeOK
<1> QED BY <1>1, <1>2, <1>3, <1>4, <1>5

(* stopRecord() after scope.reset().                                       *)
LEMMA StopReleaseType ==
  ASSUME TypeOK, StopRelease PROVE TypeOK'
<1>1. Below \in Seq(Frame) /\ Top.rec \in RecIds /\ recs[Top.rec] \in LoadRecord
  BY TopType, LiveRecord DEF StopRelease
<1>2. Released(Top.rec) \in LoadRecord
  BY <1>1 DEF Released, LoadRecord
<1> QED BY <1>1, <1>2 DEF StopRelease

(* ~Context.                                                               *)
LEMMA DtorType ==
  ASSUME TypeOK, DtorStop \/ DtorRelease \/ DtorClear \/ RevokeNext \/ RevokeDone
  PROVE  TypeOK'
<1>0. /\ Top \in Frame /\ Below \in Seq(Frame)
      /\ Top.scope \in ScopeIds /\ scopes[Top.scope] \in Scope
  BY Zenon, TopType, ExistingScope DEF DtorStop, DtorRelease, DtorClear, RevokeNext, RevokeDone
<1>1. CASE DtorStop
  <2> DEFINE g == [Top EXCEPT !.val = TRUE]
  <2>1. g \in Frame
    BY <1>0 DEF Frame
  <2>2. Resume(g) \in Seq(Frame)
    <3> HIDE DEF g
    <3> QED BY <1>1, <2>1, ResumeType DEF DtorStop
  <2>3. TreeTypeOK'
    BY SMTT(40), <1>1, <2>2, StopRecordType DEF DtorStop, States
  <2> QED BY <1>1, <2>3 DEF DtorStop, TreeTypeOK
<1>2. CASE DtorRelease
  <2> DEFINE g == Earlier(Top)
             r == scopes[Top.scope].records[Top.ix]
  <2>1. Top.ix - 1 \in Nat
    <3>1. scopes[Top.scope].records \in Seq(RecIds)
      BY <1>0 DEF Scope
    <3>2. Top.ix \in DOMAIN scopes[Top.scope].records
      BY Zenon, <1>2 DEF DtorRelease
    <3> QED BY SMTT(40), <3>1, <3>2
  <2>2. g \in Frame
    BY <1>0, <2>1 DEF Earlier, Frame
  <2>3. stack' \in Seq(Frame)
    <3>1. Running("dtor") /\ stack' = Resume(g)
      BY Zenon, <1>2 DEF DtorRelease
    <3> HIDE DEF g
    <3> QED BY <2>2, <3>1, ResumeType
  <2>4. r \in RecIds /\ recs[r] \in LoadRecord
    BY ZenonT(60), <1>2, LiveRecord DEF DtorRelease
  <2>5. [recs[r] EXCEPT !.lib = FALSE, !.tokens = {}] \in LoadRecord
    BY <2>4 DEF LoadRecord
  <2>6. recs' \in [RecIds -> LoadRecord \cup {NoRec}]
    BY Zenon, <1>2, <2>4, <2>5 DEF DtorRelease
  <2>7. watchers' \in SUBSET Watcher
    BY Zenon, <1>2 DEF DtorRelease, UnwatchAll
  <2> QED BY Zenon, <1>2, <2>3, <2>6, <2>7 DEF DtorRelease
<1>3. CASE DtorClear
  <2> DEFINE sc == Top.scope
             g == [Call("revoke", NoRec, sc) EXCEPT !.ix = Len(scopes[sc].provided)]
  <2>1. Len(scopes[sc].provided) \in Nat
    BY <1>0 DEF Scope
  <2>2. g \in Frame
    <3>1. Call("revoke", NoRec, sc) \in Frame
      BY <1>0, CallType DEF Ops
    <3> QED BY <2>1, <3>1 DEF Frame
  <2>3. stack' \in Seq(Frame)
    <3>1. Running("dtor") /\ stack' = Resume(g)
      BY <1>3 DEF DtorClear
    <3> HIDE DEF g
    <3> QED BY <2>2, <3>1, ResumeType
  <2>4. [scopes[sc] EXCEPT !.records = <<>>, !.retired = {}] \in Scope
    <3>1. <<>> \in Seq(RecIds) /\ {} \in SUBSET Plugins
      OBVIOUS
    <3> QED BY <1>0, <3>1 DEF Scope
  <2>5. scopes' \in [ScopeIds -> Scope \cup {Gone}]
    BY <1>0, <1>3, <2>4 DEF DtorClear
  <2>6. recs' \in [RecIds -> LoadRecord \cup {NoRec}]
    BY <1>3 DEF DtorClear
  <2>7. watchers' \in SUBSET Watcher
    BY <1>3 DEF DtorClear
  <2> QED BY <1>3, <2>3, <2>5, <2>6, <2>7 DEF DtorClear
<1>4. CASE RevokeNext
  <2> DEFINE g == Earlier(Top)
             s == scopes[Top.scope].provided[Top.ix]
  <2>1. Top.ix - 1 \in Nat /\ s \in Services
    <3>1. scopes[Top.scope].provided \in Seq(Services)
      BY SMTT(40), <1>0 DEF Scope
    <3>2. Top.ix \in DOMAIN scopes[Top.scope].provided
      BY <1>4 DEF RevokeNext
    <3> QED BY <3>1, <3>2
  <2>2. g \in Frame
    BY <1>0, <2>1 DEF Earlier, Frame
  <2>3. services' \in [Services -> ScopeIds \cup {NoScope}]
    BY <1>4 DEF RevokeNext, RevokeEntry
  <2>4. Resume(g) \in Seq(Frame)
    <3> HIDE DEF g
    <3> QED BY <1>4, <2>2, ResumeType DEF RevokeNext
  <2>5. FireWatchers(FALSE, Snapshot(s)) \in Frame
    BY FireType DEF Snapshot
  <2>6. CASE Disappears(s, Top.scope)
    <3>1. stack' = <<FireWatchers(FALSE, Snapshot(s))>> \o Resume(g)
      BY <1>4, <2>6 DEF RevokeNext
    <3>2. stack' \in Seq(Frame)
      BY <2>4, <2>5, <3>1, PushType
    <3> QED BY <1>4, <2>3, <3>2 DEF RevokeNext
  <2>7. CASE ~Disappears(s, Top.scope)
    <3>1. stack' = <<>> \o Resume(g)
      BY <1>4, <2>7 DEF RevokeNext
    <3>2. stack' \in Seq(Frame)
      BY <2>4, <3>1
    <3> QED BY <1>4, <2>3, <3>2 DEF RevokeNext
  <2> QED BY <2>6, <2>7
<1>5. CASE RevokeDone
  BY <1>0, <1>5 DEF RevokeDone
<1> QED BY <1>1, <1>2, <1>3, <1>4, <1>5

(* unload() after stopRecord().                                            *)
LEMMA EraseType ==
  ASSUME TypeOK, Erase PROVE TypeOK'
<1> DEFINE r == Top.rec
           sc == Top.scope
           libs == scopes[sc].retired \cup Retired(r)
           shorter == RemoveAt(scopes[sc].records, Top.ix)
<1>1. /\ Top \in Frame /\ Below \in Seq(Frame)
      /\ r \in RecIds /\ recs[r] \in LoadRecord
      /\ sc \in ScopeIds /\ scopes[sc] \in Scope
  BY TopType, LiveRecord, ExistingScope DEF Erase
<1>2. libs \in SUBSET Plugins
  BY <1>1 DEF Retired, LoadRecord, Scope
<1>3. shorter \in Seq(RecIds)
  <2> DEFINE seq == scopes[sc].records
             n == Top.ix
  <2>1. seq \in Seq(RecIds)
    BY <1>1 DEF Scope
  <2>2. n \in 1..Len(seq)
    BY <2>1 DEF Erase
  <2> HIDE DEF seq, n
  <2>3. SubSeq(seq, 1, n - 1) \in Seq(RecIds)
    BY <2>1, <2>2, SubSeqProperties
  <2>4. SubSeq(seq, n + 1, Len(seq)) \in Seq(RecIds)
    BY <2>1, <2>2, SubSeqProperties
  <2>5. RemoveAt(seq, n) \in Seq(RecIds)
    BY <2>3, <2>4, ConcatProperties DEF RemoveAt
  <2> QED BY <2>5 DEF seq, n
<1>4. [scopes[sc] EXCEPT !.retired = libs, !.records = shorter] \in Scope
  <2> HIDE DEF libs, shorter
  <2> QED BY <1>1, <1>2, <1>3 DEF Scope
<1>5. scopes' \in [ScopeIds -> Scope \cup {Gone}]
  <2>1. scopes' = [scopes EXCEPT ![sc] = [scopes[sc] EXCEPT !.retired = libs, !.records = shorter]]
    BY <1>1 DEF Erase
  <2> HIDE DEF libs, shorter
  <2> QED BY <1>1, <1>4, <2>1
<1>6. recs' \in [RecIds -> LoadRecord \cup {NoRec}]
  BY <1>1 DEF Erase
<1>7. stack' \in Seq(Frame)
  BY <1>1, InvalidateType DEF Erase
<1>8. watchers' \in SUBSET Watcher
  BY DEF Erase, UnwatchAll
<1> QED BY <1>5, <1>6, <1>7, <1>8 DEF Erase

(* fireWatchers().                                                         *)
LEMMA FireLoopType ==
  ASSUME TypeOK, FireNext \/ FireDone PROVE TypeOK'
<1>1. CASE FireNext
  <2>1. Top \in Frame
    BY <1>1, TopType DEF FireNext
  <2>2. PICK w \in Top.todo :
          CallWatcher(w, Top.val, Resume([Top EXCEPT !.todo = Top.todo \ {w}]))
    BY <1>1 DEF FireNext
  <2> DEFINE g == [Top EXCEPT !.todo = Top.todo \ {w}]
  <2>3. w \in Watcher /\ Top.val \in BOOLEAN
    BY <2>1 DEF Frame
  <2>4. g \in Frame
    <3>1. Top.todo \ {w} \in SUBSET Watcher
      BY <2>1 DEF Frame
    <3> QED BY <2>1, <3>1 DEF Frame
  <2>5. Resume(g) \in Seq(Frame)
    <3> HIDE DEF g
    <3> QED BY <1>1, <2>4, ResumeType DEF FireNext
  <2>6. TreeTypeOK'
    BY <2>2, <2>3, <2>5, CallWatcherType
  <2> QED BY <1>1, <2>6 DEF FireNext, TreeTypeOK
<1>2. CASE FireDone
  BY <1>2, TopType DEF FireDone
<1> QED BY <1>1, <1>2

(* The host's own watcher.                                                 *)
LEMMA CallbackType ==
  ASSUME TypeOK,
         \/ \E p \in Plugins : CallbackLoads(p) \/ CallbackUnloads(p)
         \/ CallbackReturns
  PROVE  TypeOK'
<1>1. ASSUME NEW p \in Plugins, CallbackLoads(p) PROVE TypeOK'
  BY <1>1, TopType, AddRecordType DEF CallbackLoads
<1>2. ASSUME NEW p \in Plugins, CallbackUnloads(p) PROVE TypeOK'
  BY <1>2, TopType, UnloadType DEF CallbackUnloads
<1>3. CASE CallbackReturns
  BY <1>3, TopType DEF CallbackReturns
<1> QED BY <1>1, <1>2, <1>3

(* Every step keeps the types.                                             *)
LEMMA StepType == TypeOK /\ [Next]_vars => TypeOK'
<1> SUFFICES ASSUME TypeOK, [Next]_vars PROVE TypeOK'
  OBVIOUS
<1>1. CASE HostCalls
  BY <1>1, HostCallsType
<1>2. CASE ThreadSteps
  BY <1>2, ArmType, ApplyType, StopReleaseType, DtorType, EraseType, FireLoopType, CallbackType
     DEF ThreadSteps
<1>3. CASE Terminated \/ UNCHANGED vars
  BY <1>3 DEF Terminated, vars
<1> QED BY <1>1, <1>2, <1>3 DEF Next

(* However calls nest, records, scopes, watchers and suspended calls keep  *)
(* their types: every token list, record list and loop refers to addresses *)
(* and tokens of the right kind (Context.cpp, all operations).             *)
THEOREM TypeCorrect == Spec => []TypeOK
BY InitType, StepType, PTL DEF Spec

-----------------------------------------------------------------------------
(* What is true of the tree between any two steps of nested calls.         *)
HIDE DEF TypeOK

(* A record that ~Context may drop and unload() may erase.                 *)
Quiet(r) == recs[r].state \in {"Deferred", "Disposed"}

(* A call that works in a scope adds to it; one that tears it down takes   *)
(* it apart. A scope is only torn down above the calls that work in it:    *)
(* nothing is added to a scope while its destructor waits.                 *)
WorksIn(f, sc) ==
  \/ f.op \in {"apply", "arm"} /\ f.scope = sc
  \/ f.op = "callback" /\ sc = Root

TearsDown(f, sc) == f.op \in {"dtor", "revoke"} /\ f.scope = sc

TeardownAbove(q) ==
  \A i, j \in DOMAIN q : \A sc \in ScopeIds :
    WorksIn(q[i], sc) /\ TearsDown(q[j], sc) => j < i

(* The list of a scope names live records of that scope, each once.        *)
ListRight(sc) ==
  LET list == scopes[sc].records IN
  /\ IsInjective(list)
  /\ \A k \in DOMAIN list : Live(list[k]) /\ recs[list[k]].host = sc

ListsRight == \A sc \in ScopeIds : Exists(sc) => ListRight(sc)

(* A sentinel's closure holds the token of its record's host.              *)
RightWatchers ==
  {w \in Watcher : /\ w.rec = NoRec => w.host = Root
                   /\ Live(w.rec) => recs[w.rec].host = w.host}

(* A suspended call refers to what it says: its record belongs to its      *)
(* scope, ...                                                              *)
PointersRight(f) ==
  /\ f.todo \subseteq RightWatchers
  /\ f.op \in {"arm", "erase"} /\ Live(f.rec) => recs[f.rec].host = f.scope

(* ... the record that unload() has stopped is quiet and at the place      *)
(* unload() remembers, unless that place is marked ...                     *)
EraseRight(f) ==
  f.op = "erase" =>
    /\ Live(f.rec) => Quiet(f.rec)
    /\ Exists(f.scope) /\ ~f.val =>
         LET list == scopes[f.scope].records IN
         /\ Live(f.rec) => f.ix \in DOMAIN list
         /\ f.ix \in DOMAIN list => list[f.ix] = f.rec

(* ... and a scope in teardown is not alive, and quiet as far as its       *)
(* destructor has come.                                                    *)
TeardownRight(f) ==
  f.op \in {"dtor", "revoke"} /\ Exists(f.scope) =>
    LET list == scopes[f.scope].records IN
    /\ ~scopes[f.scope].alive
    /\ f.op = "revoke" => list = <<>>
    /\ f.op = "dtor" =>
         \A k \in DOMAIN list : (k > f.ix \/ (k = f.ix /\ f.val)) => Quiet(list[k])

RightFrames == {f \in Frame : PointersRight(f) /\ EraseRight(f) /\ TeardownRight(f)}

(* Below the running call, what unload() is about to erase is Disposed.    *)
Suspended ==
  {f \in RightFrames : f.op = "erase" /\ Live(f.rec) => recs[f.rec].state = "Disposed"}

StackRight ==
  stack # <<>> => Head(stack) \in RightFrames /\ Tail(stack) \in Seq(Suspended)

TreeInv ==
  /\ TypeOK
  /\ ListsRight
  /\ watchers \subseteq RightWatchers
  /\ StackRight
  /\ TeardownAbove(stack)

-----------------------------------------------------------------------------
(* Sequences of frames.                                                    *)

(* A sequence over a set is one over any larger set.                       *)
LEMMA LargerSeq ==
  ASSUME NEW S, NEW T, S \subseteq T, NEW q \in Seq(S)
  PROVE  q \in Seq(T)
OBVIOUS

(* The running call is the head of the stack, the calls that wait for it   *)
(* are the tail.                                                           *)
LEMMA RunningStack ==
  ASSUME TypeOK, NEW op, Running(op)
  PROVE  /\ stack = <<Top>> \o Below /\ stack \in Seq(Frame)
         /\ Top \in Frame /\ Top.op = op /\ Below \in Seq(Frame)
<1>1. stack # <<>> /\ Top.op = op
  BY DEF Running
<1>2. stack \in Seq(Frame) /\ Head(stack) \in Frame /\ Tail(stack) \in Seq(Frame)
  BY <1>1, PopType DEF TypeOK
<1>3. <<Head(stack)>> \o Tail(stack) = stack
  BY <1>1, <1>2
<1>. QED  BY <1>1, <1>2, <1>3 DEF Top, Below

(* The positions of a stack with one more call.                            *)
LEMMA PushedPositions ==
  ASSUME NEW S, NEW q \in Seq(S), NEW x \in S
  PROVE  /\ <<x>> \o q \in Seq(S)
         /\ (<<x>> \o q)[1] = x
         /\ \A i \in DOMAIN q : i + 1 \in DOMAIN (<<x>> \o q) /\ (<<x>> \o q)[i + 1] = q[i]
         /\ \A i \in DOMAIN (<<x>> \o q) : i = 1 \/ (i - 1 \in DOMAIN q /\ (<<x>> \o q)[i] = q[i - 1])
         /\ 1 \in DOMAIN (<<x>> \o q) /\ DOMAIN q \subseteq Nat \ {0} /\ DOMAIN (<<x>> \o q) \subseteq Nat \ {0}
         /\ Head(<<x>> \o q) = x /\ Tail(<<x>> \o q) = q /\ <<x>> \o q # <<>>
OBVIOUS

(* A call may be entered unless it works in a scope that is torn down      *)
(* below it.                                                               *)
LEMMA AbovePush ==
  ASSUME NEW q \in Seq(Frame), TeardownAbove(q), NEW x \in Frame,
         \A j \in DOMAIN q : \A sc \in ScopeIds : ~(WorksIn(x, sc) /\ TearsDown(q[j], sc))
  PROVE  TeardownAbove(<<x>> \o q)
<1>. DEFINE p == <<x>> \o q
<1>1. /\ p[1] = x /\ DOMAIN q \subseteq Nat \ {0} /\ DOMAIN p \subseteq Nat \ {0}
      /\ \A i \in DOMAIN p : i = 1 \/ (i - 1 \in DOMAIN q /\ p[i] = q[i - 1])
  BY PushedPositions
<1>. HIDE DEF p
<1>2. SUFFICES ASSUME NEW i \in DOMAIN p, NEW j \in DOMAIN p, NEW sc \in ScopeIds,
                      WorksIn(p[i], sc), TearsDown(p[j], sc)
               PROVE  j < i
  BY DEF TeardownAbove, p
<1>3. CASE i = 1
  <2>1. j = 1
    BY <1>1, <1>2, <1>3
  <2>. QED  BY <1>1, <1>2, <1>3, <2>1 DEF WorksIn, TearsDown
<1>4. CASE i # 1 /\ j = 1
  BY <1>1, <1>4
<1>5. CASE i # 1 /\ j # 1
  <2>1. j - 1 < i - 1
    BY <1>1, <1>2, <1>5 DEF TeardownAbove
  <2>. QED  BY <1>1, <2>1
<1>. QED  BY <1>3, <1>4, <1>5

(* Returning keeps the order ...                                           *)
LEMMA AbovePop ==
  ASSUME NEW q \in Seq(Frame), NEW x \in Frame, TeardownAbove(<<x>> \o q)
  PROVE  /\ TeardownAbove(q)
         /\ \A j \in DOMAIN q : \A sc \in ScopeIds : ~(WorksIn(x, sc) /\ TearsDown(q[j], sc))
<1>. DEFINE p == <<x>> \o q
<1>1. /\ p[1] = x /\ 1 \in DOMAIN p /\ DOMAIN q \subseteq Nat \ {0}
      /\ \A i \in DOMAIN q : i + 1 \in DOMAIN p /\ p[i + 1] = q[i]
  BY PushedPositions
<1>. HIDE DEF p
<1>2. TeardownAbove(p)
  BY DEF p
<1>3. TeardownAbove(q)
  <2>1. SUFFICES ASSUME NEW i \in DOMAIN q, NEW j \in DOMAIN q, NEW sc \in ScopeIds,
                        WorksIn(q[i], sc), TearsDown(q[j], sc)
                 PROVE  j < i
    BY DEF TeardownAbove
  <2>2. j + 1 < i + 1
    BY <1>1, <1>2, <2>1 DEF TeardownAbove
  <2>. QED  BY <1>1, <2>2
<1>4. ASSUME NEW j \in DOMAIN q, NEW sc \in ScopeIds, WorksIn(x, sc), TearsDown(q[j], sc)
      PROVE  FALSE
  <2>1. j + 1 < 1
    BY <1>1, <1>2, <1>4 DEF TeardownAbove
  <2>. QED  BY <1>1, <2>1
<1>. QED  BY <1>3, <1>4

(* ... and so does changing the locals of calls.                           *)
LEMMA AboveSame ==
  ASSUME NEW q \in Seq(Frame), NEW p \in Seq(Frame), DOMAIN p = DOMAIN q,
         TeardownAbove(q), \A i \in DOMAIN q : p[i].op = q[i].op /\ p[i].scope = q[i].scope
  PROVE  TeardownAbove(p)
BY DEF TeardownAbove, WorksIn, TearsDown

-----------------------------------------------------------------------------
(* Addresses: a new record or scope is at an address that no suspended     *)
(* call and no watcher refers to.                                          *)
Known ==
  {f \in Frame : /\ f.rec \in UsedRecs /\ f.scope \in UsedScopes
                 /\ \A w \in f.todo : w.rec \in UsedRecs}

(* TypeOK says it of the stack: a frame names only records and scopes that *)
(* are in use.                                                             *)
LEMMA StackKnown ==
  ASSUME TypeOK
  PROVE  stack \in Seq(Known)
<1>1. stack \in Seq(Frame)
  BY DEF TypeOK
<1>2. ASSUME NEW i \in DOMAIN stack PROVE stack[i] \in Known
  <2>1. stack[i] \in Frame
    BY <1>1
  <2>2. stack[i].rec \in UsedRecs /\ stack[i].scope \in UsedScopes
    BY DEF UsedRecs, UsedScopes
  <2>3. \A w \in stack[i].todo : w.rec \in UsedRecs
    BY DEF UsedRecs, Closures
  <2>. QED  BY <2>1, <2>2, <2>3 DEF Known
<1>. QED  BY <1>1, <1>2

(* Live records, existing scopes and the records of sentinels are in use.  *)
LEMMA LiveKnown ==
  /\ \A r : Live(r) => r \in UsedRecs
  /\ \A sc : Exists(sc) => sc \in UsedScopes
  /\ \A w \in watchers : w.rec \in UsedRecs
<1>1. \A r : Live(r) => r \in UsedRecs
  BY DEF Live, UsedRecs
<1>2. \A sc : Exists(sc) => sc \in UsedScopes
  BY DEF Exists, UsedScopes
<1>3. \A w \in watchers : w.rec \in UsedRecs
  BY DEF UsedRecs, Closures
<1>. QED  BY <1>1, <1>2, <1>3

(* What a step may do to the records that something refers to: forget      *)
(* them; and to the scopes: end their life.                                *)
HostsKept ==
  \A r \in UsedRecs : Live(r)' => Live(r) /\ recs'[r].host = recs[r].host

ScopeKept(sc) ==
  Exists(sc)' =>
    /\ Exists(sc) /\ scopes'[sc].records = scopes[sc].records
    /\ scopes'[sc].alive => scopes[sc].alive

(* A watcher stays right ...                                               *)
LEMMA WatchersKept ==
  ASSUME HostsKept, NEW W, W \subseteq RightWatchers, \A w \in W : w.rec \in UsedRecs
  PROVE  W \subseteq RightWatchers'
BY DEF HostsKept, RightWatchers

(* What a suspended call points at is still right when hosts keep their    *)
(* records.                                                                *)
LEMMA PointersKept ==
  ASSUME HostsKept, NEW f \in Known, PointersRight(f)
  PROVE  PointersRight(f)'
<1>1. f.todo \subseteq RightWatchers'
  BY WatchersKept DEF Known, PointersRight
<1>2. f.op \in {"arm", "erase"} /\ Live(f.rec)' => recs'[f.rec].host = f.scope
  BY DEF HostsKept, Known, PointersRight
<1>. QED  BY <1>1, <1>2 DEF PointersRight

(* ... and a suspended call does, when no record that it counts as quiet   *)
(* starts again.                                                           *)
StillQuiet(f) ==
  \A r \in RecIds :
    Live(r) /\ Live(r)' /\ Quiet(r) =>
      \/ recs'[r].state = recs[r].state
      \/ recs[r].state = "Deferred" /\ ~TearsDown(f, recs[r].host)

FrameScopeKept(f) == f.op \in {"erase", "dtor", "revoke"} => ScopeKept(f.scope)

(* So is everything else that a suspended call relies on, when the scope   *)
(* it works through keeps its list.                                        *)
LEMMA FrameKept ==
  ASSUME TypeOK, ListsRight, ListsRight', HostsKept,
         NEW f \in Known \cap Suspended, FrameScopeKept(f), StillQuiet(f)
  PROVE  f \in Suspended'
<1>1. f \in Frame /\ PointersRight(f)' /\ EraseRight(f) /\ TeardownRight(f)
  BY PointersKept DEF Known, Suspended, RightFrames
<1>2. f.rec \in UsedRecs
  BY DEF Known
<1>3. f.op = "erase" /\ Live(f.rec)' => recs'[f.rec].state = "Disposed"
  <2>1. SUFFICES ASSUME f.op = "erase", Live(f.rec)' PROVE recs'[f.rec].state = "Disposed"
    OBVIOUS
  <2>2. Live(f.rec)
    BY <1>2, <2>1 DEF HostsKept
  <2>3. recs[f.rec].state = "Disposed" /\ f.rec \in RecIds
    BY <2>1, <2>2 DEF Suspended, Live
  <2>. QED  BY <2>1, <2>2, <2>3 DEF StillQuiet, Quiet
<1>4. EraseRight(f)'
  <2>1. f.op = "erase" /\ Live(f.rec)' => Quiet(f.rec)'
    BY <1>3 DEF Quiet
  <2>2. f.op = "erase" /\ Exists(f.scope)' /\ ~f.val =>
          /\ Live(f.rec)' => f.ix \in DOMAIN scopes'[f.scope].records
          /\ f.ix \in DOMAIN scopes'[f.scope].records => scopes'[f.scope].records[f.ix] = f.rec
    <3>1. Live(f.rec)' => Live(f.rec)
      BY <1>2 DEF HostsKept
    <3>. QED  BY <1>1, <3>1 DEF FrameScopeKept, ScopeKept, EraseRight
  <2>. QED  BY <2>1, <2>2 DEF EraseRight
<1>5. TeardownRight(f)'
  <2>1. SUFFICES ASSUME f.op \in {"dtor", "revoke"}, Exists(f.scope)'
                 PROVE  /\ ~scopes'[f.scope].alive
                        /\ f.op = "revoke" => scopes'[f.scope].records = <<>>
                        /\ f.op = "dtor" =>
                             \A k \in DOMAIN scopes'[f.scope].records :
                               (k > f.ix \/ (k = f.ix /\ f.val)) =>
                                 recs'[scopes'[f.scope].records[k]].state \in {"Deferred", "Disposed"}
    BY DEF TeardownRight, Quiet
  <2>2. Exists(f.scope) /\ scopes'[f.scope].records = scopes[f.scope].records
        /\ (scopes'[f.scope].alive => scopes[f.scope].alive)
    BY <2>1 DEF FrameScopeKept, ScopeKept
  <2>3. f.scope \in ScopeIds
    BY <2>2 DEF Exists
  <2>4. ASSUME NEW k \in DOMAIN scopes[f.scope].records, f.op = "dtor",
               k > f.ix \/ (k = f.ix /\ f.val)
        PROVE  \A r : r = scopes[f.scope].records[k] => recs'[r].state \in {"Deferred", "Disposed"}
    <3>1. SUFFICES ASSUME NEW r, r = scopes[f.scope].records[k]
                   PROVE  recs'[r].state \in {"Deferred", "Disposed"}
      OBVIOUS
    <3>2. Live(r) /\ recs[r].host = f.scope /\ Quiet(r)
      BY <1>1, <2>2, <2>3, <2>4, <3>1 DEF ListsRight, ListRight, TeardownRight
    <3>3. Live(r)'
      BY <2>1, <2>2, <2>3, <3>1, <2>4 DEF ListsRight, ListRight
    <3>4. TearsDown(f, recs[r].host)
      BY <2>4, <3>2 DEF TearsDown
    <3>5. recs'[r].state = recs[r].state
      BY <3>2, <3>3, <3>4 DEF StillQuiet, Live
    <3>. QED  BY <3>2, <3>5 DEF Quiet
  <2>5. ~scopes'[f.scope].alive /\ (f.op = "revoke" => scopes'[f.scope].records = <<>>)
    BY <1>1, <2>1, <2>2 DEF TeardownRight
  <2>. QED  BY <2>2, <2>4, <2>5
<1>. QED  BY <1>1, <1>3, <1>4, <1>5 DEF Suspended, RightFrames

-----------------------------------------------------------------------------
(* What the calls that several actions make do to the tree.                *)

(* The suspended calls stay right if the step keeps the scopes they work   *)
(* in, and what their destructors' loops have passed stays stopped.        *)
LEMMA RestKept ==
  ASSUME TypeOK, ListsRight, ListsRight', HostsKept,
         NEW q \in Seq(Known \cap Suspended),
         \A i \in DOMAIN q : FrameScopeKept(q[i]) /\ StillQuiet(q[i])
  PROVE  q \in Seq(Suspended')
<1>1. ASSUME NEW i \in DOMAIN q PROVE q[i] \in Suspended'
  <2>1. q[i] \in Known \cap Suspended
    OBVIOUS
  <2>. QED  BY <2>1, FrameKept
<1>. QED  BY <1>1

(* Returning at once.                                                      *)
LEMMA ReturnKept ==
  ASSUME ListsRight, NEW rest \in Seq(Suspended), TeardownAbove(rest), Return(rest)
  PROVE  HostsKept /\ ListsRight' /\ StackRight' /\ TeardownAbove(stack')
<1>1. UNCHANGED <<recs, scopes>> /\ stack' = rest
  BY DEF Return
<1>2. HostsKept
  BY <1>1 DEF HostsKept, Live
<1>3. ListsRight'
  BY <1>1 DEF ListsRight, ListRight, Live, Exists
<1>4. RightWatchers' = RightWatchers
  BY <1>1 DEF RightWatchers, Live
<1>5. Suspended' = Suspended /\ RightFrames' = RightFrames
  <2>1. ASSUME NEW f PROVE PointersRight(f)' <=> PointersRight(f)
    BY <1>1, <1>4 DEF PointersRight, Live
  <2>2. ASSUME NEW f PROVE EraseRight(f)' <=> EraseRight(f)
    BY <1>1 DEF EraseRight, Live, Quiet, Exists
  <2>3. ASSUME NEW f PROVE TeardownRight(f)' <=> TeardownRight(f)
    BY <1>1 DEF TeardownRight, Quiet, Exists
  <2>4. RightFrames' = RightFrames
    BY <2>1, <2>2, <2>3 DEF RightFrames
  <2>. QED  BY <1>1, <2>4 DEF Suspended, Live
<1>6. rest # <<>> => Head(rest) \in RightFrames /\ Tail(rest) \in Seq(Suspended)
  <2>1. Suspended \subseteq RightFrames
    BY DEF Suspended
  <2>. QED  BY <2>1
<1>7. StackRight'
  BY <1>1, <1>5, <1>6 DEF StackRight
<1>. QED  BY <1>1, <1>2, <1>3, <1>7

(* A call that is entered on top of calls that are right.                  *)
LEMMA EnteredRight ==
  ASSUME NEW rest \in Seq(Suspended'), NEW x \in RightFrames', stack' = <<x>> \o rest
  PROVE  StackRight'
<1>1. Head(stack') = x /\ Tail(stack') = rest
  OBVIOUS
<1>. QED  BY <1>1 DEF StackRight

(* ensureStarted(): the record may be one of a scope in teardown only if   *)
(* no destructor of that scope waits below.                                *)
LEMMA StartKept ==
  ASSUME TypeOK, TypeOK', ListsRight, NEW r, Live(r),
         NEW rest \in Seq(Known \cap Suspended), TeardownAbove(rest),
         \A j \in DOMAIN rest : ~TearsDown(rest[j], recs[r].host),
         EnsureStarted(r, rest)
  PROVE  HostsKept /\ ListsRight' /\ StackRight' /\ TeardownAbove(stack')
<1>0. rest \in Seq(Suspended) /\ rest \in Seq(Frame)
  BY DEF Known
<1>1. CASE ~CanStart(r)
  BY <1>0, <1>1, ReturnKept DEF EnsureStarted
<1>2. CASE CanStart(r)
  <2>1. PICK sc \in ScopeIds :
          /\ IsFresh(sc, ScopeIds, UsedScopes)
          /\ recs' = [recs EXCEPT ![r] = Started(r, sc)]
          /\ scopes' = [scopes EXCEPT ![sc] = NewScope]
          /\ stack' = <<Call("apply", r, sc)>> \o rest
    BY <1>2 DEF EnsureStarted
  <2>2. r \in RecIds /\ recs[r] \in LoadRecord /\ recs \in [RecIds -> LoadRecord \cup {NoRec}]
        /\ scopes \in [ScopeIds -> Scope \cup {Gone}]
    BY LiveRecord DEF TypeOK
  <2>3. ~Exists(sc) /\ sc \notin UsedScopes
    BY <2>1, LiveKnown DEF IsFresh
  <2>4. /\ recs'[r].host = recs[r].host /\ recs'[r].state = "Active"
        /\ recs'[r] \in LoadRecord /\ Live(r)'
    <3>1. Started(r, sc).host = recs[r].host /\ Started(r, sc).state = "Active"
      BY <2>2 DEF Started, LoadRecord
    <3>2. Started(r, sc) \in LoadRecord
      BY <2>2, <3>1, InjectedType DEF Started, LoadRecord, States
    <3>3. recs'[r] = Started(r, sc)
      BY <2>1, <2>2
    <3>. QED  BY <2>2, <3>1, <3>2, <3>3, NullAssumption DEF Live
  <2>5. \A q \in RecIds : q # r => recs'[q] = recs[q]
    BY <2>1, <2>2
  <2>6. \A s \in ScopeIds : s # sc => scopes'[s] = scopes[s]
    BY <2>1, <2>2
  <2>7. HostsKept
    BY <2>4, <2>5 DEF HostsKept, Live
  <2>8. scopes'[sc].records = <<>> /\ scopes'[sc] = NewScope
    BY <2>1, <2>2 DEF NewScope
  <2>9. ListsRight'
    <3>1. SUFFICES ASSUME NEW s \in ScopeIds, Exists(s)'
                   PROVE  /\ IsInjective(scopes'[s].records)
                          /\ \A k \in DOMAIN scopes'[s].records :
                               LET q == scopes'[s].records[k] IN
                               q \in RecIds /\ recs'[q] # NoRec /\ recs'[q].host = s
      BY DEF ListsRight, ListRight, Live
    <3>2. CASE s = sc
      BY <2>8, <3>2 DEF IsInjective
    <3>3. CASE s # sc
      <4>1. ListRight(s) /\ scopes'[s] = scopes[s]
        BY <2>6, <3>1, <3>3 DEF ListsRight, Exists
      <4>2. \A q : Live(q) => q \in RecIds /\ recs'[q] # NoRec /\ recs'[q].host = recs[q].host
        BY <2>4, <2>5 DEF Live
      <4>. QED  BY <4>1, <4>2 DEF ListRight
    <3>. QED  BY <3>2, <3>3
  <2>10. ASSUME NEW i \in DOMAIN rest PROVE FrameScopeKept(rest[i]) /\ StillQuiet(rest[i])
    <3>1. rest[i] \in Known /\ rest[i].scope # sc
      BY <2>3 DEF Known
    <3>2. FrameScopeKept(rest[i])
      BY <2>6, <3>1 DEF FrameScopeKept, ScopeKept, Exists
    <3>3. recs[r].state = "Deferred"
      BY <1>2 DEF CanStart
    <3>4. StillQuiet(rest[i])
      BY <2>5, <3>3 DEF StillQuiet
    <3>. QED  BY <3>2, <3>4
  <2>11. rest \in Seq(Suspended')
    BY <2>7, <2>9, <2>10, RestKept
  <2>. DEFINE x == Call("apply", r, sc)
  <2>12. x \in Frame /\ x.op = "apply" /\ x.scope = sc /\ x.todo = {}
    <3>1. x \in Frame
      BY <2>2, CallType DEF Ops
    <3>. QED  BY <3>1 DEF Call
  <2>. HIDE DEF x
  <2>13. x \in RightFrames'
    BY <2>12 DEF RightFrames, PointersRight, EraseRight, TeardownRight
  <2>14. stack' = <<x>> \o rest
    BY <2>1 DEF x
  <2>15. StackRight'
    BY <2>11, <2>13, <2>14, EnteredRight
  <2>16. TeardownAbove(stack')
    <3>1. ASSUME NEW j \in DOMAIN rest, NEW s \in ScopeIds, WorksIn(x, s), TearsDown(rest[j], s)
          PROVE  FALSE
      <4>1. rest[j] \in Known /\ rest[j].scope = sc
        BY <2>12, <3>1 DEF WorksIn, TearsDown
      <4>. QED  BY <2>3, <4>1 DEF Known
    <3>. QED  BY <1>0, <2>12, <2>14, <3>1, AbovePush
  <2>. QED  BY <2>7, <2>9, <2>15, <2>16
<1>. QED  BY <1>1, <1>2

(* To push two frames is to push one, then the other.                      *)
LEMMA TwoPushed ==
  ASSUME NEW S, NEW q \in Seq(S), NEW x \in S, NEW y \in S
  PROVE  <<y, x>> \o q = <<y>> \o (<<x>> \o q)
OBVIOUS

(* stopRecord(): what it does to the tree before it calls ~Context ...     *)
StopEffect(r, target) ==
  /\ HostsKept /\ ListsRight'
  /\ \A sc \in ScopeIds : ScopeKept(sc)
  /\ \A q \in RecIds \ {r} : recs'[q] = recs[q]
  /\ Live(r)' /\ recs'[r].state = target /\ recs'[r].host = recs[r].host
  /\ recs'[r].plugin = recs[r].plugin /\ recs'[r].lib = recs[r].lib
  /\ \A sc \in ScopeIds : Exists(sc)' = Exists(sc)
  /\ \A sc \in ScopeIds : Exists(sc) =>
       scopes'[sc].records = scopes[sc].records /\ scopes'[sc].retired = scopes[sc].retired
       /\ scopes'[sc].provided = scopes[sc].provided

(* stopRecord() leaves the tree as StopEffect says.                        *)
LEMMA StopTreeKept ==
  ASSUME TypeOK, ListsRight, NEW r, Live(r), MustStop(r),
         NEW target \in {"Deferred", "Failed", "Disposed"}, NEW rest, StopRecord(r, target, rest)
  PROVE  StopEffect(r, target)
<1>1. r \in RecIds /\ recs[r] \in LoadRecord /\ recs \in [RecIds -> LoadRecord \cup {NoRec}]
      /\ scopes \in [ScopeIds -> Scope \cup {Gone}]
  BY LiveRecord DEF TypeOK
<1>2. recs' = [recs EXCEPT ![r] = Stopped(r, target)]
  BY DEF StopRecord
<1>3. /\ recs'[r].state = target /\ recs'[r].host = recs[r].host
      /\ recs'[r].plugin = recs[r].plugin /\ recs'[r].lib = recs[r].lib
      /\ recs'[r] \in LoadRecord /\ \A q \in RecIds \ {r} : recs'[q] = recs[q]
  <2>1. /\ Stopped(r, target).state = target /\ Stopped(r, target).host = recs[r].host
        /\ Stopped(r, target).plugin = recs[r].plugin /\ Stopped(r, target).lib = recs[r].lib
        /\ Stopped(r, target) \in LoadRecord
    BY <1>1 DEF Stopped, LoadRecord, States
  <2>. QED  BY <1>1, <1>2, <2>1
<1>4. Live(r)'
  BY <1>1, <1>3, NullAssumption DEF Live
<1>5. HostsKept
  BY <1>1, <1>3 DEF HostsKept, Live
<1>6. \A sc \in ScopeIds :
        \/ scopes'[sc] = scopes[sc]
        \/ Exists(sc) /\ scopes'[sc] = [scopes[sc] EXCEPT !.alive = FALSE]
  <2>. DEFINE d == recs[r].scope
  <2>1. CASE d = NoScope
    BY <2>1 DEF StopRecord
  <2>2. CASE d # NoScope
    <3>1. Exists(d) /\ scopes' = [scopes EXCEPT ![d].alive = FALSE]
      BY <2>2 DEF StopRecord
    <3>. QED  BY <1>1, <3>1 DEF Exists
  <2>. QED  BY <2>1, <2>2
<1>7. ASSUME NEW sc \in ScopeIds
      PROVE  /\ Exists(sc)' = Exists(sc)
             /\ Exists(sc) =>
                  /\ scopes'[sc].records = scopes[sc].records
                  /\ scopes'[sc].retired = scopes[sc].retired
                  /\ scopes'[sc].provided = scopes[sc].provided
                  /\ scopes'[sc].alive => scopes[sc].alive
  <2>1. CASE scopes'[sc] = scopes[sc]
    BY <2>1 DEF Exists
  <2>2. CASE Exists(sc) /\ scopes'[sc] = [scopes[sc] EXCEPT !.alive = FALSE]
    <3>1. scopes[sc] \in Scope
      BY <2>2, ExistingScope
    <3>2. /\ scopes'[sc] \in Scope
          /\ scopes'[sc].records = scopes[sc].records
          /\ scopes'[sc].retired = scopes[sc].retired
          /\ scopes'[sc].provided = scopes[sc].provided
          /\ scopes'[sc].alive = FALSE
      BY <2>2, <3>1 DEF Scope
    <3>. QED  BY <2>2, <3>2, NullAssumption DEF Exists
  <2>. QED  BY <1>6, <2>1, <2>2
<1>8. \A sc \in ScopeIds : ScopeKept(sc)
  BY <1>7 DEF ScopeKept
<1>9. ListsRight'
  <2>1. SUFFICES ASSUME NEW s \in ScopeIds, Exists(s)'
                 PROVE  /\ IsInjective(scopes'[s].records)
                        /\ \A k \in DOMAIN scopes'[s].records :
                             LET q == scopes'[s].records[k] IN
                             q \in RecIds /\ recs'[q] # NoRec /\ recs'[q].host = s
    BY DEF ListsRight, ListRight, Live
  <2>2. scopes'[s].records = scopes[s].records /\ ListRight(s)
    BY <1>7, <2>1 DEF ListsRight
  <2>3. \A q : Live(q) => q \in RecIds /\ recs'[q] # NoRec /\ recs'[q].host = recs[q].host
    BY <1>3, <1>4 DEF Live
  <2>. QED  BY <2>2, <2>3 DEF ListRight
<1>. QED  BY <1>3, <1>4, <1>5, <1>7, <1>8, <1>9 DEF StopEffect

(* ... and the calls it leaves: ~Context of the record's scope, if it has  *)
(* one, above the rest of stopRecord().                                    *)
LEMMA StopStackKept ==
  ASSUME TypeOK, NEW r, Live(r), MustStop(r), NEW target, NEW rest \in Seq(Suspended'),
         TeardownAbove(rest), StopRecord(r, target, rest)
  PROVE  StackRight' /\ TeardownAbove(stack')
<1>. DEFINE x == Call("stop", r, NoScope)
            d == recs[r].scope
<1>1. r \in RecIds /\ recs[r] \in LoadRecord /\ scopes \in [ScopeIds -> Scope \cup {Gone}]
  BY LiveRecord DEF TypeOK
<1>2. x \in Frame /\ x.op = "stop" /\ x.todo = {} /\ x.scope = NoScope
  <2>1. x \in Frame
    BY <1>1, CallType DEF Ops
  <2>. QED  BY <2>1 DEF Call
<1>3. rest \in Seq(Frame)
  BY DEF Suspended, RightFrames
<1>4. CASE d = NoScope
  <2>1. stack' = <<x>> \o rest
    BY <1>4 DEF StopRecord
  <2>. HIDE DEF x
  <2>2. x \in RightFrames'
    BY <1>2 DEF RightFrames, PointersRight, EraseRight, TeardownRight
  <2>3. \A j \in DOMAIN rest : \A sc \in ScopeIds : ~(WorksIn(x, sc) /\ TearsDown(rest[j], sc))
    BY <1>2 DEF WorksIn
  <2>. QED  BY <1>2, <1>3, <2>1, <2>2, <2>3, EnteredRight, AbovePush
<1>5. CASE d # NoScope
  <2>0. PICK y : y = [Call("dtor", NoRec, d) EXCEPT !.ix = Len(scopes[d].records)]
    OBVIOUS
  <2>1. Exists(d) /\ scopes' = [scopes EXCEPT ![d].alive = FALSE] /\ stack' = <<y, x>> \o rest
    BY <1>5, <2>0 DEF StopRecord
  <2>2. d \in ScopeIds /\ scopes[d] \in Scope
    BY <2>1, ExistingScope
  <2>3. scopes'[d].alive = FALSE /\ scopes'[d].records = scopes[d].records
    BY <1>1, <2>1, <2>2 DEF Scope
  <2>4. Len(scopes[d].records) \in Nat /\ DOMAIN scopes[d].records = 1..Len(scopes[d].records)
    BY <2>2 DEF Scope
  <2>5. /\ y \in Frame /\ y.op = "dtor" /\ y.todo = {} /\ y.scope = d
        /\ y.ix = Len(scopes[d].records) /\ y.val = FALSE
    <3>1. Call("dtor", NoRec, d) \in Frame
      BY <2>2, CallType DEF Ops
    <3>. QED  BY <2>0, <2>4, <3>1 DEF Call, Frame
  <2>. HIDE DEF x
  <2>6. stack' = <<y>> \o (<<x>> \o rest)
    BY SMTT(40), <1>2, <1>3, <2>1, <2>5, TwoPushed
  <2>7. x \in Suspended'
    BY <1>2 DEF Suspended, RightFrames, PointersRight, EraseRight, TeardownRight
  <2>8. <<x>> \o rest \in Seq(Suspended')
    <3>. DEFINE S == Suspended'
    <3>1. rest \in Seq(S) /\ x \in S
      BY <2>7
    <3>. HIDE DEF S
    <3>2. <<x>> \o rest \in Seq(S)
      BY <3>1, PushType
    <3>. QED  BY <3>2 DEF S
  <2>9. TeardownRight(y)'
    <3>1. \A k \in DOMAIN scopes'[y.scope].records : ~(k > y.ix) /\ ~y.val
      BY <2>3, <2>4, <2>5
    <3>2. scopes'[y.scope].alive = FALSE
      BY <2>3, <2>5
    <3>. QED  BY <2>5, <3>1, <3>2 DEF TeardownRight
  <2>10. y \in RightFrames'
    BY <2>5, <2>9 DEF RightFrames, PointersRight, EraseRight
  <2>11. StackRight'
    BY <2>6, <2>8, <2>10, EnteredRight
  <2>12. TeardownAbove(<<x>> \o rest)
    <3>1. \A j \in DOMAIN rest : \A sc \in ScopeIds : ~(WorksIn(x, sc) /\ TearsDown(rest[j], sc))
      BY <1>2 DEF WorksIn
    <3>. QED  BY <1>2, <1>3, <3>1, AbovePush
  <2>13. TeardownAbove(<<y>> \o (<<x>> \o rest))
    <3>1. <<x>> \o rest \in Seq(Frame)
      BY <1>2, <1>3, PushType
    <3>2. \A sc \in ScopeIds : ~WorksIn(y, sc)
      BY <2>5 DEF WorksIn
    <3>. QED  BY <2>5, <2>12, <3>1, <3>2, AbovePush
  <2>. QED  BY <2>6, <2>11, <2>13
<1>. QED  BY <1>4, <1>5

(* The calls that wait for stopRecord() stay right.                        *)
LEMMA StopRestKept ==
  ASSUME TypeOK, ListsRight, NEW r, Live(r), MustStop(r), NEW target,
         StopEffect(r, target), NEW q \in Seq(Known \cap Suspended)
  PROVE  q \in Seq(Suspended')
<1>1. ASSUME NEW i \in DOMAIN q PROVE FrameScopeKept(q[i]) /\ StillQuiet(q[i])
  <2>1. FrameScopeKept(q[i])
    BY DEF StopEffect, FrameScopeKept, ScopeKept, Exists
  <2>2. ~Quiet(r)
    BY DEF MustStop, Quiet
  <2>3. StillQuiet(q[i])
    BY <2>2 DEF StopEffect, StillQuiet
  <2>. QED  BY <2>1, <2>3
<1>. QED  BY <1>1, RestKept DEF StopEffect

(* Hence what waits for stopRecord() is still right.                       *)
LEMMA StopKept ==
  ASSUME TypeOK, ListsRight, NEW r, Live(r), NEW target \in {"Deferred", "Failed", "Disposed"},
         NEW rest \in Seq(Known \cap Suspended), TeardownAbove(rest),
         StopRecord(r, target, rest)
  PROVE  HostsKept /\ ListsRight' /\ StackRight' /\ TeardownAbove(stack')
<1>1. CASE ~MustStop(r)
  BY <1>1, ReturnKept DEF StopRecord
<1>2. CASE MustStop(r)
  <2>1. StopEffect(r, target)
    BY <1>2, StopTreeKept
  <2>2. rest \in Seq(Suspended')
    BY <1>2, <2>1, StopRestKept
  <2>3. StackRight' /\ TeardownAbove(stack')
    BY <1>2, <2>2, StopStackKept
  <2>. QED  BY <2>1, <2>3 DEF StopEffect
<1>. QED  BY <1>1, <1>2

(* A watcher starts, stops or calls the host only while its scope is       *)
(* alive: nobody is tearing that scope down.                               *)
LEMMA AliveNotTornDown ==
  ASSUME NEW q \in Seq(Suspended), NEW sc, Exists(sc), scopes[sc].alive
  PROVE  \A j \in DOMAIN q : ~TearsDown(q[j], sc)
<1>1. ASSUME NEW j \in DOMAIN q, TearsDown(q[j], sc) PROVE FALSE
  <2>1. TeardownRight(q[j])
    BY DEF Suspended, RightFrames
  <2>. QED  BY <1>1, <2>1 DEF TeardownRight, TearsDown
<1>. QED  BY <1>1

(* A watcher starts or stops one record, or hands over to the host.        *)
LEMMA CallWatcherKept ==
  ASSUME TypeOK, TypeOK', ListsRight, NEW w \in RightWatchers, NEW v \in BOOLEAN,
         NEW rest \in Seq(Known \cap Suspended), TeardownAbove(rest),
         CallWatcher(w, v, rest)
  PROVE  HostsKept /\ ListsRight' /\ StackRight' /\ TeardownAbove(stack')
<1>0. rest \in Seq(Suspended) /\ rest \in Seq(Frame) /\ w \in Watcher
  BY DEF Known, RightWatchers
<1>1. CASE ~HostAlive(w)
  BY <1>0, <1>1, ReturnKept DEF CallWatcher
<1>2. CASE HostAlive(w) /\ w.rec = NoRec
  <2>. DEFINE x == [Call("callback", NoRec, NoScope) EXCEPT !.val = v, !.todo = {w}]
  <2>1. Return(<<x>> \o rest)
    BY <1>2 DEF CallWatcher
  <2>2. x \in Frame /\ x.op = "callback" /\ x.todo = {w}
    <3>1. Call("callback", NoRec, NoScope) \in Frame
      BY CallType DEF Ops
    <3>. QED  BY <1>0, <3>1 DEF Call, Frame
  <2>. HIDE DEF x
  <2>3. x \in Suspended
    BY <2>2 DEF Suspended, RightFrames, PointersRight, EraseRight, TeardownRight
  <2>4. Exists(Root) /\ scopes[Root].alive
    BY <1>2 DEF RightWatchers, HostAlive
  <2>5. TeardownAbove(<<x>> \o rest)
    <3>1. \A j \in DOMAIN rest : \A sc \in ScopeIds : ~(WorksIn(x, sc) /\ TearsDown(rest[j], sc))
      BY <1>0, <2>2, <2>4, AliveNotTornDown DEF WorksIn
    <3>. QED  BY <1>0, <2>2, <3>1, AbovePush
  <2>6. <<x>> \o rest \in Seq(Suspended)
    BY <1>0, <2>3, PushType
  <2>. QED  BY <2>1, <2>5, <2>6, ReturnKept
<1>3. CASE HostAlive(w) /\ w.rec # NoRec
  <2>1. Live(w.rec) /\ recs[w.rec].host = w.host /\ Exists(w.host) /\ scopes[w.host].alive
    BY <1>3 DEF CallWatcher, RightWatchers, HostAlive
  <2>2. CASE v
    <3>1. EnsureStarted(w.rec, rest)
      BY <1>3, <2>2 DEF CallWatcher
    <3>2. \A j \in DOMAIN rest : ~TearsDown(rest[j], recs[w.rec].host)
      BY <1>0, <2>1, AliveNotTornDown
    <3>. QED  BY <2>1, <3>1, <3>2, StartKept
  <2>3. CASE ~v /\ recs[w.rec].state = "Active"
    <3>1. StopRecord(w.rec, "Deferred", rest)
      BY <1>3, <2>3 DEF CallWatcher
    <3>. QED  BY <2>1, <3>1, StopKept
  <2>4. CASE ~v /\ recs[w.rec].state # "Active"
    BY <1>0, <1>3, <2>4, ReturnKept DEF CallWatcher
  <2>. QED  BY <2>2, <2>3, <2>4
<1>. QED  BY <1>1, <1>2, <1>3

-----------------------------------------------------------------------------
(* Lists that grow and shrink.                                             *)

(* Without one position, a list that has no repetition names the others.   *)
LEMMA RemovedInjective ==
  ASSUME NEW S, NEW q \in Seq(S), NEW n \in DOMAIN q, IsInjective(q)
  PROVE  /\ RemoveAt(q, n) \in Seq(S) /\ IsInjective(RemoveAt(q, n))
         /\ \A k \in DOMAIN RemoveAt(q, n) :
              \E j \in DOMAIN q : /\ j # n /\ RemoveAt(q, n)[k] = q[j]
                                  /\ k < n => j = k
                                  /\ k >= n => j = k + 1
<1>1. DOMAIN q = 1..Len(q) /\ Len(q) \in Nat /\ n \in 1..Len(q)
  BY SMTT(40), LenProperties
<1>. DEFINE r == RemoveAt(q, n)
<1>2. /\ r \in Seq(S) /\ Len(r) = Len(q) - 1
      /\ \A i \in 1..(Len(q) - 1) : r[i] = IF i < n THEN q[i] ELSE q[i + 1]
  BY Zenon, <1>1, RemovedPosition
<1>. HIDE DEF r
<1>3. DOMAIN r = 1..(Len(q) - 1)
  BY <1>2, LenProperties
<1>. DEFINE up(i) == IF i < n THEN i ELSE i + 1
<1>4. \A i \in DOMAIN r : /\ up(i) \in DOMAIN q /\ up(i) # n /\ r[i] = q[up(i)]
                          /\ i < n => up(i) = i
                          /\ i >= n => up(i) = i + 1
  <2>1. \A i \in 1..(Len(q) - 1) : up(i) \in 1..Len(q) /\ up(i) # n
    BY <1>1
  <2>2. \A i \in 1..(Len(q) - 1) : (i < n => up(i) = i) /\ (i >= n => up(i) = i + 1)
    BY <1>1
  <2>3. \A i \in 1..(Len(q) - 1) : r[i] = q[up(i)]
    BY <1>2
  <2>. HIDE DEF up
  <2>. QED  BY <1>1, <1>3, <2>1, <2>2, <2>3
<1>5. \A i, j \in DOMAIN r : up(i) = up(j) => i = j
  BY <1>1, <1>3
<1>. HIDE DEF up
<1>6. IsInjective(r)
  BY <1>4, <1>5 DEF IsInjective
<1>. QED  BY <1>2, <1>4, <1>6 DEF r

(* When the list of a scope changes from position n on, the iterators      *)
(* there are marked, and the calls that wait stay right.                   *)
MarkedFrom(q, p, sc, n) ==
  /\ p \in Seq(Frame) /\ DOMAIN p = DOMAIN q
  /\ \A i \in DOMAIN q :
       /\ p[i].op = q[i].op /\ p[i].scope = q[i].scope
       /\ p[i].rec = q[i].rec /\ p[i].todo = q[i].todo /\ p[i].ix = q[i].ix
       /\ IF q[i].op = "erase" /\ q[i].scope = sc /\ q[i].ix >= n
          THEN p[i].val = TRUE ELSE p[i] = q[i]

(* Erasing from a list marks the frames that hold a later iterator into it *)
(* and changes nothing else in them.                                       *)
LEMMA InvalidateSame ==
  ASSUME NEW q \in Seq(Frame), NEW sc, NEW n \in Nat
  PROVE  MarkedFrom(q, Invalidate(q, sc, n), sc, n)
<1>1. Invalidate(q, sc, n) \in Seq(Frame)
  BY InvalidateType
<1>2. DOMAIN q = 1..Len(q)
  OBVIOUS
<1>3. ASSUME NEW i \in DOMAIN q
      PROVE  LET f == [q[i] EXCEPT !.val = TRUE] IN
             /\ f.op = q[i].op /\ f.scope = q[i].scope /\ f.rec = q[i].rec
             /\ f.todo = q[i].todo /\ f.ix = q[i].ix /\ f.val = TRUE
  <2>1. q[i] \in Frame
    OBVIOUS
  <2>. QED  BY <2>1 DEF Frame
<1>. QED  BY <1>1, <1>2, <1>3 DEF Invalidate, MarkedFrom

(* The marks do not change which scopes are torn down above which calls.   *)
LEMMA InvalidatedAbove ==
  ASSUME NEW q \in Seq(Frame), NEW sc, NEW n \in Nat, TeardownAbove(q)
  PROVE  TeardownAbove(Invalidate(q, sc, n))
<1>1. PICK p : p = Invalidate(q, sc, n)
  OBVIOUS
<1>2. MarkedFrom(q, p, sc, n)
  BY <1>1, InvalidateSame
<1>3. /\ p \in Seq(Frame) /\ DOMAIN p = DOMAIN q
      /\ \A i \in DOMAIN q : p[i].op = q[i].op /\ p[i].scope = q[i].scope
  BY <1>2 DEF MarkedFrom
<1>. QED  BY <1>1, <1>3, AboveSame

(* When a list loses what stands at n, or from n on, the frames that       *)
(* relied on a later place in it are marked, and what they rely on now is  *)
(* right.                                                                  *)
LEMMA InvalidatedKept ==
  ASSUME TypeOK, ListsRight, ListsRight', HostsKept,
         NEW sc \in ScopeIds, NEW n \in Nat, NEW q \in Seq(Known \cap Suspended), Exists(sc),
         \A s \in ScopeIds \ {sc} : ScopeKept(s),
         \A k \in DOMAIN scopes'[sc].records : ~(k >= n) =>
           k \in DOMAIN scopes[sc].records /\ scopes'[sc].records[k] = scopes[sc].records[k],
         \A k \in DOMAIN scopes[sc].records : ~(k >= n) => k \in DOMAIN scopes'[sc].records,
         \A i \in DOMAIN q : StillQuiet(q[i]) /\ (TearsDown(q[i], sc) => TeardownRight(q[i])')
  PROVE  Invalidate(q, sc, n) \in Seq(Suspended')
<1>. DEFINE p == Invalidate(q, sc, n)
<1>1. q \in Seq(Frame)
  BY DEF Known
<1>2. MarkedFrom(q, p, sc, n)
  BY <1>1, InvalidateSame
<1>. HIDE DEF p
<1>3. /\ p \in Seq(Frame) /\ DOMAIN p = DOMAIN q
      /\ \A i \in DOMAIN q :
           /\ p[i].op = q[i].op /\ p[i].scope = q[i].scope
           /\ p[i].rec = q[i].rec /\ p[i].todo = q[i].todo /\ p[i].ix = q[i].ix
           /\ IF q[i].op = "erase" /\ q[i].scope = sc /\ q[i].ix >= n
              THEN p[i].val = TRUE ELSE p[i] = q[i]
  BY <1>2 DEF MarkedFrom
<1>4. ASSUME NEW i \in DOMAIN q PROVE p[i] \in Suspended'
  <2>0. q[i] \in Known \cap Suspended
    OBVIOUS
  <2>1. PICK f \in Known \cap Suspended : f = q[i]
    BY <2>0
  <2>2. CASE f.scope # sc
    <3>1. FrameScopeKept(f)
      BY <2>2 DEF FrameScopeKept, ScopeKept, Exists
    <3>2. f \in Suspended'
      BY <2>1, <3>1, FrameKept
    <3>. QED  BY <1>3, <2>1, <2>2, <3>2
  <2>3. CASE f.scope = sc
    <3>1. PICK g \in Frame : g = p[i]
      BY <1>3
    <3>2. /\ g.op = f.op /\ g.scope = sc /\ g.rec = f.rec /\ g.todo = f.todo /\ g.ix = f.ix
          /\ IF f.op = "erase" /\ f.ix >= n THEN g.val = TRUE ELSE g = f
      BY <1>3, <2>1, <2>3, <3>1
    <3>3. PointersRight(f)'
      BY PointersKept DEF Suspended, RightFrames
    <3>4. PointersRight(g)'
      BY <2>3, <3>2, <3>3 DEF PointersRight
    <3>5. f.op = "erase" /\ Live(f.rec)' => recs'[f.rec].state = "Disposed"
      <4>1. SUFFICES ASSUME f.op = "erase", Live(f.rec)' PROVE recs'[f.rec].state = "Disposed"
        OBVIOUS
      <4>2. Live(f.rec) /\ f.rec \in RecIds
        BY <4>1 DEF HostsKept, Known, Live
      <4>3. recs[f.rec].state = "Disposed"
        BY <4>1, <4>2 DEF Suspended
      <4>4. StillQuiet(f)
        BY <2>1
      <4>. QED  BY <4>1, <4>2, <4>3, <4>4 DEF StillQuiet, Quiet
    <3>6. EraseRight(g)'
      <4>1. g.op = "erase" /\ Live(g.rec)' => Quiet(g.rec)'
        BY <3>2, <3>5 DEF Quiet
      <4>2. ASSUME g.op = "erase", ~g.val
            PROVE  g = f /\ ~(f.ix >= n) /\ EraseRight(f)
        BY <3>2, <4>2 DEF Suspended, RightFrames
      <4>3. ASSUME g.op = "erase", ~g.val, g.ix \in DOMAIN scopes'[sc].records
            PROVE  scopes'[sc].records[g.ix] = g.rec
        <5>1. f.ix \in DOMAIN scopes[sc].records /\ scopes'[sc].records[f.ix] = scopes[sc].records[f.ix]
          BY <4>2, <4>3
        <5>. QED  BY <2>3, <4>2, <4>3, <5>1 DEF EraseRight
      <4>4. ASSUME g.op = "erase", ~g.val, Live(g.rec)'
            PROVE  g.ix \in DOMAIN scopes'[sc].records
        <5>1. Live(f.rec)
          BY <4>2, <4>4 DEF HostsKept, Known
        <5>2. f.ix \in DOMAIN scopes[sc].records
          BY <2>3, <3>2, <4>2, <4>4, <5>1 DEF EraseRight
        <5>. QED  BY <4>2, <4>4, <5>2
      <4>. QED  BY <3>2, <4>1, <4>3, <4>4 DEF EraseRight
    <3>7. TeardownRight(g)'
      <4>1. CASE f.op \in {"dtor", "revoke"}
        <5>1. TeardownRight(f)' /\ g = f
          BY <2>1, <2>3, <3>2, <4>1 DEF TearsDown
        <5>. QED  BY <5>1
      <4>2. CASE f.op \notin {"dtor", "revoke"}
        BY <3>2, <4>2 DEF TeardownRight
      <4>. QED  BY <4>1, <4>2
    <3>8. g \in Suspended'
      BY <3>2, <3>4, <3>5, <3>6, <3>7 DEF Suspended, RightFrames
    <3>. QED  BY <3>1, <3>8
  <2>. QED  BY <2>2, <2>3
<1>5. p \in Seq(Suspended')
  BY <1>3, <1>4
<1>. QED  BY <1>5 DEF p

(* addRecord(): a scope grows only while no call tears it down.            *)
LEMMA AddKept ==
  ASSUME TypeOK, TypeOK', ListsRight, NEW sc, Exists(sc), NEW p \in Plugins,
         NEW rest \in Seq(Known \cap Suspended), TeardownAbove(rest),
         \A j \in DOMAIN rest : ~TearsDown(rest[j], sc),
         AddRecord(sc, p, rest)
  PROVE  HostsKept /\ ListsRight' /\ StackRight' /\ TeardownAbove(stack')
<1>0. rest \in Seq(Frame) /\ sc \in ScopeIds /\ scopes[sc] \in Scope
  BY ExistingScope DEF Known
<1>. DEFINE new == [plugin |-> p, host |-> sc, state |-> "Deferred", scope |-> NoScope,
                    tokens |-> {}, inst |-> 0, lib |-> Form[p] = "dynamic", uses |-> {}]
<1>1. PICK r \in RecIds :
        /\ IsFresh(r, RecIds, UsedRecs)
        /\ recs' = [recs EXCEPT ![r] = new]
        /\ scopes' = [scopes EXCEPT ![sc].records = Append(@, r)]
        /\ stack' = <<[Call("arm", r, sc) EXCEPT !.ix = 1]>> \o Invalidate(rest, sc, 1)
  BY DEF AddRecord
<1>2. ~Live(r) /\ r \notin UsedRecs
  BY <1>1, LiveKnown DEF IsFresh
<1>3. recs \in [RecIds -> LoadRecord \cup {NoRec}] /\ scopes \in [ScopeIds -> Scope \cup {Gone}]
  BY DEF TypeOK
<1>4. /\ recs'[r].host = sc /\ recs'[r].state = "Deferred" /\ Live(r)'
      /\ \A q \in RecIds \ {r} : recs'[q] = recs[q]
  <2>1. new.host = sc /\ new.state = "Deferred" /\ new \in LoadRecord
    BY <1>0 DEF LoadRecord, States
  <2>. HIDE DEF new
  <2>2. recs'[r] = new /\ \A q \in RecIds \ {r} : recs'[q] = recs[q]
    BY <1>1, <1>3
  <2>. QED  BY <2>1, <2>2, NullAssumption DEF Live
<1>. DEFINE list == scopes[sc].records
<1>5. /\ scopes'[sc].records = Append(list, r) /\ scopes'[sc].alive = scopes[sc].alive
      /\ \A s \in ScopeIds \ {sc} : scopes'[s] = scopes[s]
  BY <1>0, <1>1, <1>3 DEF Scope
<1>6. HostsKept
  BY <1>2, <1>4 DEF HostsKept, Live
<1>7. list \in Seq(RecIds) /\ DOMAIN list = 1..Len(list) /\ ListRight(sc)
  BY <1>0 DEF Scope, ListsRight
<1>8. r \notin ToSet(list)
  BY <1>2, <1>7 DEF ListRight, ToSet
<1>. HIDE DEF list
<1>9. IsInjective(Append(list, r)) /\ ToSet(Append(list, r)) = ToSet(list) \cup {r}
  <2>1. IsInjective(list)
    BY <1>7 DEF ListRight, list
  <2>. QED  BY <1>7, <1>8, <2>1, AppendInjectiveSequence
<1>10. ListsRight'
  <2>1. SUFFICES ASSUME NEW s \in ScopeIds, Exists(s)'
                 PROVE  /\ IsInjective(scopes'[s].records)
                        /\ \A k \in DOMAIN scopes'[s].records :
                             LET q == scopes'[s].records[k] IN
                             q \in RecIds /\ recs'[q] # NoRec /\ recs'[q].host = s
    BY DEF ListsRight, ListRight, Live
  <2>2. \A q : Live(q) => q \in RecIds /\ recs'[q] # NoRec /\ recs'[q].host = recs[q].host
    BY <1>2, <1>4 DEF Live
  <2>3. CASE s # sc
    <3>1. scopes'[s] = scopes[s] /\ ListRight(s)
      BY <1>5, <2>1, <2>3 DEF Exists, ListsRight
    <3>. QED  BY <2>2, <3>1 DEF ListRight
  <2>4. CASE s = sc
    <3>1. \A q \in ToSet(list) : Live(q) /\ recs[q].host = sc
      BY <1>7 DEF ListRight, ToSet, list
    <3>2. \A q \in ToSet(Append(list, r)) : q \in RecIds /\ recs'[q] # NoRec /\ recs'[q].host = sc
      BY <1>4, <1>9, <2>2, <3>1 DEF Live
    <3>3. \A k \in DOMAIN Append(list, r) : Append(list, r)[k] \in ToSet(Append(list, r))
      BY DEF ToSet
    <3>. QED  BY <1>5, <1>9, <2>4, <3>2, <3>3
  <2>. QED  BY <2>3, <2>4
<1>11. Invalidate(rest, sc, 1) \in Seq(Suspended')
  <2>1. \A s \in ScopeIds \ {sc} : ScopeKept(s)
    BY <1>5 DEF ScopeKept, Exists
  <2>2. \A k \in DOMAIN scopes'[sc].records : ~(k >= 1) =>
          k \in DOMAIN scopes[sc].records /\ scopes'[sc].records[k] = scopes[sc].records[k]
    <3>1. DOMAIN scopes'[sc].records = 1..(Len(list) + 1)
      BY <1>5, <1>7
    <3>. QED  BY <3>1
  <2>4. \A k \in DOMAIN scopes[sc].records : ~(k >= 1) => k \in DOMAIN scopes'[sc].records
    BY <1>7 DEF list
  <2>3. \A i \in DOMAIN rest : StillQuiet(rest[i]) /\ (TearsDown(rest[i], sc) => TeardownRight(rest[i])')
    <3>1. \A i \in DOMAIN rest : StillQuiet(rest[i])
      BY <1>2, <1>4 DEF StillQuiet
    <3>. QED  BY <3>1
  <2>. QED  BY <1>0, <1>6, <1>10, <2>1, <2>2, <2>3, <2>4, InvalidatedKept
<1>12. PICK x : x = [Call("arm", r, sc) EXCEPT !.ix = 1]
  OBVIOUS
<1>13. x \in Frame /\ x.op = "arm" /\ x.rec = r /\ x.scope = sc /\ x.todo = {}
  <2>1. Call("arm", r, sc) \in Frame
    BY <1>0, CallType DEF Ops
  <2>. QED  BY <1>12, <2>1 DEF Call, Frame
<1>14. x \in RightFrames'
  BY <1>4, <1>13 DEF RightFrames, PointersRight, EraseRight, TeardownRight
<1>15. stack' = <<x>> \o Invalidate(rest, sc, 1)
  BY <1>1, <1>12
<1>16. TeardownAbove(stack')
  <2>1. PICK q : q = Invalidate(rest, sc, 1)
    OBVIOUS
  <2>2. MarkedFrom(rest, q, sc, 1)
    BY <1>0, <2>1, InvalidateSame
  <2>3. TeardownAbove(q) /\ q \in Seq(Frame)
    BY <1>0, <2>1, InvalidatedAbove, InvalidateType
  <2>4. \A j \in DOMAIN q : \A s \in ScopeIds : ~(WorksIn(x, s) /\ TearsDown(q[j], s))
    BY <1>13, <2>2 DEF MarkedFrom, WorksIn, TearsDown
  <2>. QED  BY <1>13, <1>15, <2>1, <2>3, <2>4, AbovePush
<1>17. StackRight'
  BY <1>11, <1>14, <1>15, EnteredRight
<1>. QED  BY <1>6, <1>10, <1>16, <1>17

(* unload(): the calls that wait are below the erase that follows.         *)
LEMMA UnloadKept ==
  ASSUME TypeOK, TypeOK', ListsRight, NEW sc, Exists(sc), NEW p,
         NEW rest \in Seq(Known \cap Suspended), TeardownAbove(rest),
         Unload(sc, p, rest)
  PROVE  HostsKept /\ ListsRight' /\ StackRight' /\ TeardownAbove(stack')
<1>0. rest \in Seq(Frame) /\ rest \in Seq(Suspended) /\ sc \in ScopeIds /\ scopes[sc] \in Scope
  BY ExistingScope DEF Known
<1>1. PICK i \in Named(sc, p) :
        /\ Live(scopes[sc].records[i])
        /\ StopRecord(scopes[sc].records[i], "Disposed",
             <<[Call("erase", scopes[sc].records[i], sc) EXCEPT !.ix = i]>> \o rest)
  BY DEF Unload
<1>2. PICK r : r = scopes[sc].records[i]
  OBVIOUS
<1>3. PICK x : x = [Call("erase", r, sc) EXCEPT !.ix = i]
  OBVIOUS
<1>4. Live(r) /\ r \in RecIds /\ StopRecord(r, "Disposed", <<x>> \o rest)
  BY <1>1, <1>2, <1>3 DEF Live
<1>5. /\ x \in Frame /\ x.op = "erase" /\ x.rec = r /\ x.scope = sc /\ x.ix = i
      /\ x.val = FALSE /\ x.todo = {}
  <2>1. i \in Nat
    BY <1>0 DEF Named, Scope
  <2>2. Call("erase", r, sc) \in Frame
    BY <1>0, <1>4, CallType DEF Ops
  <2>. QED  BY <1>3, <2>1, <2>2 DEF Call, Frame
<1>6. recs[r].host = sc /\ i \in DOMAIN scopes[sc].records
  BY <1>0, <1>2 DEF ListsRight, ListRight, Named
<1>7. TeardownAbove(<<x>> \o rest)
  <2>1. \A s \in ScopeIds : ~WorksIn(x, s)
    BY <1>5 DEF WorksIn
  <2>. QED  BY <1>0, <1>5, <2>1, AbovePush
<1>8. CASE MustStop(r)
  <2>1. StopEffect(r, "Disposed")
    BY <1>4, <1>8, StopTreeKept
  <2>2. rest \in Seq(Suspended')
    BY <1>4, <1>8, <2>1, StopRestKept
  <2>3. x \in Suspended'
    <3>1. PointersRight(x)' /\ EraseRight(x)'
      BY <1>0, <1>2, <1>5, <1>6, <2>1 DEF PointersRight, EraseRight, StopEffect, Quiet
    <3>2. TeardownRight(x)' /\ recs'[x.rec].state = "Disposed"
      BY <1>5, <2>1 DEF TeardownRight, StopEffect
    <3>. QED  BY <1>5, <3>1, <3>2 DEF Suspended, RightFrames
  <2>4. <<x>> \o rest \in Seq(Suspended')
    <3>1. PICK S : S = Suspended'
      OBVIOUS
    <3>2. <<x>> \o rest \in Seq(S)
      BY <2>2, <2>3, <3>1, PushType
    <3>. QED  BY <3>1, <3>2
  <2>5. StackRight' /\ TeardownAbove(stack')
    BY <1>4, <1>7, <1>8, <2>4, StopStackKept
  <2>. QED  BY <2>1, <2>5 DEF StopEffect
<1>9. CASE ~MustStop(r)
  <2>1. UNCHANGED <<recs, scopes>> /\ stack' = <<x>> \o rest
    BY <1>4, <1>9 DEF StopRecord, Return
  <2>2. recs[r].state \in {"Deferred", "Disposed"}
    <3>1. recs[r].state \in States
      BY <1>4, LiveRecord DEF LoadRecord
    <3>. QED  BY <1>9, <3>1 DEF States, MustStop
  <2>4. HostsKept /\ ListsRight'
    BY SMTT(40), <2>1 DEF HostsKept, ListsRight, ListRight, Live, Exists
  <2>5. Suspended' = Suspended
    <3>1. RightWatchers' = RightWatchers
      BY <2>1 DEF RightWatchers, Live
    <3>2. ASSUME NEW f PROVE PointersRight(f)' <=> PointersRight(f)
      BY <2>1, <3>1 DEF PointersRight, Live
    <3>3. ASSUME NEW f PROVE EraseRight(f)' <=> EraseRight(f)
      BY <2>1 DEF EraseRight, Live, Quiet, Exists
    <3>4. ASSUME NEW f PROVE TeardownRight(f)' <=> TeardownRight(f)
      BY <2>1 DEF TeardownRight, Quiet, Exists
    <3>5. RightFrames' = RightFrames
      BY <3>2, <3>3, <3>4 DEF RightFrames
    <3>. QED  BY <2>1, <3>5 DEF Suspended, Live
  <2>6. x \in RightFrames'
    <3>1. PointersRight(x)' /\ EraseRight(x)' /\ TeardownRight(x)'
      BY <1>2, <1>5, <1>6, <2>1, <2>2 DEF PointersRight, EraseRight, TeardownRight, Quiet, Live
    <3>. QED  BY <1>5, <3>1 DEF RightFrames
  <2>7. StackRight'
    BY <1>0, <2>1, <2>5, <2>6, EnteredRight
  <2>. QED  BY <1>7, <2>1, <2>4, <2>7
<1>. QED  BY <1>8, <1>9

-----------------------------------------------------------------------------
(* Steps that change neither the lists nor what the calls count on.        *)
DetailsOnly ==
  /\ \A q \in RecIds : /\ Live(q)' = Live(q)
                       /\ Live(q) => recs'[q].host = recs[q].host /\ recs'[q].state = recs[q].state
  /\ \A s \in ScopeIds : /\ Exists(s)' = Exists(s)
                         /\ Exists(s) => /\ scopes'[s].records = scopes[s].records
                                         /\ scopes'[s].alive = scopes[s].alive

(* Changing what no suspended call relies on keeps all of them right.      *)
LEMMA DetailsKept ==
  ASSUME TypeOK, ListsRight, DetailsOnly
  PROVE  HostsKept /\ ListsRight' /\ Suspended \subseteq Suspended'
<1>1. HostsKept
  BY DEF DetailsOnly, HostsKept, Live
<1>2. ListsRight'
  BY DEF DetailsOnly, ListsRight, ListRight, Live, Exists
<1>3. RightWatchers \subseteq RightWatchers'
  BY DEF DetailsOnly, RightWatchers, Live
<1>4. ASSUME NEW f \in Suspended PROVE f \in Suspended'
  <2>1. f \in Frame /\ PointersRight(f) /\ EraseRight(f) /\ TeardownRight(f)
        /\ (f.op = "erase" /\ Live(f.rec) => recs[f.rec].state = "Disposed")
    BY DEF Suspended, RightFrames
  <2>2. PointersRight(f)'
    BY <1>3, <2>1 DEF PointersRight, DetailsOnly, Live
  <2>3. f.op = "erase" /\ Live(f.rec)' => recs'[f.rec].state = "Disposed"
    BY <2>1 DEF DetailsOnly, Live
  <2>4. EraseRight(f)'
    <3>1. f.op = "erase" /\ Live(f.rec)' => Quiet(f.rec)'
      BY <2>3 DEF Quiet
    <3>2. ASSUME f.op = "erase", Exists(f.scope)', ~f.val
          PROVE  /\ Live(f.rec)' => f.ix \in DOMAIN scopes'[f.scope].records
                 /\ f.ix \in DOMAIN scopes'[f.scope].records => scopes'[f.scope].records[f.ix] = f.rec
      <4>1. Exists(f.scope) /\ scopes'[f.scope].records = scopes[f.scope].records
        BY <3>2 DEF DetailsOnly, Exists
      <4>2. Live(f.rec)' => Live(f.rec)
        BY DEF DetailsOnly, Live
      <4>. QED  BY <2>1, <3>2, <4>1, <4>2 DEF EraseRight
    <3>. QED  BY <3>1, <3>2 DEF EraseRight
  <2>5. TeardownRight(f)'
    <3>1. SUFFICES ASSUME f.op \in {"dtor", "revoke"}, Exists(f.scope)'
                   PROVE  /\ ~scopes'[f.scope].alive
                          /\ f.op = "revoke" => scopes'[f.scope].records = <<>>
                          /\ f.op = "dtor" =>
                               \A k \in DOMAIN scopes'[f.scope].records :
                                 (k > f.ix \/ (k = f.ix /\ f.val)) =>
                                   recs'[scopes'[f.scope].records[k]].state \in {"Deferred", "Disposed"}
      BY DEF TeardownRight, Quiet
    <3>2. f.scope \in ScopeIds /\ Exists(f.scope) /\ scopes'[f.scope].records = scopes[f.scope].records
          /\ scopes'[f.scope].alive = scopes[f.scope].alive
      BY <3>1 DEF DetailsOnly, Exists
    <3>3. \A k \in DOMAIN scopes[f.scope].records : Live(scopes[f.scope].records[k])
      BY <3>2 DEF ListsRight, ListRight
    <3>. QED  BY <2>1, <3>1, <3>2, <3>3 DEF TeardownRight, DetailsOnly, Quiet, Live
  <2>. QED  BY <2>1, <2>2, <2>3, <2>4, <2>5 DEF Suspended, RightFrames
<1>. QED  BY <1>1, <1>2, <1>4

(* A step of that kind preserves the invariant.                            *)
LEMMA DetailsStep ==
  ASSUME TypeOK, ListsRight, DetailsOnly, NEW q \in Seq(Suspended), TeardownAbove(q), stack' = q
  PROVE  HostsKept /\ ListsRight' /\ StackRight' /\ TeardownAbove(stack')
<1>1. HostsKept /\ ListsRight' /\ Suspended \subseteq Suspended'
  BY DetailsKept
<1>2. q \in Seq(Suspended')
  BY <1>1, LargerSeq
<1>3. q # <<>> => Head(q) \in Suspended' /\ Tail(q) \in Seq(Suspended')
  BY <1>2
<1>4. Suspended' \subseteq RightFrames'
  BY DEF Suspended
<1>5. StackRight'
  BY <1>3, <1>4 DEF StackRight
<1>. QED  BY <1>1, <1>5

(* The running call and those that wait for it.                            *)
LEMMA TopRight ==
  ASSUME TreeInv, NEW op, Running(op)
  PROVE  /\ Top \in RightFrames \cap Known /\ Top.op = op
         /\ Below \in Seq(Known \cap Suspended) /\ Below \in Seq(Frame)
         /\ TeardownAbove(Below)
         /\ \A j \in DOMAIN Below : \A sc \in ScopeIds :
              ~(WorksIn(Top, sc) /\ TearsDown(Below[j], sc))
         /\ op # "erase" => Top \in Suspended /\ stack \in Seq(Known \cap Suspended)
<1>1. /\ stack = <<Top>> \o Below /\ stack \in Seq(Frame)
      /\ Top \in Frame /\ Top.op = op /\ Below \in Seq(Frame)
  BY RunningStack DEF TreeInv
<1>2. stack # <<>> /\ stack \in Seq(Known)
  BY StackKnown DEF Running, TreeInv
<1>3. Top \in Known /\ Below \in Seq(Known)
  BY <1>2, PopType DEF Top, Below
<1>4. Top \in RightFrames /\ Below \in Seq(Suspended)
  BY <1>2 DEF TreeInv, StackRight, Top, Below
<1>5. Below \in Seq(Known \cap Suspended)
  BY <1>3, <1>4
<1>6. TeardownAbove(Below) /\ \A j \in DOMAIN Below : \A sc \in ScopeIds :
              ~(WorksIn(Top, sc) /\ TearsDown(Below[j], sc))
  <2>1. TeardownAbove(<<Top>> \o Below)
    BY <1>1 DEF TreeInv
  <2>. QED  BY <1>1, <2>1, AbovePop
<1>7. ASSUME op # "erase" PROVE Top \in Suspended /\ stack \in Seq(Known \cap Suspended)
  <2>1. Top \in Suspended
    BY <1>1, <1>4, <1>7 DEF Suspended
  <2>2. <<Top>> \o Below \in Seq(Known \cap Suspended)
    BY <1>3, <1>5, <2>1, PushType
  <2>. QED  BY <1>1, <2>1, <2>2
<1>. QED  BY <1>1, <1>3, <1>4, <1>5, <1>6, <1>7

(* A call may be put back on the stack when it works where it worked       *)
(* before.                                                                 *)
LEMMA ResumedRight ==
  ASSUME TreeInv, NEW op, Running(op), NEW S, Below \in Seq(S), NEW g \in Frame \cap S,
         \A sc : WorksIn(g, sc) => WorksIn(Top, sc)
  PROVE  Resume(g) \in Seq(S) /\ TeardownAbove(Resume(g))
<1>1. Below \in Seq(Frame) /\ TeardownAbove(Below)
      /\ \A j \in DOMAIN Below : \A sc \in ScopeIds : ~(WorksIn(Top, sc) /\ TearsDown(Below[j], sc))
  BY TopRight
<1>2. TeardownAbove(<<g>> \o Below)
  BY <1>1, AbovePush
<1>3. <<g>> \o Below \in Seq(S)
  BY PushType
<1>. QED  BY <1>2, <1>3 DEF Resume

(* Between two calls of the host no call waits.                            *)
LEMMA NoneWaits ==
  <<>> \in Seq(Known \cap Suspended) /\ TeardownAbove(<<>>) /\ <<>> \in Seq(Suspended')
BY DEF TeardownAbove

(* What is left of the watchers stays right.                               *)
LEMMA TreeStep ==
  ASSUME TreeInv, TypeOK', HostsKept, ListsRight', StackRight', TeardownAbove(stack'),
         watchers' \subseteq watchers
  PROVE  TreeInv'
<1>1. watchers \subseteq RightWatchers'
  BY LiveKnown, WatchersKept DEF TreeInv
<1>. QED  BY <1>1 DEF TreeInv

(* Such steps are those that change other fields of a live record.         *)
LEMMA RecordDetails ==
  ASSUME TypeOK, NEW r, Live(r), NEW rec \in LoadRecord,
         recs' = [recs EXCEPT ![r] = rec],
         rec.host = recs[r].host, rec.state = recs[r].state, UNCHANGED scopes
  PROVE  DetailsOnly
<1>1. r \in RecIds /\ recs \in [RecIds -> LoadRecord \cup {NoRec}]
  BY DEF TypeOK, Live
<1>2. recs'[r] = rec /\ \A q \in RecIds \ {r} : recs'[q] = recs[q]
  BY <1>1
<1>. QED  BY <1>1, <1>2, NullAssumption DEF DetailsOnly, Live, Exists

(* provide() appends to the scope's list of services, and may call         *)
(* watchers.                                                               *)
LEMMA FireRight ==
  ASSUME watchers \subseteq RightWatchers, TypeOK, NEW v \in BOOLEAN, NEW s
  PROVE  /\ FireWatchers(v, Snapshot(s)) \in Suspended
         /\ \A sc : ~WorksIn(FireWatchers(v, Snapshot(s)), sc)
<1>1. Snapshot(s) \subseteq RightWatchers /\ Snapshot(s) \in SUBSET Watcher
  BY DEF Snapshot, RightWatchers
<1>2. PICK x : x = FireWatchers(v, Snapshot(s))
  OBVIOUS
<1>3. x \in Frame /\ x.op = "fire" /\ x.todo = Snapshot(s)
  <2>1. FireWatchers(v, Snapshot(s)) \in Frame
    BY <1>1, FireType
  <2>. QED  BY <1>2, <2>1 DEF FireWatchers, Call
<1>4. x \in Suspended /\ \A sc : ~WorksIn(x, sc)
  BY <1>1, <1>3 DEF Suspended, RightFrames, PointersRight, EraseRight, TeardownRight, WorksIn
<1>. QED  BY <1>2, <1>4

(* provide() adds to a service list; the watchers it wakes are the last    *)
(* call.                                                                   *)
LEMMA ProvideKept ==
  ASSUME TypeOK, ListsRight, watchers \subseteq RightWatchers, NEW s \in Services, NEW sc, Exists(sc),
         NEW rest \in Seq(Known \cap Suspended), TeardownAbove(rest), ProvideService(s, sc, rest)
  PROVE  HostsKept /\ ListsRight' /\ StackRight' /\ TeardownAbove(stack')
<1>0. rest \in Seq(Suspended) /\ rest \in Seq(Frame)
  BY DEF Known
<1>1. sc \in ScopeIds /\ scopes[sc] \in Scope /\ scopes \in [ScopeIds -> Scope \cup {Gone}]
  BY ExistingScope DEF TypeOK
<1>2. UNCHANGED recs /\ scopes' = [scopes EXCEPT ![sc].provided = Append(@, s)]
  BY DEF ProvideService
<1>3. /\ \A t \in ScopeIds \ {sc} : scopes'[t] = scopes[t]
      /\ scopes'[sc] \in Scope
      /\ scopes'[sc].records = scopes[sc].records /\ scopes'[sc].alive = scopes[sc].alive
  <2>. DEFINE longer == Append(scopes[sc].provided, s)
  <2>1. longer \in Seq(Services)
    BY <1>1 DEF Scope
  <2>2. scopes' = [scopes EXCEPT ![sc] = [scopes[sc] EXCEPT !.provided = longer]]
    BY <1>1, <1>2
  <2>. HIDE DEF longer
  <2>. QED  BY <1>1, <2>1, <2>2 DEF Scope
<1>4. DetailsOnly
  BY <1>2, <1>3, NullAssumption DEF DetailsOnly, Live, Exists
<1>5. CASE Appears(s, sc)
  <2>. DEFINE x == FireWatchers(TRUE, Snapshot(s))
  <2>1. x \in Suspended /\ \A t : ~WorksIn(x, t)
    BY FireRight
  <2>2. stack' = <<x>> \o rest
    BY <1>5 DEF ProvideService
  <2>. HIDE DEF x
  <2>3. x \in Frame
    BY <2>1 DEF Suspended, RightFrames
  <2>4. <<x>> \o rest \in Seq(Suspended)
    BY <1>0, <2>1, PushType
  <2>5. TeardownAbove(<<x>> \o rest)
    BY <1>0, <2>1, <2>3, AbovePush
  <2>. QED  BY <1>4, <2>2, <2>4, <2>5, DetailsStep
<1>6. CASE ~Appears(s, sc)
  <2>1. stack' = <<>> \o rest
    BY <1>6 DEF ProvideService
  <2>2. stack' = rest
    BY <1>0, <2>1
  <2>. QED  BY <1>0, <1>4, <2>2, DetailsStep
<1>. QED  BY <1>5, <1>6

-----------------------------------------------------------------------------
(* Every action keeps the tree right.                                      *)

(* A call of the host begins on an empty stack.                            *)
LEMMA HostCallsTree ==
  ASSUME TreeInv, TypeOK', HostCalls PROVE TreeInv'
<1>1. TypeOK /\ ListsRight
  BY DEF TreeInv
<1>2. CASE \E p \in Plugins : HostLoad(p)
  <2>1. PICK p \in Plugins : AddRecord(Root, p, <<>>) /\ Exists(Root)
    BY <1>2 DEF HostLoad, Idle
  <2>2. HostsKept /\ ListsRight' /\ StackRight' /\ TeardownAbove(stack')
    <3>1. \A j \in DOMAIN <<>> : ~TearsDown(<<>>[j], Root)
      OBVIOUS
    <3>. QED  BY <1>1, <2>1, <3>1, NoneWaits, AddKept
  <2>. QED  BY <2>1, <2>2, TreeStep DEF AddRecord
<1>3. CASE \E p \in HostUnloads : HostUnload(p)
  <2>1. PICK p : Unload(Root, p, <<>>) /\ Exists(Root)
    BY <1>3 DEF HostUnload, Idle
  <2>2. HostsKept /\ ListsRight' /\ StackRight' /\ TeardownAbove(stack')
    BY <1>1, <2>1, NoneWaits, UnloadKept
  <2>. QED  BY <2>1, <2>2, TreeStep DEF Unload
<1>4. CASE \E s \in Services : HostProvide(s)
  <2>1. PICK s \in Services : ProvideService(s, Root, <<>>) /\ Exists(Root)
    BY <1>4 DEF HostProvide, Idle
  <2>2. HostsKept /\ ListsRight' /\ StackRight' /\ TeardownAbove(stack')
    BY <1>1, <2>1, NoneWaits, ProvideKept DEF TreeInv
  <2>. QED  BY <2>1, <2>2, TreeStep DEF ProvideService
<1>5. CASE HostDestroy
  <2>1. Root \in ScopeIds /\ scopes[Root] \in Scope /\ scopes \in [ScopeIds -> Scope \cup {Gone}]
    BY <1>1, <1>5, ExistingScope DEF HostDestroy, Idle, TypeOK
  <2>2. UNCHANGED recs /\ scopes' = [scopes EXCEPT ![Root].alive = FALSE]
    BY <1>5 DEF HostDestroy
  <2>3. PICK y : y = [Call("dtor", NoRec, Root) EXCEPT !.ix = Len(scopes[Root].records)]
    OBVIOUS
  <2>4. stack' = <<y>> \o <<>>
    BY <1>5, <2>3 DEF HostDestroy
  <2>5. Len(scopes[Root].records) \in Nat /\ DOMAIN scopes[Root].records = 1..Len(scopes[Root].records)
    BY <2>1 DEF Scope
  <2>6. /\ y \in Frame /\ y.op = "dtor" /\ y.scope = Root /\ y.todo = {}
        /\ y.ix = Len(scopes[Root].records) /\ y.val = FALSE
    <3>1. Call("dtor", NoRec, Root) \in Frame
      BY <2>1, CallType DEF Ops
    <3>. QED  BY <2>3, <2>5, <3>1 DEF Call, Frame
  <2>7. /\ scopes'[Root].alive = FALSE /\ scopes'[Root].records = scopes[Root].records
        /\ scopes'[Root] \in Scope
        /\ \A s \in ScopeIds \ {Root} : scopes'[s] = scopes[s]
    BY <2>1, <2>2 DEF Scope
  <2>8. HostsKept
    BY <2>2 DEF HostsKept, Live
  <2>9. ListsRight'
    <3>1. \A s \in ScopeIds : Exists(s)' => Exists(s) /\ scopes'[s].records = scopes[s].records
      BY <1>5, <2>7 DEF Exists, HostDestroy, Idle
    <3>. QED  BY <1>1, <2>2, <3>1 DEF ListsRight, ListRight, Live
  <2>10. TeardownRight(y)'
    <3>1. \A k \in DOMAIN scopes'[y.scope].records : ~(k > y.ix) /\ ~y.val
      BY <2>5, <2>6, <2>7
    <3>2. scopes'[y.scope].alive = FALSE
      BY <2>6, <2>7
    <3>. QED  BY <2>6, <3>1, <3>2 DEF TeardownRight
  <2>11. y \in RightFrames'
    BY <2>6, <2>10 DEF RightFrames, PointersRight, EraseRight
  <2>12. StackRight'
    BY <2>4, <2>11, NoneWaits, EnteredRight
  <2>13. TeardownAbove(stack')
    <3>1. <<>> \in Seq(Frame) /\ TeardownAbove(<<>>) /\ DOMAIN <<>> = {}
      BY NoneWaits
    <3>. QED  BY <2>4, <2>6, <3>1, AbovePush
  <2>. QED  BY <1>5, <2>8, <2>9, <2>12, <2>13, TreeStep DEF HostDestroy
<1>. QED  BY <1>2, <1>3, <1>4, <1>5 DEF HostCalls

(* The actions that arm a new record.                                      *)
LEMMA ArmTree ==
  ASSUME TreeInv, TypeOK', ArmNext \/ ArmToken \/ ArmStarts PROVE TreeInv'
<1>0. TypeOK /\ ListsRight /\ Running("arm") /\ Live(Top.rec)
  BY DEF TreeInv, ArmNext, ArmToken, ArmStarts
<1>1. /\ Top \in Known \cap Suspended /\ Top \in Frame /\ Top.op = "arm"
      /\ Below \in Seq(Known \cap Suspended) /\ TeardownAbove(Below)
      /\ recs[Top.rec].host = Top.scope /\ PointersRight(Top)
  <2>1. Top \in Known \cap Suspended /\ Top.op = "arm"
        /\ Below \in Seq(Known \cap Suspended) /\ TeardownAbove(Below)
    BY <1>0, TopRight
  <2>2. PointersRight(Top) /\ Top \in Frame
    BY <2>1 DEF Suspended, RightFrames
  <2>. QED  BY <1>0, <2>1, <2>2 DEF PointersRight
<1>2. CASE ArmNext
  <2>. DEFINE s == Requires[recs[Top.rec].plugin][Top.ix]
  <2>1. PICK t \in Tokens :
          LET w == [tok |-> t, svc |-> s, rec |-> Top.rec, host |-> Top.scope] IN
          /\ Register(w)
          /\ CallWatcher(w, Available(s), Resume([Top EXCEPT !.todo = {w}]))
    BY Zenon, <1>2 DEF ArmNext
  <2>2. PICK w : w = [tok |-> t, svc |-> s, rec |-> Top.rec, host |-> Top.scope]
    OBVIOUS
  <2>3. watchers' = watchers \cup {w} /\ CallWatcher(w, Available(s), Resume([Top EXCEPT !.todo = {w}]))
    BY <2>1, <2>2 DEF Register
  <2>4. w \in RightWatchers /\ w.rec \in UsedRecs
    <3>1. w \in Watcher
      <4>1. w \in watchers'
        BY <2>3
      <4>. QED  BY <4>1 DEF TypeOK
    <3>2. w.rec = Top.rec /\ w.host = Top.scope /\ w.rec # NoRec
      BY <1>0, <2>2, ContextAssumption DEF Live
    <3>. QED  BY <1>0, <1>1, <3>1, <3>2, LiveKnown DEF RightWatchers
  <2>5. PICK g : g = [Top EXCEPT !.todo = {w}]
    OBVIOUS
  <2>6. g \in Frame /\ g.op = "arm" /\ g.rec = Top.rec /\ g.scope = Top.scope /\ g.todo = {w}
    <3>1. w \in Watcher
      BY <2>4 DEF RightWatchers
    <3>. QED  BY <1>1, <2>5, <3>1 DEF Frame
  <2>7. g \in Known \cap Suspended
    BY <1>0, <1>1, <2>4, <2>6 DEF Known, Suspended, RightFrames, PointersRight, EraseRight, TeardownRight
  <2>8. Resume(g) \in Seq(Known \cap Suspended) /\ TeardownAbove(Resume(g))
    <3>1. \A sc : WorksIn(g, sc) => WorksIn(Top, sc)
      BY <1>1, <2>6 DEF WorksIn
    <3>. QED  BY <1>0, <1>1, <2>6, <2>7, <3>1, ResumedRight
  <2>9. HostsKept /\ ListsRight' /\ StackRight' /\ TeardownAbove(stack')
    <3>1. CallWatcher(w, Available(s), Resume(g)) /\ Available(s) \in BOOLEAN
      BY <2>3, <2>5 DEF Available
    <3>. QED  BY <1>0, <2>4, <2>8, <3>1, CallWatcherKept
  <2>10. watchers' \subseteq RightWatchers'
    <3>1. \A v \in watchers \cup {w} : v.rec \in UsedRecs
      BY <2>4, LiveKnown
    <3>2. watchers \cup {w} \subseteq RightWatchers
      BY <2>4 DEF TreeInv
    <3>. QED  BY <2>3, <2>9, <3>1, <3>2, WatchersKept
  <2>. QED  BY SMTT(40), <2>9, <2>10 DEF TreeInv
<1>3. CASE ArmToken
  <2>1. PICK g : g = [Top EXCEPT !.todo = {}, !.ix = Top.ix + 1]
    OBVIOUS
  <2>2. g \in Frame /\ g.op = "arm" /\ g.rec = Top.rec /\ g.scope = Top.scope /\ g.todo = {}
    <3>1. Top.ix + 1 \in Nat
      BY <1>1 DEF Frame
    <3>. QED  BY <1>1, <2>1, <3>1 DEF Frame
  <2>3. g \in Known \cap Suspended
    BY <1>0, <1>1, <2>2 DEF Known, Suspended, RightFrames, PointersRight, EraseRight, TeardownRight
  <2>4. Resume(g) \in Seq(Known \cap Suspended) /\ TeardownAbove(Resume(g))
    <3>1. \A sc : WorksIn(g, sc) => WorksIn(Top, sc)
      BY <1>1, <2>2 DEF WorksIn
    <3>. QED  BY <1>0, <1>1, <2>2, <2>3, <3>1, ResumedRight
  <2>5. DetailsOnly
    <3>. DEFINE toks == recs[Top.rec].tokens \cup {w.tok : w \in Top.todo}
    <3>1. recs' = [recs EXCEPT ![Top.rec] = [recs[Top.rec] EXCEPT !.tokens = toks]] /\ UNCHANGED scopes
      BY <1>3 DEF ArmToken
    <3>2. recs[Top.rec] \in LoadRecord /\ toks \in SUBSET Tokens
      BY <1>0, <1>1, LiveRecord DEF Frame, LoadRecord, Watcher
    <3>. HIDE DEF toks
    <3>3. PICK rec : rec = [recs[Top.rec] EXCEPT !.tokens = toks]
      OBVIOUS
    <3>4. /\ rec \in LoadRecord /\ rec.host = recs[Top.rec].host
          /\ rec.state = recs[Top.rec].state
      BY <3>2, <3>3 DEF LoadRecord
    <3>. QED  BY <1>0, <3>1, <3>3, <3>4, RecordDetails
  <2>6. stack' = Resume(g) /\ Resume(g) \in Seq(Suspended)
    BY <1>3, <2>1, <2>4 DEF ArmToken
  <2>7. HostsKept /\ ListsRight' /\ StackRight' /\ TeardownAbove(stack')
    BY <1>0, <2>4, <2>5, <2>6, DetailsStep
  <2>. QED  BY <1>3, <2>7, TreeStep DEF ArmToken
<1>4. CASE ArmStarts
  <2>1. \A j \in DOMAIN Below : ~TearsDown(Below[j], recs[Top.rec].host)
    <3>1. Top.scope \in ScopeIds /\ WorksIn(Top, Top.scope)
      BY <1>1, <1>4 DEF ArmStarts, WorksIn, Exists
    <3>. QED  BY <1>0, <1>1, <3>1, TopRight
  <2>2. HostsKept /\ ListsRight' /\ StackRight' /\ TeardownAbove(stack')
    BY <1>0, <1>1, <1>4, <2>1, StartKept DEF ArmStarts
  <2>. QED  BY <1>4, <2>2, TreeStep DEF ArmStarts
<1>. QED  BY SMTT(40), <1>2, <1>3, <1>4

(* The actions of a plugin's body.                                         *)
LEMMA ApplyTree ==
  ASSUME TreeInv, TypeOK',
         \/ \E s \in Services : ApplyProvide(s)
         \/ \E p \in Plugins : ApplyLoad(p) \/ ApplyEvict(p)
         \/ ApplyReturns \/ ApplyThrows
  PROVE  TreeInv'
<1>0. TypeOK /\ ListsRight /\ Running("apply") /\ Live(Top.rec)
  BY DEF TreeInv, ApplyProvide, ApplyLoad, ApplyEvict, ApplyReturns, ApplyThrows, Applying
<1>1. /\ stack \in Seq(Known \cap Suspended) /\ TeardownAbove(stack)
      /\ Below \in Seq(Known \cap Suspended) /\ Below \in Seq(Suspended) /\ TeardownAbove(Below)
      /\ Top.op = "apply"
  BY <1>0, TopRight DEF TreeInv
<1>2. CASE \E s \in Services : ApplyProvide(s)
  <2>1. PICK s \in Services : ProvideService(s, Top.scope, stack) /\ Exists(Top.scope)
    BY <1>2 DEF ApplyProvide, Applying
  <2>2. HostsKept /\ ListsRight' /\ StackRight' /\ TeardownAbove(stack')
    BY <1>0, <1>1, <2>1, ProvideKept DEF TreeInv
  <2>. QED  BY <2>1, <2>2, TreeStep DEF ProvideService
<1>3. CASE \E p \in Plugins : ApplyLoad(p)
  <2>1. PICK p \in Plugins : AddRecord(Top.scope, p, stack) /\ Exists(Top.scope)
    BY <1>3 DEF ApplyLoad, Applying
  <2>2. \A j \in DOMAIN stack : ~TearsDown(stack[j], Top.scope)
    <3>1. Top.scope \in ScopeIds /\ WorksIn(Top, Top.scope) /\ ~TearsDown(Top, Top.scope)
      BY <1>1, <2>1 DEF WorksIn, TearsDown, Exists
    <3>2. stack = <<Top>> \o Below /\ Top \in Frame /\ Below \in Seq(Frame)
      BY <1>0, RunningStack
    <3>3. \A j \in DOMAIN Below : ~TearsDown(Below[j], Top.scope)
      BY <1>0, <3>1, TopRight
    <3>4. \A i \in DOMAIN (<<Top>> \o Below) :
            i = 1 \/ (i - 1 \in DOMAIN Below /\ (<<Top>> \o Below)[i] = Below[i - 1])
      BY <3>2, PushedPositions
    <3>5. (<<Top>> \o Below)[1] = Top
      BY <3>2, PushedPositions
    <3>. QED  BY <3>1, <3>2, <3>3, <3>4, <3>5
  <2>3. HostsKept /\ ListsRight' /\ StackRight' /\ TeardownAbove(stack')
    BY SMTT(40), <1>0, <1>1, <2>1, <2>2, AddKept
  <2>. QED  BY <2>1, <2>3, TreeStep DEF AddRecord
<1>4. CASE \E p \in Plugins : ApplyEvict(p)
  <2>1. PICK p : Unload(recs[Top.rec].host, p, stack) /\ Exists(recs[Top.rec].host)
    BY <1>4 DEF ApplyEvict
  <2>2. HostsKept /\ ListsRight' /\ StackRight' /\ TeardownAbove(stack')
    BY <1>0, <1>1, <2>1, UnloadKept
  <2>. QED  BY <2>1, <2>2, TreeStep DEF Unload
<1>5. CASE ApplyReturns
  <2>. DEFINE n == recs[Top.rec].inst + (IF Form[recs[Top.rec].plugin] = "class" THEN 1 ELSE 0)
  <2>1. /\ recs' = [recs EXCEPT ![Top.rec] = [recs[Top.rec] EXCEPT !.inst = n]]
        /\ UNCHANGED scopes /\ stack' = Below
    BY <1>5 DEF ApplyReturns
  <2>2. recs[Top.rec] \in LoadRecord
    BY <1>0, LiveRecord
  <2>3. n \in Nat
    BY <2>2 DEF LoadRecord
  <2>. HIDE DEF n
  <2>4. PICK rec : rec = [recs[Top.rec] EXCEPT !.inst = n]
    OBVIOUS
  <2>5. rec \in LoadRecord /\ rec.host = recs[Top.rec].host /\ rec.state = recs[Top.rec].state
    BY <2>2, <2>3, <2>4 DEF LoadRecord
  <2>6. DetailsOnly
    BY <1>0, <2>1, <2>4, <2>5, RecordDetails
  <2>7. HostsKept /\ ListsRight' /\ StackRight' /\ TeardownAbove(stack')
    BY <1>0, <1>1, <2>1, <2>6, DetailsStep
  <2>. QED  BY <1>5, <2>7, TreeStep DEF ApplyReturns
<1>6. CASE ApplyThrows
  <2>1. HostsKept /\ ListsRight' /\ StackRight' /\ TeardownAbove(stack')
    BY <1>0, <1>1, <1>6, StopKept DEF ApplyThrows
  <2>. QED  BY <1>6, <2>1, TreeStep DEF ApplyThrows
<1>. QED  BY <1>2, <1>3, <1>4, <1>5, <1>6

(* The end of stopRecord().                                                *)
LEMMA StopReleaseTree ==
  ASSUME TreeInv, TypeOK', StopRelease PROVE TreeInv'
<1>0. TypeOK /\ ListsRight /\ Running("stop") /\ Live(Top.rec)
  BY DEF TreeInv, StopRelease
<1>1. Below \in Seq(Suspended) /\ TeardownAbove(Below)
  BY <1>0, TopRight
<1>2. PICK rec : rec = Released(Top.rec)
  OBVIOUS
<1>3. rec \in LoadRecord /\ rec.host = recs[Top.rec].host /\ rec.state = recs[Top.rec].state
  BY <1>0, <1>2, LiveRecord DEF Released, LoadRecord
<1>4. recs' = [recs EXCEPT ![Top.rec] = rec] /\ UNCHANGED scopes /\ stack' = Below
  BY <1>2 DEF StopRelease
<1>5. DetailsOnly
  BY <1>0, <1>3, <1>4, RecordDetails
<1>6. HostsKept /\ ListsRight' /\ StackRight' /\ TeardownAbove(stack')
  BY <1>0, <1>1, <1>4, <1>5, DetailsStep
<1>. QED  BY <1>6, TreeStep DEF StopRelease

(* The watcher loops.                                                      *)
LEMMA FireTree ==
  ASSUME TreeInv, TypeOK', FireNext \/ FireDone PROVE TreeInv'
<1>0. TypeOK /\ ListsRight /\ Running("fire")
  BY DEF TreeInv, FireNext, FireDone
<1>1. /\ Top \in Known \cap Suspended /\ Top \in Frame /\ Top.op = "fire"
      /\ Top.todo \subseteq RightWatchers
      /\ Below \in Seq(Known \cap Suspended) /\ Below \in Seq(Suspended) /\ TeardownAbove(Below)
  <2>1. Top \in Known \cap Suspended /\ Top.op = "fire"
        /\ Below \in Seq(Known \cap Suspended) /\ TeardownAbove(Below)
    BY <1>0, TopRight
  <2>. QED  BY <2>1 DEF Suspended, RightFrames, PointersRight
<1>2. CASE FireNext
  <2>1. PICK w \in Top.todo :
          CallWatcher(w, Top.val, Resume([Top EXCEPT !.todo = Top.todo \ {w}]))
    BY <1>2 DEF FireNext
  <2>2. PICK g : g = [Top EXCEPT !.todo = Top.todo \ {w}]
    OBVIOUS
  <2>3. g \in Frame /\ g.op = "fire" /\ g.rec = Top.rec /\ g.scope = Top.scope
        /\ g.todo \subseteq Top.todo
    <3>1. Top.todo \ {w} \in SUBSET Watcher
      BY <1>1 DEF Frame
    <3>. QED  BY SMTT(40), <1>1, <2>2, <3>1 DEF Frame
  <2>4. g \in Known \cap Suspended
    BY <1>1, <2>3 DEF Known, Suspended, RightFrames, PointersRight, EraseRight, TeardownRight
  <2>5. Resume(g) \in Seq(Known \cap Suspended) /\ TeardownAbove(Resume(g))
    <3>1. \A sc : WorksIn(g, sc) => WorksIn(Top, sc)
      BY <2>3 DEF WorksIn
    <3>. QED  BY <1>0, <1>1, <2>3, <2>4, <3>1, ResumedRight
  <2>6. w \in RightWatchers /\ Top.val \in BOOLEAN /\ CallWatcher(w, Top.val, Resume(g))
    BY <1>1, <2>1, <2>2 DEF Frame
  <2>7. HostsKept /\ ListsRight' /\ StackRight' /\ TeardownAbove(stack')
    BY <1>0, <2>5, <2>6, CallWatcherKept
  <2>. QED  BY <1>2, <2>7, TreeStep DEF FireNext
<1>3. CASE FireDone
  <2>1. DetailsOnly
    BY <1>3 DEF FireDone, DetailsOnly, Live, Exists
  <2>2. HostsKept /\ ListsRight' /\ StackRight' /\ TeardownAbove(stack')
    BY <1>0, <1>1, <1>3, <2>1, DetailsStep DEF FireDone
  <2>. QED  BY <1>3, <2>2, TreeStep DEF FireDone
<1>. QED  BY <1>2, <1>3

(* The host's own watchers.                                                *)
LEMMA CallbackTree ==
  ASSUME TreeInv, TypeOK',
         \/ \E p \in Plugins : CallbackLoads(p) \/ CallbackUnloads(p)
         \/ CallbackReturns
  PROVE  TreeInv'
<1>0. TypeOK /\ ListsRight /\ Running("callback")
  BY DEF TreeInv, CallbackLoads, CallbackUnloads, CallbackReturns
<1>1. /\ Below \in Seq(Known \cap Suspended) /\ Below \in Seq(Suspended) /\ TeardownAbove(Below)
      /\ Top.op = "callback"
  BY <1>0, TopRight
<1>2. CASE \E p \in Plugins : CallbackLoads(p)
  <2>1. PICK p \in Plugins : AddRecord(Root, p, Below) /\ Exists(Root)
    BY <1>2 DEF CallbackLoads
  <2>2. \A j \in DOMAIN Below : ~TearsDown(Below[j], Root)
    <3>1. Root \in ScopeIds /\ WorksIn(Top, Root)
      BY <1>1, ContextAssumption DEF WorksIn
    <3>. QED  BY <1>0, <3>1, TopRight
  <2>3. HostsKept /\ ListsRight' /\ StackRight' /\ TeardownAbove(stack')
    BY <1>0, <1>1, <2>1, <2>2, AddKept
  <2>. QED  BY <2>1, <2>3, TreeStep DEF AddRecord
<1>3. CASE \E p \in Plugins : CallbackUnloads(p)
  <2>1. PICK p : Unload(Root, p, Below) /\ Exists(Root)
    BY <1>3 DEF CallbackUnloads
  <2>2. HostsKept /\ ListsRight' /\ StackRight' /\ TeardownAbove(stack')
    BY <1>0, <1>1, <2>1, UnloadKept
  <2>. QED  BY <2>1, <2>2, TreeStep DEF Unload
<1>4. CASE CallbackReturns
  <2>1. DetailsOnly
    BY <1>4 DEF CallbackReturns, DetailsOnly, Live, Exists
  <2>2. HostsKept /\ ListsRight' /\ StackRight' /\ TeardownAbove(stack')
    BY <1>0, <1>1, <1>4, <2>1, DetailsStep DEF CallbackReturns
  <2>. QED  BY <1>4, <2>2, TreeStep DEF CallbackReturns
<1>. QED  BY <1>2, <1>3, <1>4

(* ~Context phase 1: a record is stopped, and then let go of.              *)
LEMMA DtorStopTree ==
  ASSUME TreeInv, TypeOK', DtorStop PROVE TreeInv'
<1>0. TypeOK /\ ListsRight /\ Running("dtor") /\ Exists(Top.scope) /\ ~Top.val
  BY DEF TreeInv, DtorStop
<1>1. /\ Top \in Known \cap Suspended /\ Top \in Frame /\ Top.op = "dtor"
      /\ Below \in Seq(Known \cap Suspended) /\ PointersRight(Top) /\ TeardownRight(Top)
  <2>1. Top \in Known \cap Suspended /\ Top.op = "dtor" /\ Below \in Seq(Known \cap Suspended)
    BY <1>0, TopRight
  <2>. QED  BY <2>1 DEF Suspended, RightFrames
<1>2. PICK r : r = scopes[Top.scope].records[Top.ix]
  OBVIOUS
<1>3. PICK g : g = [Top EXCEPT !.val = TRUE]
  OBVIOUS
<1>4. Live(r) /\ StopRecord(r, "Disposed", Resume(g))
  BY <1>2, <1>3 DEF DtorStop
<1>5. /\ g \in Frame /\ g.op = "dtor" /\ g.scope = Top.scope /\ g.todo = Top.todo
      /\ g.ix = Top.ix /\ g.val = TRUE
  BY <1>1, <1>3 DEF Frame
<1>6. \A sc : ~WorksIn(g, sc)
  BY <1>5 DEF WorksIn
<1>7. Top.scope \in ScopeIds /\ scopes[Top.scope] \in Scope /\ ListRight(Top.scope)
  BY <1>0, ExistingScope DEF ListsRight
<1>8. \A k \in DOMAIN scopes[Top.scope].records :
        k > Top.ix => Quiet(scopes[Top.scope].records[k])
  BY <1>0, <1>1 DEF TeardownRight
<1>9. PICK S : S = Suspended'
  OBVIOUS
<1>10. ASSUME HostsKept, \A q \in RecIds \ {r} : recs'[q] = recs[q],
              recs'[r].state \in {"Deferred", "Disposed"},
              scopes'[Top.scope].records = scopes[Top.scope].records,
              scopes'[Top.scope].alive => scopes[Top.scope].alive
       PROVE  g \in S
  <2>1. ~scopes'[g.scope].alive
    BY <1>0, <1>1, <1>5, <1>10 DEF TeardownRight
  <2>2. \A k \in DOMAIN scopes'[g.scope].records :
          (k > g.ix \/ k = g.ix) => recs'[scopes'[g.scope].records[k]].state \in {"Deferred", "Disposed"}
    <3>1. SUFFICES ASSUME NEW k \in DOMAIN scopes[Top.scope].records, k > Top.ix \/ k = Top.ix
                   PROVE  recs'[scopes[Top.scope].records[k]].state \in {"Deferred", "Disposed"}
      BY <1>5, <1>10
    <3>2. CASE scopes[Top.scope].records[k] = r
      BY <1>10, <3>2
    <3>3. CASE scopes[Top.scope].records[k] # r
      <4>1. k > Top.ix
        BY <1>2, <3>1, <3>3
      <4>2. Live(scopes[Top.scope].records[k]) /\ Quiet(scopes[Top.scope].records[k])
        BY <1>7, <1>8, <4>1 DEF ListRight
      <4>. QED  BY <1>10, <3>3, <4>2 DEF Live, Quiet
    <3>. QED  BY <3>2, <3>3
  <2>3. TeardownRight(g)'
    BY <1>5, <2>1, <2>2 DEF TeardownRight, Quiet
  <2>4. PointersRight(g)' /\ EraseRight(g)'
    <3>1. PICK f : f = Top
      OBVIOUS
    <3>2. PointersRight(f)'
      BY <1>1, <1>10, <3>1, PointersKept
    <3>. QED  BY <1>5, <3>1, <3>2 DEF PointersRight, EraseRight
  <2>. QED  BY <1>5, <1>9, <2>3, <2>4 DEF Suspended, RightFrames
<1>11. CASE MustStop(r)
  <2>1. StopEffect(r, "Disposed")
    BY <1>0, <1>4, <1>11, StopTreeKept
  <2>2. g \in S
    <3>1. scopes'[Top.scope].alive => scopes[Top.scope].alive
      BY <1>0, <1>7, <2>1 DEF StopEffect, ScopeKept
    <3>. QED  BY <1>0, <1>7, <1>10, <2>1, <3>1 DEF StopEffect
  <2>3. Below \in Seq(S)
    BY <1>0, <1>1, <1>4, <1>9, <1>11, <2>1, StopRestKept
  <2>4. Resume(g) \in Seq(S) /\ TeardownAbove(Resume(g))
    BY <1>0, <1>5, <1>6, <2>2, <2>3, ResumedRight
  <2>5. StackRight' /\ TeardownAbove(stack')
    BY <1>0, <1>4, <1>9, <1>11, <2>4, StopStackKept
  <2>. QED  BY <2>1, <2>5, TreeStep DEF DtorStop, StopEffect
<1>12. CASE ~MustStop(r)
  <2>1. UNCHANGED <<recs, scopes>> /\ stack' = Resume(g)
    BY <1>4, <1>12 DEF StopRecord, Return
  <2>2. DetailsOnly
    BY <2>1 DEF DetailsOnly, Live, Exists
  <2>3. HostsKept /\ ListsRight' /\ Suspended \subseteq S
    BY <1>0, <1>9, <2>2, DetailsKept
  <2>4. recs[r].state \in {"Deferred", "Disposed"}
    <3>1. recs[r].state \in States
      BY <1>0, <1>4, LiveRecord DEF LoadRecord
    <3>. QED  BY <1>12, <3>1 DEF States, MustStop
  <2>5. g \in S
    BY <1>10, <2>1, <2>3, <2>4
  <2>6. Below \in Seq(S)
    <3>1. Below \in Seq(Suspended)
      BY <1>1
    <3>. QED  BY <2>3, <3>1, LargerSeq
  <2>7. Resume(g) \in Seq(S) /\ TeardownAbove(Resume(g))
    BY <1>0, <1>5, <1>6, <2>5, <2>6, ResumedRight
  <2>8. StackRight'
    <3>1. stack' = <<g>> \o Below
      BY <2>1 DEF Resume
    <3>2. g \in RightFrames'
      BY <1>9, <2>5 DEF Suspended
    <3>. QED  BY <1>9, <2>6, <3>1, <3>2, EnteredRight
  <2>. QED  BY <2>1, <2>3, <2>7, <2>8, TreeStep DEF DtorStop
<1>. QED  BY <1>11, <1>12

(* ~Context lets go of a record that it has stopped.                       *)
LEMMA DtorReleaseTree ==
  ASSUME TreeInv, TypeOK', DtorRelease PROVE TreeInv'
<1>0. TypeOK /\ ListsRight /\ Running("dtor") /\ Exists(Top.scope) /\ Top.val
  BY Zenon DEF TreeInv, DtorRelease
<1>1. /\ Top \in Known \cap Suspended /\ Top \in Frame /\ Top.op = "dtor"
      /\ Below \in Seq(Known \cap Suspended) /\ Below \in Seq(Suspended)
      /\ PointersRight(Top) /\ TeardownRight(Top)
  <2>1. Top \in Known \cap Suspended /\ Top.op = "dtor" /\ Below \in Seq(Known \cap Suspended)
    BY SMTT(40), <1>0, TopRight
  <2>. QED  BY <2>1 DEF Suspended, RightFrames
<1>2. PICK r : r = scopes[Top.scope].records[Top.ix]
  OBVIOUS
<1>3. Live(r) /\ recs[r] \in LoadRecord
  BY Zenon, <1>0, <1>2, LiveRecord DEF DtorRelease
<1>4. PICK rec : rec = [recs[r] EXCEPT !.lib = FALSE, !.tokens = {}]
  OBVIOUS
<1>5. rec \in LoadRecord /\ rec.host = recs[r].host /\ rec.state = recs[r].state
  BY <1>3, <1>4 DEF LoadRecord
<1>6. recs' = [recs EXCEPT ![r] = rec] /\ UNCHANGED scopes /\ stack' = Resume(Earlier(Top))
  BY Zenon, <1>2, <1>3, <1>4 DEF DtorRelease, TypeOK, TreeInv, Live
<1>7. DetailsOnly
  BY Zenon, <1>0, <1>3, <1>5, <1>6, RecordDetails
<1>8. PICK g : g = Earlier(Top)
  OBVIOUS
<1>9. DOMAIN scopes[Top.scope].records \subseteq Nat \ {0} /\ Top.ix \in DOMAIN scopes[Top.scope].records
  <2>1. scopes[Top.scope].records \in Seq(RecIds)
    BY <1>0, ExistingScope DEF Scope
  <2>2. DOMAIN scopes[Top.scope].records = 1..Len(scopes[Top.scope].records)
        /\ Len(scopes[Top.scope].records) \in Nat
    BY <2>1, LenProperties
  <2>3. DOMAIN scopes[Top.scope].records \subseteq Nat \ {0}
    BY <2>2
  <2>. QED  BY Zenon, <2>3 DEF DtorRelease
<1>10. /\ g \in Frame /\ g.op = "dtor" /\ g.scope = Top.scope /\ g.todo = Top.todo
       /\ g.ix = Top.ix - 1 /\ g.val = FALSE
  <2>1. Top.ix - 1 \in Nat
    BY <1>9
  <2>. QED  BY <1>1, <1>8, <2>1 DEF Frame, Earlier
<1>11. g \in Suspended
  <2>1. \A k \in DOMAIN scopes[Top.scope].records : k > g.ix => k > Top.ix \/ k = Top.ix
    BY <1>9, <1>10
  <2>2. TeardownRight(g)
    BY <1>0, <1>1, <1>10, <2>1 DEF TeardownRight
  <2>. QED  BY <1>1, <1>10, <2>2 DEF Suspended, RightFrames, PointersRight, EraseRight
<1>12. Resume(g) \in Seq(Suspended) /\ TeardownAbove(Resume(g))
  <2>1. \A sc : ~WorksIn(g, sc)
    BY <1>10 DEF WorksIn
  <2>. QED  BY <1>0, <1>1, <1>10, <1>11, <2>1, ResumedRight
<1>13. HostsKept /\ ListsRight' /\ StackRight' /\ TeardownAbove(stack')
  BY SMTT(40), <1>0, <1>6, <1>7, <1>8, <1>12, DetailsStep
<1>14. watchers' \subseteq watchers
  BY Zenon DEF DtorRelease, UnwatchAll
<1>. QED  BY SMTT(40), <1>13, <1>14, TreeStep

(* A call that waits below stays right when its scope's list is emptied.   *)
LEMMA EmptiedKept ==
  ASSUME TypeOK, HostsKept, NEW f \in Known \cap Suspended, StillQuiet(f),
         Exists(f.scope), scopes'[f.scope].records = <<>>,
         scopes'[f.scope].alive => scopes[f.scope].alive,
         \A q \in ToSet(scopes[f.scope].records) : ~Live(q)'
  PROVE  f \in Suspended'
<1>1. f \in Frame /\ PointersRight(f)' /\ EraseRight(f) /\ TeardownRight(f)
  BY PointersKept DEF Suspended, RightFrames
<1>2. f.op = "erase" /\ Live(f.rec)' => recs'[f.rec].state = "Disposed"
  <2>1. SUFFICES ASSUME f.op = "erase", Live(f.rec)' PROVE recs'[f.rec].state = "Disposed"
    OBVIOUS
  <2>2. Live(f.rec) /\ f.rec \in RecIds
    BY <2>1 DEF HostsKept, Known, Live
  <2>3. recs[f.rec].state = "Disposed"
    BY <2>1, <2>2 DEF Suspended
  <2>. QED  BY <2>1, <2>2, <2>3 DEF StillQuiet, Quiet
<1>3. EraseRight(f)'
  <2>1. ASSUME f.op = "erase", ~f.val, Live(f.rec)' PROVE FALSE
    <3>1. Live(f.rec)
      BY <2>1 DEF HostsKept, Known
    <3>2. f.rec \in ToSet(scopes[f.scope].records)
      BY <1>1, <2>1, <3>1 DEF EraseRight, ToSet
    <3>. QED  BY <2>1, <3>2
  <2>. QED  BY <1>2, <2>1 DEF EraseRight, Quiet
<1>4. TeardownRight(f)'
  BY <1>1 DEF TeardownRight
<1>. QED  BY <1>1, <1>2, <1>3, <1>4 DEF Suspended, RightFrames

(* ~Context drops the list when every record in it is quiet.               *)
LEMMA DtorClearTree ==
  ASSUME TreeInv, TypeOK', DtorClear PROVE TreeInv'
<1>0. TypeOK /\ ListsRight /\ Running("dtor") /\ Exists(Top.scope)
  BY DEF TreeInv, DtorClear
<1>1. /\ Top \in Known \cap Suspended /\ Top.op = "dtor"
      /\ Below \in Seq(Known \cap Suspended) /\ TeardownRight(Top)
  <2>1. Top \in Known \cap Suspended /\ Top.op = "dtor" /\ Below \in Seq(Known \cap Suspended)
    BY <1>0, TopRight
  <2>. QED  BY <2>1 DEF Suspended, RightFrames
<1>2. PICK sc : sc = Top.scope
  OBVIOUS
<1>3. sc \in ScopeIds /\ scopes[sc] \in Scope /\ Exists(sc) /\ ~scopes[sc].alive
  BY <1>0, <1>1, <1>2, ExistingScope DEF TeardownRight
<1>4. recs \in [RecIds -> LoadRecord \cup {NoRec}] /\ scopes \in [ScopeIds -> Scope \cup {Gone}]
  BY <1>0 DEF TypeOK
<1>5. \A q \in RecIds : recs'[q] = IF q \in ToSet(scopes[sc].records) THEN NoRec ELSE recs[q]
  BY <1>2, <1>4 DEF DtorClear
<1>6. scopes' = [scopes EXCEPT ![sc] = [scopes[sc] EXCEPT !.records = <<>>, !.retired = {}]]
  BY <1>2, <1>4 DEF DtorClear
<1>7. /\ \A s \in ScopeIds \ {sc} : scopes'[s] = scopes[s]
      /\ scopes'[sc].records = <<>> /\ scopes'[sc].alive = scopes[sc].alive
  BY <1>3, <1>4, <1>6 DEF Scope
<1>8. HostsKept
  BY <1>5 DEF HostsKept, Live
<1>9. ListsRight'
  <2>1. SUFFICES ASSUME NEW s \in ScopeIds, Exists(s)'
                 PROVE  /\ IsInjective(scopes'[s].records)
                        /\ \A k \in DOMAIN scopes'[s].records :
                             LET q == scopes'[s].records[k] IN
                             q \in RecIds /\ recs'[q] # NoRec /\ recs'[q].host = s
    BY DEF ListsRight, ListRight, Live
  <2>2. CASE s = sc
    BY <1>7, <2>2 DEF IsInjective
  <2>3. CASE s # sc
    <3>1. scopes'[s] = scopes[s] /\ ListRight(s)
      BY <1>0, <1>7, <2>1, <2>3 DEF Exists, ListsRight
    <3>2. \A q \in ToSet(scopes[sc].records) : recs[q].host = sc
      BY <1>0, <1>3 DEF ListsRight, ListRight, ToSet
    <3>3. \A q : Live(q) /\ recs[q].host = s => q \in RecIds /\ recs'[q] # NoRec /\ recs'[q].host = s
      BY <1>5, <2>3, <3>2 DEF Live
    <3>. QED  BY <3>1, <3>3 DEF ListRight
  <2>. QED  BY <2>2, <2>3
<1>10. Below \in Seq(Suspended')
  <2>1. ASSUME NEW i \in DOMAIN Below PROVE Below[i] \in Suspended'
    <3>0. Below[i] \in Known \cap Suspended
      BY <1>1
    <3>1. PICK f \in Known \cap Suspended : f = Below[i]
      BY <3>0
    <3>2. StillQuiet(f)
      BY <1>5 DEF StillQuiet, Live
    <3>3. CASE f.scope = sc
      <4>0. \A q \in ToSet(scopes[f.scope].records) : ~Live(q)'
        BY <1>5, <3>3 DEF Live
      <4>1. f \in Suspended'
        BY <1>0, <1>3, <1>7, <1>8, <3>2, <3>3, <4>0, EmptiedKept
      <4>. QED  BY <3>1, <4>1
    <3>4. CASE f.scope # sc
      <4>1. FrameScopeKept(f)
        BY <1>7, <3>4 DEF FrameScopeKept, ScopeKept, Exists
      <4>2. f \in Suspended'
        BY <1>0, <1>8, <1>9, <3>2, <4>1, FrameKept
      <4>. QED  BY <3>1, <4>2
    <3>. QED  BY <3>3, <3>4
  <2>2. Below \in Seq(Known)
    BY <1>1
  <2>3. PICK S : S = Suspended'
    OBVIOUS
  <2>4. \A i \in DOMAIN Below : Below[i] \in S
    BY <2>1, <2>3
  <2>5. Below \in Seq(S)
    BY <2>2, <2>4
  <2>. QED  BY <2>3, <2>5
<1>11. PICK g : g = [Call("revoke", NoRec, sc) EXCEPT !.ix = Len(scopes[sc].provided)]
  OBVIOUS
<1>12. g \in Frame /\ g.op = "revoke" /\ g.scope = sc /\ g.todo = {}
  <2>1. Call("revoke", NoRec, sc) \in Frame
    BY <1>3, CallType DEF Ops
  <2>2. Len(scopes[sc].provided) \in Nat
    BY <1>3 DEF Scope
  <2>. QED  BY <1>11, <2>1, <2>2 DEF Call, Frame
<1>13. g \in RightFrames'
  <2>1. TeardownRight(g)'
    BY <1>3, <1>7, <1>12 DEF TeardownRight
  <2>. QED  BY <1>12, <2>1 DEF RightFrames, PointersRight, EraseRight
<1>14. stack' = <<g>> \o Below
  BY <1>2, <1>11 DEF DtorClear, Resume
<1>15. StackRight'
  BY <1>10, <1>13, <1>14, EnteredRight
<1>16. TeardownAbove(stack')
  <2>1. \A s : ~WorksIn(g, s)
    BY <1>12 DEF WorksIn
  <2>2. Below \in Seq(Frame) /\ TeardownAbove(Below)
    BY <1>0, TopRight
  <2>. QED  BY <1>12, <1>14, <2>1, <2>2, AbovePush
<1>17. watchers' \subseteq watchers
  BY DEF DtorClear
<1>. QED  BY <1>8, <1>9, <1>15, <1>16, <1>17, TreeStep

(* Phase 4, and the end of the scope.                                      *)
LEMMA RevokeNextTree ==
  ASSUME TreeInv, TypeOK', RevokeNext PROVE TreeInv'
<1>0. TypeOK /\ ListsRight /\ Running("revoke") /\ Exists(Top.scope) /\ watchers \subseteq RightWatchers
  BY DEF TreeInv, RevokeNext
<1>1. /\ Top \in Known \cap Suspended /\ Top \in Frame /\ Top.op = "revoke"
      /\ Below \in Seq(Known \cap Suspended) /\ Below \in Seq(Suspended)
      /\ PointersRight(Top) /\ TeardownRight(Top)
  <2>1. Top \in Known \cap Suspended /\ Top.op = "revoke" /\ Below \in Seq(Known \cap Suspended)
    BY <1>0, TopRight
  <2>. QED  BY <2>1 DEF Suspended, RightFrames
<1>2. PICK s : s = scopes[Top.scope].provided[Top.ix]
  OBVIOUS
<1>3. PICK g : g = Earlier(Top)
  OBVIOUS
<1>4. g \in Frame /\ g.op = "revoke" /\ g.scope = Top.scope /\ g.todo = Top.todo
  <2>1. scopes[Top.scope].provided \in Seq(Services)
    BY <1>0, ExistingScope DEF Scope
  <2>2. DOMAIN scopes[Top.scope].provided = 1..Len(scopes[Top.scope].provided)
        /\ Len(scopes[Top.scope].provided) \in Nat
    BY <2>1, LenProperties
  <2>3. Top.ix \in 1..Len(scopes[Top.scope].provided)
    BY <2>2 DEF RevokeNext
  <2>4. Top.ix - 1 \in Nat
    BY <2>2, <2>3
  <2>. QED  BY <1>1, <1>3, <2>4 DEF Frame, Earlier
<1>5. g \in Suspended
  BY <1>1, <1>4 DEF Suspended, RightFrames, PointersRight, EraseRight, TeardownRight
<1>6. Resume(g) \in Seq(Suspended) /\ TeardownAbove(Resume(g)) /\ Resume(g) \in Seq(Frame)
  <2>1. \A sc : ~WorksIn(g, sc)
    BY <1>4 DEF WorksIn
  <2>2. Resume(g) \in Seq(Suspended) /\ TeardownAbove(Resume(g))
    BY <1>0, <1>1, <1>4, <1>5, <2>1, ResumedRight
  <2>. QED  BY <2>2 DEF Suspended, RightFrames
<1>7. DetailsOnly
  BY SMTT(40) DEF RevokeNext, DetailsOnly, Live, Exists
<1>8. CASE Disappears(s, Top.scope)
  <2>. DEFINE x == FireWatchers(FALSE, Snapshot(s))
  <2>1. x \in Suspended /\ \A t : ~WorksIn(x, t)
    BY <1>0, FireRight
  <2>2. stack' = <<x>> \o Resume(g)
    BY <1>2, <1>3, <1>8 DEF RevokeNext
  <2>. HIDE DEF x
  <2>3. x \in Frame
    BY <2>1 DEF Suspended, RightFrames
  <2>4. <<x>> \o Resume(g) \in Seq(Suspended)
    BY <1>6, <2>1, PushType
  <2>5. TeardownAbove(<<x>> \o Resume(g))
    BY <1>6, <2>1, <2>3, AbovePush
  <2>6. HostsKept /\ ListsRight' /\ StackRight' /\ TeardownAbove(stack')
    BY <1>0, <1>7, <2>2, <2>4, <2>5, DetailsStep
  <2>. QED  BY <2>6, TreeStep DEF RevokeNext
<1>9. CASE ~Disappears(s, Top.scope)
  <2>1. stack' = <<>> \o Resume(g)
    BY <1>2, <1>3, <1>9 DEF RevokeNext
  <2>2. stack' = Resume(g)
    BY <1>6, <2>1
  <2>3. HostsKept /\ ListsRight' /\ StackRight' /\ TeardownAbove(stack')
    BY <1>0, <1>6, <1>7, <2>2, DetailsStep
  <2>. QED  BY <2>3, TreeStep DEF RevokeNext
<1>. QED  BY SMTT(40), <1>8, <1>9

(* The scope that is gone had no records left, and nobody owned it.        *)
LEMMA RevokeDoneTree ==
  ASSUME TreeInv, TypeOK', RevokeDone PROVE TreeInv'
<1>0. TypeOK /\ ListsRight /\ Running("revoke") /\ UNCHANGED recs /\ stack' = Below
  BY DEF TreeInv, RevokeDone
<1>1. Below \in Seq(Known \cap Suspended) /\ TeardownAbove(Below)
  BY <1>0, TopRight
<1>2. \A s \in ScopeIds : ~Exists(s)' \/ scopes'[s] = scopes[s]
  BY <1>0 DEF RevokeDone, Exists, TypeOK
<1>3. HostsKept /\ ListsRight'
  <2>1. HostsKept
    BY <1>0 DEF HostsKept, Live
  <2>2. ListsRight'
    BY <1>0, <1>2 DEF ListsRight, ListRight, Live, Exists
  <2>. QED  BY <2>1, <2>2
<1>4. \A i \in DOMAIN Below : FrameScopeKept(Below[i]) /\ StillQuiet(Below[i])
  <2>1. \A f : FrameScopeKept(f)
    BY <1>2 DEF FrameScopeKept, ScopeKept, Exists
  <2>2. \A f : StillQuiet(f)
    BY <1>0 DEF StillQuiet
  <2>. QED  BY <2>1, <2>2
<1>5. Below \in Seq(Suspended')
  BY <1>0, <1>1, <1>3, <1>4, RestKept
<1>6. StackRight'
  <2>1. Suspended' \subseteq RightFrames'
    BY DEF Suspended
  <2>2. Below # <<>> => Head(Below) \in Suspended' /\ Tail(Below) \in Seq(Suspended')
    BY <1>5
  <2>. QED  BY <1>0, <2>1, <2>2 DEF StackRight
<1>. QED  BY <1>0, <1>1, <1>3, <1>6, TreeStep DEF RevokeDone

(* unload() after stopRecord().                                            *)
LEMMA EraseTree ==
  ASSUME TreeInv, TypeOK', Erase PROVE TreeInv'
<1>0. /\ TypeOK /\ ListsRight /\ Running("erase") /\ Live(Top.rec) /\ Exists(Top.scope) /\ ~Top.val
      /\ Top.ix \in DOMAIN scopes[Top.scope].records
  BY DEF TreeInv, Erase
<1>1. /\ Top \in RightFrames /\ Top.op = "erase"
      /\ Below \in Seq(Known \cap Suspended) /\ Below \in Seq(Frame) /\ TeardownAbove(Below)
  BY <1>0, TopRight
<1>2. PICK sc, r, n : sc = Top.scope /\ r = Top.rec /\ n = Top.ix
  OBVIOUS
<1>3. PICK list : list = scopes[sc].records
  OBVIOUS
<1>4. /\ sc \in ScopeIds /\ scopes[sc] \in Scope /\ Exists(sc) /\ r \in RecIds
      /\ scopes \in [ScopeIds -> Scope \cup {Gone}] /\ recs \in [RecIds -> LoadRecord \cup {NoRec}]
  BY <1>0, <1>2, ExistingScope DEF TypeOK, Live
<1>5. list \in Seq(RecIds) /\ ListRight(sc) /\ IsInjective(list) /\ n \in DOMAIN list /\ n \in Nat
  <2>1. list \in Seq(RecIds) /\ ListRight(sc)
    BY <1>0, <1>3, <1>4 DEF Scope, ListsRight
  <2>2. n \in DOMAIN list /\ IsInjective(list)
    BY <1>0, <1>2, <1>3, <2>1 DEF ListRight
  <2>3. DOMAIN list = 1..Len(list) /\ Len(list) \in Nat
    BY <2>1, LenProperties
  <2>. QED  BY <2>1, <2>2, <2>3
<1>6. list[n] = r /\ recs[r].host = sc
  BY <1>0, <1>1, <1>2, <1>3 DEF RightFrames, EraseRight, PointersRight
<1>7. PICK short : short = RemoveAt(list, n)
  OBVIOUS
<1>8. /\ short \in Seq(RecIds) /\ IsInjective(short)
      /\ \A k \in DOMAIN short : \E j \in DOMAIN list :
           /\ j # n /\ short[k] = list[j]
           /\ k < n => j = k
           /\ k >= n => j = k + 1
  BY <1>5, <1>7, RemovedInjective
<1>9. /\ recs'[r] = NoRec /\ \A q \in RecIds \ {r} : recs'[q] = recs[q]
      /\ scopes'[sc].records = short /\ scopes'[sc].alive = scopes[sc].alive
      /\ \A s \in ScopeIds \ {sc} : scopes'[s] = scopes[s]
  <2>. DEFINE libs == scopes[sc].retired \cup Retired(r)
  <2>1. recs' = [recs EXCEPT ![r] = NoRec]
        /\ scopes' = [scopes EXCEPT ![sc] = [scopes[sc] EXCEPT !.retired = libs, !.records = short]]
    BY <1>2, <1>3, <1>4, <1>7 DEF Erase
  <2>. HIDE DEF libs
  <2>. QED  BY <1>4, <2>1 DEF Scope
<1>10. HostsKept
  BY <1>9 DEF HostsKept, Live
<1>11. ListsRight'
  <2>1. SUFFICES ASSUME NEW s \in ScopeIds, Exists(s)'
                 PROVE  /\ IsInjective(scopes'[s].records)
                        /\ \A k \in DOMAIN scopes'[s].records :
                             LET q == scopes'[s].records[k] IN
                             q \in RecIds /\ recs'[q] # NoRec /\ recs'[q].host = s
    BY DEF ListsRight, ListRight, Live
  <2>2. \A q : Live(q) /\ q # r => q \in RecIds /\ recs'[q] # NoRec /\ recs'[q].host = recs[q].host
    BY <1>9 DEF Live
  <2>3. CASE s # sc
    <3>1. scopes'[s] = scopes[s] /\ ListRight(s)
      BY <1>0, <1>9, <2>1, <2>3 DEF Exists, ListsRight
    <3>2. \A k \in DOMAIN scopes[s].records : scopes[s].records[k] # r
      BY <1>6, <2>3, <3>1 DEF ListRight
    <3>. QED  BY <2>2, <3>1, <3>2 DEF ListRight
  <2>4. CASE s = sc
    <3>1. \A j \in DOMAIN list : j # n => Live(list[j]) /\ recs[list[j]].host = sc /\ list[j] # r
      BY <1>3, <1>5, <1>6 DEF ListRight, IsInjective
    <3>2. \A k \in DOMAIN short : Live(short[k]) /\ recs[short[k]].host = sc /\ short[k] # r
      BY <1>8, <3>1
    <3>. QED  BY <1>8, <1>9, <2>2, <2>4, <3>2
  <2>. QED  BY <2>3, <2>4
<1>12. \A f : StillQuiet(f)
  BY <1>9 DEF StillQuiet, Live
<1>13. ASSUME NEW f \in Known \cap Suspended, TearsDown(f, sc) PROVE TeardownRight(f)'
  <2>1. f.scope = sc /\ f.op \in {"dtor", "revoke"} /\ TeardownRight(f) /\ f.ix \in Nat
    BY <1>13 DEF TearsDown, Suspended, RightFrames, Frame
  <2>2. ~scopes'[sc].alive
    BY <1>4, <1>9, <2>1 DEF TeardownRight
  <2>3. f.op = "revoke" => scopes'[sc].records = <<>>
    <3>1. f.op = "revoke" => list = <<>>
      BY <1>3, <1>4, <2>1 DEF TeardownRight
    <3>2. list # <<>>
      BY <1>5
    <3>. QED  BY <3>1, <3>2
  <2>4. ASSUME f.op = "dtor", NEW k \in DOMAIN short, k > f.ix \/ (k = f.ix /\ f.val)
        PROVE  recs'[short[k]].state \in {"Deferred", "Disposed"}
    <3>0. k \in Nat
      BY <1>8, LenProperties
    <3>1. PICK j \in DOMAIN list : /\ j # n /\ short[k] = list[j]
                                   /\ k < n => j = k
                                   /\ k >= n => j = k + 1
      BY <1>8
    <3>2. j > f.ix \/ (j = f.ix /\ f.val)
      BY <1>5, <2>1, <2>4, <3>0, <3>1
    <3>3. Quiet(list[j]) /\ Live(list[j]) /\ list[j] # r
      BY <1>3, <1>4, <1>5, <1>6, <2>1, <2>4, <3>1, <3>2 DEF TeardownRight, ListRight, IsInjective
    <3>. QED  BY <1>9, <3>1, <3>3 DEF Quiet, Live
  <2>. QED  BY <1>9, <2>1, <2>2, <2>3, <2>4 DEF TeardownRight, Quiet
<1>14. PICK q : q = Invalidate(Below, sc, n)
  OBVIOUS
<1>15. q \in Seq(Suspended')
  <2>1. \A s \in ScopeIds \ {sc} : ScopeKept(s)
    BY <1>9 DEF ScopeKept, Exists
  <2>2. \A k \in DOMAIN scopes'[sc].records : ~(k >= n) =>
          k \in DOMAIN scopes[sc].records /\ scopes'[sc].records[k] = scopes[sc].records[k]
    <3>1. \A k \in DOMAIN short : k \in Nat
      BY <1>8, LenProperties
    <3>2. \A k \in DOMAIN short : ~(k >= n) => k < n
      BY <1>5, <3>1
    <3>. QED  BY <1>3, <1>8, <1>9, <3>2
  <2>7. \A k \in DOMAIN scopes[sc].records : ~(k >= n) => k \in DOMAIN scopes'[sc].records
    <3>1. /\ DOMAIN list = 1..Len(list) /\ Len(list) \in Nat /\ Len(short) = Len(list) - 1
          /\ DOMAIN short = 1..Len(short)
      BY Zenon, <1>5, <1>7, <1>8, LenProperties, RemovedPosition
    <3>. QED  BY <1>3, <1>5, <1>9, <3>1
  <2>3. ASSUME NEW i \in DOMAIN Below, NEW f, f = Below[i]
        PROVE  StillQuiet(f) /\ (TearsDown(f, sc) => TeardownRight(f)')
    <3>1. f \in Known \cap Suspended
      BY <1>1, <2>3
    <3>. QED  BY <1>12, <1>13, <3>1
  <2>4. PICK b \in Seq(Known \cap Suspended) : b = Below
    BY <1>1
  <2>5. \A i \in DOMAIN b : StillQuiet(b[i]) /\ (TearsDown(b[i], sc) => TeardownRight(b[i])')
    BY <2>3, <2>4
  <2>6. Invalidate(b, sc, n) \in Seq(Suspended')
    BY <1>0, <1>4, <1>5, <1>10, <1>11, <2>1, <2>2, <2>5, <2>7, InvalidatedKept
  <2>. QED  BY <1>14, <2>4, <2>6
<1>16. stack' = q
  BY <1>2, <1>14 DEF Erase
<1>17. StackRight'
  <2>1. Suspended' \subseteq RightFrames'
    BY DEF Suspended
  <2>2. q # <<>> => Head(q) \in Suspended' /\ Tail(q) \in Seq(Suspended')
    BY <1>15
  <2>. QED  BY <1>16, <2>1, <2>2 DEF StackRight
<1>18. TeardownAbove(stack')
  BY <1>1, <1>5, <1>14, <1>16, InvalidatedAbove
<1>19. watchers' \subseteq watchers
  BY DEF Erase, UnwatchAll
<1>. QED  BY <1>10, <1>11, <1>17, <1>18, <1>19, TreeStep

(* A new root scope.                                                       *)
LEMMA InitTree == Init => TreeInv
<1>1. SUFFICES ASSUME Init PROVE TreeInv
  OBVIOUS
<1>2. TypeOK /\ stack = <<>>
  BY <1>1, InitType DEF Init
<1>3. \A sc \in ScopeIds : Exists(sc) => scopes[sc].records = <<>>
  BY <1>1 DEF Init, Exists, NewScope
<1>4. ListsRight
  BY <1>3 DEF ListsRight, ListRight, IsInjective
<1>5. watchers \subseteq RightWatchers
  <2>1. \A w \in HostWatchers : w.rec = NoRec /\ w.host = Root /\ w \in Watcher
    BY <1>1, <1>2, ContextAssumption DEF Init, TypeOK
  <2>. QED  BY <1>1, <2>1, ContextAssumption DEF Init, RightWatchers, Live
<1>6. StackRight /\ TeardownAbove(stack)
  BY <1>2 DEF StackRight, TeardownAbove
<1>. QED  BY <1>2, <1>4, <1>5, <1>6 DEF TreeInv

(* TreeInv is inductive: one lemma above for each group of actions.        *)
LEMMA StepTree == TreeInv /\ [Next]_vars => TreeInv'
<1>1. SUFFICES ASSUME TreeInv, [Next]_vars PROVE TreeInv'
  OBVIOUS
<1>2. TypeOK'
  BY <1>1, StepType DEF TreeInv
<1>3. CASE HostCalls
  BY <1>1, <1>2, <1>3, HostCallsTree
<1>4. CASE ThreadSteps
  BY <1>1, <1>2, <1>4, ArmTree, ApplyTree, StopReleaseTree, DtorStopTree, DtorReleaseTree,
     DtorClearTree, RevokeNextTree, RevokeDoneTree, EraseTree, FireTree, CallbackTree
     DEF ThreadSteps
<1>5. CASE Terminated \/ UNCHANGED vars
  <2>1. UNCHANGED vars
    BY <1>5 DEF Terminated
  <2>2. UNCHANGED <<services, watchers, scopes, recs, stack>>
    BY <2>1 DEF vars
  <2>3. ListsRight'
    BY <1>1, <2>2 DEF TreeInv, ListsRight, ListRight, Exists, Live
  <2>4. RightWatchers' = RightWatchers
    BY <2>2 DEF RightWatchers, Live
  <2>5. ASSUME NEW f PROVE PointersRight(f)' <=> PointersRight(f)
    BY <2>2, <2>4 DEF PointersRight, Live
  <2>6. ASSUME NEW f PROVE EraseRight(f)' <=> EraseRight(f)
    BY <2>2 DEF EraseRight, Live, Quiet, Exists
  <2>7. ASSUME NEW f PROVE TeardownRight(f)' <=> TeardownRight(f)
    BY <2>2 DEF TeardownRight, Quiet, Exists
  <2>8. RightFrames' = RightFrames
    BY <2>5, <2>6, <2>7 DEF RightFrames
  <2>9. Suspended' = Suspended
    BY <2>2, <2>8 DEF Suspended, Live
  <2>10. StackRight'
    BY <1>1, <2>2, <2>8, <2>9 DEF TreeInv, StackRight
  <2>11. TeardownAbove(stack)'
    BY <1>1, <2>2 DEF TreeInv, TeardownAbove
  <2>. QED  BY <1>1, <1>2, <2>2, <2>3, <2>4, <2>10, <2>11 DEF TreeInv
<1>. QED  BY <1>1, <1>3, <1>4, <1>5 DEF Next

(* TreeInv holds in every state; the theorems below rest on it.            *)
LEMMA TreeCorrect == Spec => []TreeInv
BY InitTree, StepTree, PTL DEF Spec
-----------------------------------------------------------------------------
(* What the calls that several actions make leave as it is, and how they   *)
(* turn a record.                                                          *)

(* How far each ~Context in phase 4 has still to go.                       *)
Revokes(q) == {<<q[i].scope, q[i].ix>> : i \in {j \in DOMAIN q : q[j].op = "revoke"}}

(* Pushing a call adds at most its own index.                              *)
LEMMA RevokesPushed ==
  ASSUME NEW S, NEW q \in Seq(S), NEW x \in S
  PROVE  /\ Revokes(<<x>> \o q) \subseteq Revokes(q) \cup {<<x.scope, x.ix>>}
         /\ x.op # "revoke" => Revokes(<<x>> \o q) \subseteq Revokes(q)
         /\ Revokes(q) \subseteq Revokes(<<x>> \o q)
<1>1. PICK p : p = <<x>> \o q
  OBVIOUS
<1>2. /\ p[1] = x
      /\ \A i \in DOMAIN q : i + 1 \in DOMAIN p /\ p[i + 1] = q[i]
      /\ \A i \in DOMAIN p : i = 1 \/ (i - 1 \in DOMAIN q /\ p[i] = q[i - 1])
  BY <1>1, PushedPositions
<1>3. ASSUME NEW i \in DOMAIN p, p[i].op = "revoke"
      PROVE  \/ x.op = "revoke" /\ <<p[i].scope, p[i].ix>> = <<x.scope, x.ix>>
             \/ <<p[i].scope, p[i].ix>> \in Revokes(q)
  BY <1>2, <1>3 DEF Revokes
<1>4. Revokes(q) \subseteq Revokes(p)
  BY <1>2 DEF Revokes
<1>5. Revokes(p) \subseteq Revokes(q) \cup {<<x.scope, x.ix>>}
  BY <1>3 DEF Revokes
<1>6. x.op # "revoke" => Revokes(p) \subseteq Revokes(q)
  BY <1>3 DEF Revokes
<1>. QED  BY <1>1, <1>4, <1>5, <1>6

(* Invalidated iterators do not move the loops of ~Context.                *)
LEMMA RevokesMarked ==
  ASSUME NEW q \in Seq(Frame), NEW sc, NEW n \in Nat
  PROVE  Revokes(Invalidate(q, sc, n)) = Revokes(q)
<1>1. PICK p : p = Invalidate(q, sc, n)
  OBVIOUS
<1>2. MarkedFrom(q, p, sc, n)
  BY <1>1, InvalidateSame
<1>3. DOMAIN p = DOMAIN q /\ \A i \in DOMAIN q : /\ p[i].op = q[i].op
                                                 /\ p[i].scope = q[i].scope /\ p[i].ix = q[i].ix
  BY <1>2 DEF MarkedFrom
<1>4. Revokes(p) = Revokes(q)
  BY <1>3 DEF Revokes
<1>. QED  BY <1>1, <1>4

(* No call drops a record, a library or a service: that is left to unload()*)
(* after stopRecord(), and to ~Context.                                    *)
CallKeeps(rest) ==
  /\ \A r \in RecIds : Live(r) =>
       Live(r)' /\ recs'[r].host = recs[r].host /\ recs'[r].lib = recs[r].lib
       /\ recs'[r].plugin = recs[r].plugin
  /\ \A sc \in ScopeIds : Exists(sc) =>
       Exists(sc)' /\ scopes'[sc].retired = scopes[sc].retired
       /\ scopes'[sc].provided = scopes[sc].provided
  /\ Revokes(stack') \subseteq Revokes(rest)

(* One record may turn, as the life cycle has it; a new scope lists none.  *)
RecordTurns ==
  /\ \A sc \in ScopeIds :
       /\ Exists(sc) => Exists(sc)' /\ scopes'[sc].records = scopes[sc].records
       /\ ~Exists(sc) /\ Exists(sc)' => scopes'[sc].records = <<>>
  /\ \A r \in RecIds : Live(r) => recs'[r].plugin = recs[r].plugin
  /\ \E r : \A q \in RecIds : Live(q) =>
       \/ recs'[q].state = recs[q].state
       \/ q = r /\ <<recs[q].state, recs'[q].state>> \in Promise!Legal

(* A call that only returns keeps everything and turns no record.          *)
LEMMA ReturnKeeps ==
  ASSUME NEW rest, Return(rest)
  PROVE  CallKeeps(rest) /\ RecordTurns
BY DEF Return, CallKeeps, RecordTurns, Live, Exists

(* ensureStarted() turns a Deferred record Active.                         *)
LEMMA StartKeeps ==
  ASSUME TypeOK, TypeOK', NEW r, Live(r), NEW rest \in Seq(Frame), EnsureStarted(r, rest)
  PROVE  CallKeeps(rest) /\ RecordTurns
<1>1. CASE ~CanStart(r)
  BY <1>1, ReturnKeeps DEF EnsureStarted
<1>2. CASE CanStart(r)
  <2>1. PICK sc \in ScopeIds :
          /\ IsFresh(sc, ScopeIds, UsedScopes)
          /\ recs' = [recs EXCEPT ![r] = Started(r, sc)]
          /\ scopes' = [scopes EXCEPT ![sc] = NewScope]
          /\ stack' = <<Call("apply", r, sc)>> \o rest
    BY <1>2 DEF EnsureStarted
  <2>2. r \in RecIds /\ recs[r] \in LoadRecord /\ recs \in [RecIds -> LoadRecord \cup {NoRec}]
        /\ scopes \in [ScopeIds -> Scope \cup {Gone}] /\ recs' \in [RecIds -> LoadRecord \cup {NoRec}]
    BY LiveRecord DEF TypeOK
  <2>3. ~Exists(sc)
    BY <2>1, LiveKnown DEF IsFresh
  <2>4. /\ \A q \in RecIds : q # r => recs'[q] = recs[q]
        /\ \A s \in ScopeIds : s # sc => scopes'[s] = scopes[s]
        /\ scopes'[sc] = NewScope /\ recs'[r] = Started(r, sc)
    BY <2>1, <2>2
  <2>5. Started(r, sc) \in LoadRecord
    BY <2>2, InjectedType DEF Started, LoadRecord, States
  <2>6. /\ Started(r, sc).host = recs[r].host /\ Started(r, sc).state = "Active"
        /\ Started(r, sc).lib = recs[r].lib /\ Started(r, sc).plugin = recs[r].plugin
    BY <2>2 DEF Started, LoadRecord
  <2>7. \A q \in RecIds : Live(q) =>
          Live(q)' /\ recs'[q].host = recs[q].host /\ recs'[q].lib = recs[q].lib
          /\ recs'[q].plugin = recs[q].plugin
    BY <2>4, <2>5, <2>6, NullAssumption DEF Live
  <2>8. \A s \in ScopeIds : Exists(s) => Exists(s)' /\ scopes'[s] = scopes[s]
    BY <2>3, <2>4 DEF Exists
  <2>9. Revokes(stack') \subseteq Revokes(rest)
    <3>1. PICK x : x = Call("apply", r, sc)
      OBVIOUS
    <3>2. x \in Frame
      BY <2>2, <3>1, CallType DEF Ops
    <3>3. x.op # "revoke"
      BY <3>1 DEF Call
    <3>4. stack' = <<x>> \o rest
      BY <2>1, <3>1
    <3>. QED  BY <3>2, <3>3, <3>4, RevokesPushed
  <2>10. CallKeeps(rest)
    BY <2>7, <2>8, <2>9 DEF CallKeeps
  <2>11. RecordTurns
    <3>1. recs[r].state = "Deferred" /\ recs'[r].state = "Active"
      BY <1>2, <2>4, <2>6 DEF CanStart
    <3>2. \A q \in RecIds : Live(q) =>
            \/ recs'[q].state = recs[q].state
            \/ q = r /\ <<recs[q].state, recs'[q].state>> \in Promise!Legal
      BY <2>4, <3>1 DEF Promise!Legal
    <3>3. \A s \in ScopeIds : ~Exists(s) /\ Exists(s)' => scopes'[s].records = <<>>
      BY <2>4 DEF Exists, NewScope
    <3>. QED  BY <2>7, <2>8, <3>2, <3>3 DEF RecordTurns
  <2>. QED  BY <2>10, <2>11
<1>. QED  BY <1>1, <1>2

(* stopRecord() turns an Active or Failed record.                          *)
LEMMA StopKeeps ==
  ASSUME TypeOK, ListsRight, NEW r, Live(r), NEW target \in {"Deferred", "Failed", "Disposed"},
         target = "Deferred" => recs[r].state = "Active",
         NEW rest \in Seq(Frame), StopRecord(r, target, rest)
  PROVE  CallKeeps(rest) /\ RecordTurns
<1>1. CASE ~MustStop(r)
  BY <1>1, ReturnKeeps DEF StopRecord
<1>2. CASE MustStop(r)
  <2>1. StopEffect(r, target)
    BY <1>2, StopTreeKept
  <2>2. r \in RecIds /\ recs[r].state \in {"Active", "Failed"}
    BY <1>2 DEF Live, MustStop
  <2>3. \A q \in RecIds : Live(q) =>
          Live(q)' /\ recs'[q].host = recs[q].host /\ recs'[q].lib = recs[q].lib
          /\ recs'[q].plugin = recs[q].plugin
    BY <2>1 DEF StopEffect, Live
  <2>4. \A s \in ScopeIds :
          /\ Exists(s)' = Exists(s)
          /\ Exists(s) =>
               /\ scopes'[s].records = scopes[s].records
               /\ scopes'[s].retired = scopes[s].retired
               /\ scopes'[s].provided = scopes[s].provided
    BY <2>1 DEF StopEffect
  <2>5. Revokes(stack') \subseteq Revokes(rest)
    <3>1. PICK x : x = Call("stop", r, NoScope)
      OBVIOUS
    <3>2. x \in Frame
      BY <2>2, <3>1, CallType DEF Ops
    <3>3. x.op # "revoke"
      BY <3>1 DEF Call
    <3>4. Revokes(<<x>> \o rest) \subseteq Revokes(rest) /\ <<x>> \o rest \in Seq(Frame)
      BY <3>2, <3>3, RevokesPushed, PushType
    <3>5. CASE recs[r].scope = NoScope
      BY <1>2, <3>1, <3>4, <3>5 DEF StopRecord
    <3>6. CASE recs[r].scope # NoScope
      <4>1. PICK y : y = [Call("dtor", NoRec, recs[r].scope) EXCEPT !.ix = Len(scopes[recs[r].scope].records)]
        OBVIOUS
      <4>2. Exists(recs[r].scope) /\ stack' = <<y, x>> \o rest
        BY <1>2, <3>1, <3>6, <4>1 DEF StopRecord
      <4>3. recs[r].scope \in ScopeIds /\ scopes[recs[r].scope] \in Scope
        BY <4>2, ExistingScope
      <4>4. Len(scopes[recs[r].scope].records) \in Nat
        BY <4>3 DEF Scope
      <4>5. y \in Frame /\ y.op = "dtor"
        <5>1. Call("dtor", NoRec, recs[r].scope) \in Frame
          BY <4>3, CallType DEF Ops
        <5>. QED  BY <4>1, <4>4, <5>1 DEF Call, Frame
      <4>6. <<y, x>> \o rest = <<y>> \o (<<x>> \o rest)
        BY <3>2, <4>5, TwoPushed
      <4>7. Revokes(<<y>> \o (<<x>> \o rest)) \subseteq Revokes(<<x>> \o rest)
        BY <3>4, <4>5, RevokesPushed
      <4>. QED  BY <3>4, <4>2, <4>6, <4>7
    <3>. QED  BY <3>5, <3>6
  <2>6. \A q \in RecIds : Live(q) =>
          \/ recs'[q].state = recs[q].state
          \/ q = r /\ <<recs[q].state, recs'[q].state>> \in Promise!Legal
    BY <2>1, <2>2 DEF StopEffect, Promise!Legal
  <2>. QED  BY <2>3, <2>4, <2>5, <2>6 DEF CallKeeps, RecordTurns
<1>. QED  BY <1>1, <1>2

(* A sentinel starts or stops its record.                                  *)
LEMMA CallWatcherKeeps ==
  ASSUME TypeOK, TypeOK', ListsRight, NEW w \in Watcher, NEW v \in BOOLEAN,
         NEW rest \in Seq(Frame), CallWatcher(w, v, rest)
  PROVE  CallKeeps(rest) /\ RecordTurns
<1>1. CASE ~HostAlive(w)
  BY <1>1, ReturnKeeps DEF CallWatcher
<1>2. CASE HostAlive(w) /\ w.rec = NoRec
  <2>1. PICK x : x = [Call("callback", NoRec, NoScope) EXCEPT !.val = v, !.todo = {w}]
    OBVIOUS
  <2>2. Return(<<x>> \o rest)
    BY <1>2, <2>1 DEF CallWatcher
  <2>3. x \in Frame /\ x.op = "callback"
    <3>1. Call("callback", NoRec, NoScope) \in Frame
      BY CallType DEF Ops
    <3>. QED  BY <2>1, <3>1 DEF Call, Frame
  <2>4. Revokes(<<x>> \o rest) \subseteq Revokes(rest)
    BY <2>3, RevokesPushed
  <2>5. CallKeeps(<<x>> \o rest) /\ RecordTurns
    BY <2>2, ReturnKeeps
  <2>. QED  BY <2>4, <2>5 DEF CallKeeps
<1>3. CASE HostAlive(w) /\ w.rec # NoRec
  <2>1. Live(w.rec)
    BY <1>3 DEF CallWatcher
  <2>2. CASE v
    BY <1>3, <2>1, <2>2, StartKeeps DEF CallWatcher
  <2>3. CASE ~v /\ recs[w.rec].state = "Active"
    <3>1. StopRecord(w.rec, "Deferred", rest)
      BY <1>3, <2>3 DEF CallWatcher
    <3>. QED  BY <2>1, <2>3, <3>1, StopKeeps
  <2>4. CASE ~v /\ recs[w.rec].state # "Active"
    BY <1>3, <2>4, ReturnKeeps DEF CallWatcher
  <2>. QED  BY <2>2, <2>3, <2>4
<1>. QED  BY <1>1, <1>2, <1>3

(* A record is appended to one list.                                       *)
RecordAdded(sc, p) ==
  /\ \A s \in ScopeIds : Exists(s)' = Exists(s)
  /\ \A s \in ScopeIds \ {sc} : scopes'[s] = scopes[s]
  /\ \E r \in RecIds :
       /\ scopes'[sc].records = Append(scopes[sc].records, r)
       /\ ~Live(r) /\ recs'[r].plugin = p /\ recs'[r].state = "Deferred"
       /\ \A q \in RecIds \ {r} : recs'[q] = recs[q]

(* addRecord() appends to the list of its scope.                           *)
LEMMA AddKeeps ==
  ASSUME TypeOK, TypeOK', NEW sc, Exists(sc), NEW p \in Plugins, NEW rest \in Seq(Frame),
         AddRecord(sc, p, rest)
  PROVE  CallKeeps(rest) /\ RecordAdded(sc, p)
<1>1. sc \in ScopeIds /\ scopes[sc] \in Scope /\ scopes \in [ScopeIds -> Scope \cup {Gone}]
      /\ recs \in [RecIds -> LoadRecord \cup {NoRec}]
  BY ExistingScope DEF TypeOK
<1>. DEFINE new == [plugin |-> p, host |-> sc, state |-> "Deferred", scope |-> NoScope,
                    tokens |-> {}, inst |-> 0, lib |-> Form[p] = "dynamic", uses |-> {}]
<1>2. PICK r \in RecIds :
        /\ IsFresh(r, RecIds, UsedRecs)
        /\ recs' = [recs EXCEPT ![r] = new]
        /\ scopes' = [scopes EXCEPT ![sc].records = Append(@, r)]
        /\ stack' = <<[Call("arm", r, sc) EXCEPT !.ix = 1]>> \o Invalidate(rest, sc, 1)
  BY DEF AddRecord
<1>3. ~Live(r)
  BY <1>2, LiveKnown DEF IsFresh
<1>4. /\ recs'[r].plugin = p /\ recs'[r].state = "Deferred"
      /\ \A q \in RecIds \ {r} : recs'[q] = recs[q]
  <2>1. new.plugin = p /\ new.state = "Deferred"
    OBVIOUS
  <2>. HIDE DEF new
  <2>2. recs'[r] = new /\ \A q \in RecIds \ {r} : recs'[q] = recs[q]
    BY <1>1, <1>2
  <2>. QED  BY <2>1, <2>2
<1>5. PICK longer : longer = Append(scopes[sc].records, r)
  OBVIOUS
<1>6. scopes' = [scopes EXCEPT ![sc] = [scopes[sc] EXCEPT !.records = longer]]
  BY <1>1, <1>2, <1>5
<1>7. /\ \A s \in ScopeIds \ {sc} : scopes'[s] = scopes[s]
      /\ scopes'[sc].records = longer /\ scopes'[sc].retired = scopes[sc].retired
      /\ scopes'[sc].provided = scopes[sc].provided
      /\ scopes'[sc] \in Scope
  <2>1. longer \in Seq(RecIds)
    BY <1>1, <1>5 DEF Scope
  <2>. QED  BY <1>1, <1>6, <2>1 DEF Scope
<1>8. \A s \in ScopeIds : Exists(s)' = Exists(s)
  BY <1>7, NullAssumption DEF Exists
<1>9. RecordAdded(sc, p)
  BY <1>3, <1>4, <1>5, <1>7, <1>8 DEF RecordAdded
<1>10. Revokes(stack') \subseteq Revokes(rest)
  <2>1. PICK x : x = [Call("arm", r, sc) EXCEPT !.ix = 1]
    OBVIOUS
  <2>2. x \in Frame /\ x.op = "arm"
    <3>1. Call("arm", r, sc) \in Frame
      BY <1>1, CallType DEF Ops
    <3>. QED  BY <2>1, <3>1 DEF Call, Frame
  <2>3. PICK q \in Seq(Frame) : q = Invalidate(rest, sc, 1)
    BY InvalidateType
  <2>4. Revokes(q) = Revokes(rest)
    BY <2>3, RevokesMarked
  <2>5. Revokes(<<x>> \o q) \subseteq Revokes(q)
    BY <2>2, RevokesPushed
  <2>. QED  BY <1>2, <2>1, <2>3, <2>4, <2>5
<1>11. \A q \in RecIds : Live(q) => Live(q)' /\ recs'[q] = recs[q]
  BY <1>3, <1>4 DEF Live
<1>12. \A s \in ScopeIds : Exists(s) => scopes'[s].retired = scopes[s].retired
                                        /\ scopes'[s].provided = scopes[s].provided
  BY <1>7
<1>13. CallKeeps(rest)
  BY <1>8, <1>10, <1>11, <1>12 DEF CallKeeps
<1>. QED  BY <1>9, <1>13

(* unload() stops the first record of that name.                           *)
LEMMA UnloadKeeps ==
  ASSUME TypeOK, ListsRight, NEW sc, Exists(sc), NEW p, NEW rest \in Seq(Frame), Unload(sc, p, rest)
  PROVE  CallKeeps(rest) /\ RecordTurns
<1>1. sc \in ScopeIds /\ scopes[sc] \in Scope
  BY ExistingScope
<1>2. PICK i \in Named(sc, p) :
        /\ Live(scopes[sc].records[i])
        /\ StopRecord(scopes[sc].records[i], "Disposed",
             <<[Call("erase", scopes[sc].records[i], sc) EXCEPT !.ix = i]>> \o rest)
  BY DEF Unload
<1>3. PICK r : r = scopes[sc].records[i]
  OBVIOUS
<1>4. PICK x : x = [Call("erase", r, sc) EXCEPT !.ix = i]
  OBVIOUS
<1>5. x \in Frame /\ x.op = "erase"
  <2>1. i \in Nat /\ r \in RecIds
    BY <1>1, <1>3 DEF Named, Scope
  <2>2. Call("erase", r, sc) \in Frame
    BY <1>1, <2>1, CallType DEF Ops
  <2>. QED  BY <1>4, <2>1, <2>2 DEF Call, Frame
<1>6. <<x>> \o rest \in Seq(Frame) /\ Revokes(<<x>> \o rest) \subseteq Revokes(rest)
  BY <1>5, PushType, RevokesPushed
<1>7. StopRecord(r, "Disposed", <<x>> \o rest) /\ Live(r)
  BY <1>2, <1>3, <1>4
<1>8. CallKeeps(<<x>> \o rest) /\ RecordTurns
  BY <1>6, <1>7, StopKeeps
<1>. QED  BY <1>6, <1>8 DEF CallKeeps

(* provide() turns no record.                                              *)
LEMMA ProvideKeeps ==
  ASSUME TypeOK, NEW s \in Services, NEW sc, Exists(sc), NEW rest \in Seq(Frame),
         ProvideService(s, sc, rest)
  PROVE  /\ Revokes(stack') \subseteq Revokes(rest)
         /\ UNCHANGED recs
         /\ \A t \in ScopeIds : Exists(t)' = Exists(t)
         /\ \A t \in ScopeIds \ {sc} : scopes'[t] = scopes[t]
         /\ scopes'[sc].records = scopes[sc].records /\ scopes'[sc].retired = scopes[sc].retired
         /\ scopes'[sc].provided = Append(scopes[sc].provided, s)
<1>1. sc \in ScopeIds /\ scopes[sc] \in Scope /\ scopes \in [ScopeIds -> Scope \cup {Gone}]
      /\ watchers \in SUBSET Watcher
  BY ExistingScope DEF TypeOK
<1>2. UNCHANGED recs /\ scopes' = [scopes EXCEPT ![sc].provided = Append(@, s)]
  BY DEF ProvideService
<1>3. /\ \A t \in ScopeIds \ {sc} : scopes'[t] = scopes[t]
      /\ scopes'[sc] \in Scope
      /\ scopes'[sc].records = scopes[sc].records /\ scopes'[sc].retired = scopes[sc].retired
      /\ scopes'[sc].provided = Append(scopes[sc].provided, s)
  <2>1. PICK longer : longer = Append(scopes[sc].provided, s)
    OBVIOUS
  <2>2. longer \in Seq(Services)
    BY <1>1, <2>1 DEF Scope
  <2>3. scopes' = [scopes EXCEPT ![sc] = [scopes[sc] EXCEPT !.provided = longer]]
    BY <1>1, <1>2, <2>1
  <2>. QED  BY <1>1, <2>1, <2>2, <2>3 DEF Scope
<1>4. \A t \in ScopeIds : Exists(t)' = Exists(t)
  BY <1>1, <1>3, NullAssumption DEF Exists
<1>5. Revokes(stack') \subseteq Revokes(rest)
  <2>1. CASE Appears(s, sc)
    <3>1. PICK x : x = FireWatchers(TRUE, Snapshot(s))
      OBVIOUS
    <3>2. Snapshot(s) \in SUBSET Watcher
      BY <1>1 DEF Snapshot
    <3>3. x \in Frame /\ x.op = "fire"
      <4>1. x \in Frame
        BY <3>1, <3>2, FireType
      <4>. QED  BY <3>1, <4>1 DEF FireWatchers, Call
    <3>4. stack' = <<x>> \o rest
      BY <2>1, <3>1 DEF ProvideService
    <3>. QED  BY <3>3, <3>4, RevokesPushed
  <2>2. CASE ~Appears(s, sc)
    <3>1. stack' = <<>> \o rest
      BY <2>2 DEF ProvideService
    <3>2. stack' = rest
      BY <3>1
    <3>. QED  BY <3>2
  <2>. QED  BY <2>1, <2>2
<1>. QED  BY <1>2, <1>3, <1>4, <1>5

(* The calls that wait below the running one.                              *)
LEMMA RevokesBelow ==
  ASSUME TypeOK, NEW op, Running(op)
  PROVE  /\ Below \in Seq(Frame) /\ Revokes(Below) \subseteq Revokes(stack)
         /\ op # "revoke" => Revokes(stack) \subseteq Revokes(Below)
         /\ \A g \in Frame : g.op # "revoke" =>
              Resume(g) \in Seq(Frame) /\ Revokes(Resume(g)) \subseteq Revokes(stack)
<1>1. stack = <<Top>> \o Below /\ Top \in Frame /\ Below \in Seq(Frame) /\ Top.op = op
  BY RunningStack
<1>2. /\ Revokes(Below) \subseteq Revokes(<<Top>> \o Below)
      /\ op # "revoke" => Revokes(<<Top>> \o Below) \subseteq Revokes(Below)
  BY <1>1, RevokesPushed
<1>3. Revokes(Below) \subseteq Revokes(stack) /\ (op # "revoke" => Revokes(stack) \subseteq Revokes(Below))
  BY <1>1, <1>2
<1>4. ASSUME NEW g \in Frame, g.op # "revoke"
      PROVE  Resume(g) \in Seq(Frame) /\ Revokes(Resume(g)) \subseteq Revokes(stack)
  <2>1. Revokes(<<g>> \o Below) \subseteq Revokes(Below) /\ <<g>> \o Below \in Seq(Frame)
    BY <1>1, <1>4, RevokesPushed, PushType
  <2>. QED  BY <1>3, <2>1 DEF Resume
<1>. QED  BY <1>1, <1>3, <1>4

(* The steps that are one call, or make one from a loop.                   *)
LEMMA CallStep ==
  ASSUME TypeOK, TypeOK', ListsRight,
         \/ ArmNext \/ ArmStarts \/ FireNext \/ DtorStop \/ ApplyThrows
         \/ \E p : HostUnload(p) \/ ApplyEvict(p) \/ CallbackUnloads(p)
  PROVE  /\ UNCHANGED services /\ RecordTurns
         /\ \E rest : CallKeeps(rest) /\ Revokes(rest) \subseteq Revokes(stack)
<1>1. CASE ArmNext
  <2>1. Running("arm") /\ UNCHANGED services
    BY Zenon, <1>1 DEF ArmNext
  <2>2. Top \in Frame /\ Top.op = "arm"
    BY SMTT(40), <2>1, RunningStack
  <2>3. PICK w : Register(w) /\
          CallWatcher(w, Available(Requires[recs[Top.rec].plugin][Top.ix]),
                      Resume([Top EXCEPT !.todo = {w}]))
    BY Zenon, <1>1 DEF ArmNext
  <2>4. w \in Watcher
    <3>1. w \in watchers'
      BY <2>3 DEF Register
    <3>. QED  BY <3>1 DEF TypeOK
  <2>5. PICK g : g = [Top EXCEPT !.todo = {w}]
    OBVIOUS
  <2>6. g \in Frame /\ g.op = "arm"
    BY <2>2, <2>4, <2>5 DEF Frame
  <2>7. Resume(g) \in Seq(Frame) /\ Revokes(Resume(g)) \subseteq Revokes(stack)
    BY <2>1, <2>6, RevokesBelow
  <2>8. CallKeeps(Resume(g)) /\ RecordTurns
    <3>1. PICK v \in BOOLEAN : v = Available(Requires[recs[Top.rec].plugin][Top.ix])
      BY DEF Available
    <3>2. CallWatcher(w, v, Resume(g))
      BY <2>3, <2>5, <3>1
    <3>. QED  BY <2>4, <2>7, <3>2, CallWatcherKeeps
  <2>. QED  BY SMTT(40), <2>1, <2>7, <2>8
<1>2. CASE ArmStarts
  <2>1. Running("arm") /\ Live(Top.rec) /\ EnsureStarted(Top.rec, Below) /\ UNCHANGED services
    BY <1>2 DEF ArmStarts
  <2>2. Below \in Seq(Frame) /\ Revokes(Below) \subseteq Revokes(stack)
    BY <2>1, RevokesBelow
  <2>. QED  BY <2>1, <2>2, StartKeeps
<1>3. CASE FireNext
  <2>1. PICK w \in Top.todo : CallWatcher(w, Top.val, Resume([Top EXCEPT !.todo = Top.todo \ {w}]))
    BY <1>3 DEF FireNext
  <2>2. Running("fire") /\ UNCHANGED services
    BY <1>3 DEF FireNext
  <2>3. Top \in Frame /\ Top.op = "fire"
    BY <2>2, RunningStack
  <2>4. PICK g : g = [Top EXCEPT !.todo = Top.todo \ {w}]
    OBVIOUS
  <2>5. g \in Frame /\ g.op = "fire" /\ w \in Watcher /\ Top.val \in BOOLEAN
    BY <2>3, <2>4 DEF Frame
  <2>6. Resume(g) \in Seq(Frame) /\ Revokes(Resume(g)) \subseteq Revokes(stack)
    BY <2>2, <2>5, RevokesBelow
  <2>. QED  BY <2>1, <2>2, <2>4, <2>5, <2>6, CallWatcherKeeps
<1>4. CASE DtorStop
  <2>1. PICK g, r : g = [Top EXCEPT !.val = TRUE] /\ r = scopes[Top.scope].records[Top.ix]
    OBVIOUS
  <2>2. StopRecord(r, "Disposed", Resume(g)) /\ Live(r) /\ Running("dtor") /\ UNCHANGED services
    BY <1>4, <2>1 DEF DtorStop
  <2>3. g \in Frame /\ g.op = "dtor"
    <3>1. Top \in Frame /\ Top.op = "dtor"
      BY <2>2, RunningStack
    <3>. QED  BY <2>1, <3>1 DEF Frame
  <2>4. Resume(g) \in Seq(Frame) /\ Revokes(Resume(g)) \subseteq Revokes(stack)
    BY <2>2, <2>3, RevokesBelow
  <2>. QED  BY <2>2, <2>4, StopKeeps
<1>5. CASE ApplyThrows
  <2>1. StopRecord(Top.rec, "Failed", Below) /\ Live(Top.rec) /\ Running("apply") /\ UNCHANGED services
    BY <1>5 DEF ApplyThrows
  <2>2. Below \in Seq(Frame) /\ Revokes(Below) \subseteq Revokes(stack)
    BY <2>1, RevokesBelow
  <2>. QED  BY <2>1, <2>2, StopKeeps
<1>6. ASSUME NEW p, HostUnload(p)
      PROVE  CallKeeps(<<>>) /\ Revokes(<<>>) \subseteq Revokes(stack) /\ RecordTurns
  <2>1. Unload(Root, p, <<>>) /\ Exists(Root) /\ <<>> \in Seq(Frame)
    BY <1>6 DEF HostUnload, Idle
  <2>2. Revokes(<<>>) = {}
    BY DEF Revokes
  <2>. QED  BY <2>1, <2>2, UnloadKeeps
<1>7. ASSUME NEW p, ApplyEvict(p) PROVE CallKeeps(stack) /\ RecordTurns
  <2>1. Unload(recs[Top.rec].host, p, stack) /\ Exists(recs[Top.rec].host) /\ stack \in Seq(Frame)
    BY <1>7 DEF ApplyEvict, TypeOK
  <2>. QED  BY <2>1, UnloadKeeps
<1>8. ASSUME NEW p, CallbackUnloads(p)
      PROVE  CallKeeps(Below) /\ Revokes(Below) \subseteq Revokes(stack) /\ RecordTurns
  <2>1. Unload(Root, p, Below) /\ Exists(Root) /\ Running("callback")
    BY <1>8 DEF CallbackUnloads
  <2>2. Below \in Seq(Frame) /\ Revokes(Below) \subseteq Revokes(stack)
    BY SMTT(40), <2>1, RevokesBelow
  <2>. QED  BY <2>1, <2>2, UnloadKeeps
<1>9. ASSUME NEW p, HostUnload(p) \/ ApplyEvict(p) \/ CallbackUnloads(p)
      PROVE  UNCHANGED services
  BY Zenon, <1>9 DEF HostUnload, ApplyEvict, CallbackUnloads, Unload
<1>. QED  BY <1>1, <1>2, <1>3, <1>4, <1>5, <1>6, <1>7, <1>8, <1>9

(* So is loading, by the host, a plugin or a callback.                     *)
LEMMA LoadStep ==
  ASSUME TypeOK, TypeOK', NEW p \in Plugins, HostLoad(p) \/ ApplyLoad(p) \/ CallbackLoads(p)
  PROVE  /\ UNCHANGED services
         /\ \E sc : Exists(sc) /\ RecordAdded(sc, p)
         /\ \E rest : CallKeeps(rest) /\ Revokes(rest) \subseteq Revokes(stack)
<1>1. CASE HostLoad(p)
  <2>1. AddRecord(Root, p, <<>>) /\ Exists(Root) /\ <<>> \in Seq(Frame)
    BY <1>1 DEF HostLoad, Idle
  <2>2. Revokes(<<>>) = {}
    BY DEF Revokes
  <2>3. CallKeeps(<<>>) /\ RecordAdded(Root, p)
    BY <2>1, AddKeeps
  <2>. QED  BY <2>1, <2>2, <2>3 DEF AddRecord
<1>2. CASE ApplyLoad(p)
  <2>1. AddRecord(Top.scope, p, stack) /\ Exists(Top.scope) /\ stack \in Seq(Frame)
    BY <1>2 DEF ApplyLoad, Applying, TypeOK
  <2>2. CallKeeps(stack) /\ RecordAdded(Top.scope, p)
    BY <2>1, AddKeeps
  <2>. QED  BY <2>1, <2>2 DEF AddRecord
<1>3. CASE CallbackLoads(p)
  <2>1. AddRecord(Root, p, Below) /\ Exists(Root) /\ Running("callback")
    BY <1>3 DEF CallbackLoads
  <2>2. Below \in Seq(Frame) /\ Revokes(Below) \subseteq Revokes(stack)
    BY <2>1, RevokesBelow
  <2>3. CallKeeps(Below) /\ RecordAdded(Root, p)
    BY <2>1, <2>2, AddKeeps
  <2>. QED  BY <2>1, <2>2, <2>3 DEF AddRecord
<1>. QED  BY <1>1, <1>2, <1>3

(* The steps that only note something in a record.                         *)
LEMMA NoteStep ==
  ASSUME TypeOK, ArmToken \/ ApplyReturns \/ StopRelease
  PROVE  /\ UNCHANGED <<services, scopes>>
         /\ Revokes(stack') \subseteq Revokes(stack)
         /\ \A q \in RecIds : Live(q) =>
              /\ Live(q)' /\ recs'[q].host = recs[q].host /\ recs'[q].plugin = recs[q].plugin
              /\ recs'[q].lib = recs[q].lib /\ recs'[q].state = recs[q].state
<1>1. /\ recs[Top.rec] \in LoadRecord /\ Live(Top.rec) /\ Top.rec \in RecIds
      /\ recs \in [RecIds -> LoadRecord \cup {NoRec}] /\ UNCHANGED <<services, scopes>>
  BY LiveRecord DEF ArmToken, ApplyReturns, StopRelease, TypeOK
<1>2. ASSUME NEW rec \in LoadRecord, recs' = [recs EXCEPT ![Top.rec] = rec],
             rec.host = recs[Top.rec].host, rec.plugin = recs[Top.rec].plugin,
             rec.lib = recs[Top.rec].lib, rec.state = recs[Top.rec].state,
             NEW q \in RecIds, Live(q)
      PROVE  /\ Live(q)' /\ recs'[q].host = recs[q].host /\ recs'[q].plugin = recs[q].plugin
             /\ recs'[q].lib = recs[q].lib /\ recs'[q].state = recs[q].state
  BY <1>1, <1>2, NullAssumption DEF Live
<1>3. CASE ArmToken
  <2>1. PICK toks : toks = recs[Top.rec].tokens \cup {w.tok : w \in Top.todo}
    OBVIOUS
  <2>2. PICK rec : rec = [recs[Top.rec] EXCEPT !.tokens = toks]
    OBVIOUS
  <2>3. recs' = [recs EXCEPT ![Top.rec] = rec] /\ Running("arm")
    BY <1>3, <2>1, <2>2 DEF ArmToken
  <2>4. Top \in Frame /\ Top.op = "arm"
    BY <2>3, RunningStack
  <2>5. toks \in SUBSET Tokens
    BY <1>1, <2>1, <2>4 DEF Frame, LoadRecord, Watcher
  <2>6. /\ rec \in LoadRecord /\ rec.host = recs[Top.rec].host /\ rec.state = recs[Top.rec].state
        /\ rec.plugin = recs[Top.rec].plugin /\ rec.lib = recs[Top.rec].lib
    BY <1>1, <2>2, <2>5 DEF LoadRecord
  <2>7. PICK g : g = [Top EXCEPT !.todo = {}, !.ix = Top.ix + 1]
    OBVIOUS
  <2>8. g \in Frame /\ g.op = "arm"
    <3>1. Top.ix + 1 \in Nat
      BY <2>4 DEF Frame
    <3>. QED  BY <2>4, <2>7, <3>1 DEF Frame
  <2>9. Revokes(stack') \subseteq Revokes(stack)
    BY <1>3, <2>3, <2>7, <2>8, RevokesBelow DEF ArmToken
  <2>. QED  BY <1>1, <1>2, <2>3, <2>6, <2>9
<1>4. CASE ApplyReturns \/ StopRelease
  <2>1. PICK n : n = recs[Top.rec].inst + (IF Form[recs[Top.rec].plugin] = "class" THEN 1 ELSE 0)
    OBVIOUS
  <2>2. PICK rec : /\ recs' = [recs EXCEPT ![Top.rec] = rec]
                   /\ \/ rec = [recs[Top.rec] EXCEPT !.inst = n]
                      \/ rec = [recs[Top.rec] EXCEPT !.inst = 0, !.uses = {}]
    BY <1>4, <2>1 DEF ApplyReturns, StopRelease, Released
  <2>3. n \in Nat
    BY <1>1, <2>1 DEF LoadRecord
  <2>4. /\ rec \in LoadRecord /\ rec.host = recs[Top.rec].host /\ rec.state = recs[Top.rec].state
        /\ rec.plugin = recs[Top.rec].plugin /\ rec.lib = recs[Top.rec].lib
    <3>1. CASE rec = [recs[Top.rec] EXCEPT !.inst = n]
      BY <1>1, <2>3, <3>1 DEF LoadRecord
    <3>2. CASE rec = [recs[Top.rec] EXCEPT !.inst = 0, !.uses = {}]
      BY <1>1, <3>2 DEF LoadRecord
    <3>. QED  BY <2>2, <3>1, <3>2
  <2>5. Revokes(stack') \subseteq Revokes(stack)
    BY <1>4, RevokesBelow DEF ApplyReturns, StopRelease
  <2>. QED  BY <1>1, <1>2, <2>2, <2>4, <2>5
<1>. QED  BY <1>3, <1>4

-----------------------------------------------------------------------------
(* Services and their owners.                                              *)

(* ServicesOwned, in terms of what the destructors have still to revoke.   *)
Owned ==
  \A s \in Services : services[s] # NoScope =>
    /\ Exists(services[s]) /\ s \in ToSet(scopes[services[s]].provided)
    /\ \A n \in Nat : <<services[s], n>> \in Revokes(stack) =>
         \E j \in 1..n : scopes[services[s]].provided[j] = s

(* It is ServicesOwned, with the stack read through Revokes.               *)
LEMMA OwnedSame ==
  ASSUME TypeOK
  PROVE  ServicesOwned <=> Owned
<1>1. \A i \in DOMAIN stack : stack[i].ix \in Nat
  <2>1. stack \in Seq(Frame)
    BY DEF TypeOK
  <2>2. \A i \in DOMAIN stack : stack[i] \in Frame
    BY <2>1
  <2>. QED  BY <2>2 DEF Frame
<1>2. ASSUME NEW s \in Services, NEW sc
      PROVE  (\A i \in DOMAIN stack : stack[i].op = "revoke" /\ stack[i].scope = sc =>
                \E j \in 1..stack[i].ix : scopes[sc].provided[j] = s)
             <=> (\A n \in Nat : <<sc, n>> \in Revokes(stack) =>
                    \E j \in 1..n : scopes[sc].provided[j] = s)
  BY <1>1 DEF Revokes
<1>. QED  BY <1>2 DEF ServicesOwned, Owned

(* Most calls leave the services as they are.                              *)
LEMMA OwnedKept ==
  ASSUME TypeOK, Owned, UNCHANGED services, Revokes(stack') \subseteq Revokes(stack),
         \A sc \in ScopeIds : Exists(sc) => Exists(sc)' /\ scopes'[sc].provided = scopes[sc].provided
  PROVE  Owned'
<1>1. \A s \in Services : services[s] # NoScope => services[s] \in ScopeIds
  BY DEF TypeOK
<1>. QED  BY <1>1 DEF Owned

(* provide() by a scope that no destructor has reached.                    *)
LEMMA OwnedProvide ==
  ASSUME TypeOK, Owned, NEW s \in Services, NEW sc, Exists(sc), NEW rest \in Seq(Frame),
         Revokes(rest) \subseteq Revokes(stack), \A n : <<sc, n>> \notin Revokes(stack),
         ProvideService(s, sc, rest)
  PROVE  Owned'
<1>1. sc \in ScopeIds /\ scopes[sc] \in Scope /\ services \in [Services -> ScopeIds \cup {NoScope}]
  BY ExistingScope DEF TypeOK
<1>2. /\ Revokes(stack') \subseteq Revokes(stack)
      /\ \A t \in ScopeIds : Exists(t)' = Exists(t)
      /\ \A t \in ScopeIds \ {sc} : scopes'[t] = scopes[t]
      /\ scopes'[sc].provided = Append(scopes[sc].provided, s)
  BY ProvideKeeps
<1>3. ToSet(Append(scopes[sc].provided, s)) = ToSet(scopes[sc].provided) \cup {s}
  <2>1. PICK list \in Seq(Services) : list = scopes[sc].provided
    BY <1>1 DEF Scope
  <2>2. /\ DOMAIN Append(list, s) = 1..(Len(list) + 1) /\ DOMAIN list = 1..Len(list) /\ Len(list) \in Nat
        /\ \A i \in 1..Len(list) : Append(list, s)[i] = list[i]
        /\ Append(list, s)[Len(list) + 1] = s
    OBVIOUS
  <2>3. ToSet(Append(list, s)) = ToSet(list) \cup {s}
    BY <2>2 DEF ToSet
  <2>. QED  BY <2>1, <2>3
<1>4. \A t \in Services : services'[t] = services[t] \/ (t = s /\ services'[t] = sc)
  BY <1>1 DEF ProvideService, ProvideEntry
<1>5. ASSUME NEW t \in Services, services'[t] # NoScope
      PROVE  /\ services'[t] \in ScopeIds /\ scopes'[services'[t]] # Gone
             /\ t \in ToSet(scopes'[services'[t]].provided)
             /\ \A n \in Nat : <<services'[t], n>> \in Revokes(stack') =>
                  \E j \in 1..n : scopes'[services'[t]].provided[j] = t
  <2>1. CASE services'[t] = sc
    <3>1. t = s \/ t \in ToSet(scopes[sc].provided)
      BY <1>1, <1>4, <1>5, <2>1 DEF Owned
    <3>. QED  BY <1>1, <1>2, <1>3, <2>1, <3>1 DEF Exists
  <2>2. CASE services'[t] # sc
    <3>1. services'[t] = services[t] /\ services[t] \in ScopeIds
      BY <1>1, <1>4, <1>5, <2>2
    <3>. QED  BY <1>2, <1>5, <2>2, <3>1 DEF Owned, Exists
  <2>. QED  BY <2>1, <2>2
<1>. QED  BY <1>5 DEF Owned, Exists

(* ~Context phase 4 takes back the service it has come to ...              *)
LEMMA OwnedRevoke ==
  ASSUME TypeOK, Owned, RevokeNext
  PROVE  Owned'
<1>1. /\ Top.scope \in ScopeIds /\ scopes[Top.scope] \in Scope
      /\ services \in [Services -> ScopeIds \cup {NoScope}] /\ watchers \in SUBSET Watcher
  BY ExistingScope DEF TypeOK, RevokeNext
<1>2. PICK sc, n, list, s : /\ sc = Top.scope /\ n = Top.ix /\ list = scopes[sc].provided
                            /\ s = list[n]
  OBVIOUS
<1>3. list \in Seq(Services) /\ DOMAIN list = 1..Len(list) /\ Len(list) \in Nat /\ n \in 1..Len(list)
  <2>1. list \in Seq(Services)
    BY <1>1, <1>2 DEF Scope
  <2>2. DOMAIN list = 1..Len(list) /\ Len(list) \in Nat
    BY <2>1
  <2>3. n \in DOMAIN list
    BY <1>2 DEF RevokeNext
  <2>. QED  BY <2>1, <2>2, <2>3
<1>4. /\ stack = <<Top>> \o Below /\ Top \in Frame /\ Below \in Seq(Frame) /\ Top.op = "revoke"
  BY RunningStack DEF RevokeNext
<1>5. PICK g : g = Earlier(Top)
  OBVIOUS
<1>6. g \in Frame /\ g.op = "revoke" /\ g.scope = sc /\ g.ix = n - 1
  <2>1. Top.ix - 1 \in Nat
    BY <1>2, <1>3
  <2>. QED  BY <1>2, <1>4, <1>5, <2>1 DEF Earlier, Frame
<1>7. Revokes(stack') \subseteq Revokes(stack) \cup {<<sc, n - 1>>}
  <2>1. Revokes(<<g>> \o Below) \subseteq Revokes(Below) \cup {<<sc, n - 1>>}
    BY SMTT(40), <1>4, <1>6, RevokesPushed
  <2>2. Revokes(Below) \subseteq Revokes(stack)
    BY RevokesBelow DEF RevokeNext
  <2>3. PICK q : q = <<g>> \o Below
    OBVIOUS
  <2>4. q \in Seq(Frame)
    BY <1>4, <1>6, <2>3, PushType
  <2>5. CASE Disappears(s, sc)
    <3>1. PICK x : x = FireWatchers(FALSE, Snapshot(s))
      OBVIOUS
    <3>2. Snapshot(s) \in SUBSET Watcher
      BY <1>1 DEF Snapshot
    <3>3. x \in Frame /\ x.op = "fire"
      <4>1. x \in Frame
        BY <3>1, <3>2, FireType
      <4>. QED  BY <3>1, <4>1 DEF FireWatchers, Call
    <3>4. stack' = <<x>> \o q
      BY <1>2, <1>5, <2>3, <2>5, <3>1 DEF RevokeNext, Resume
    <3>5. Revokes(<<x>> \o q) \subseteq Revokes(q)
      BY <2>4, <3>3, RevokesPushed
    <3>. QED  BY <2>1, <2>2, <2>3, <3>4, <3>5
  <2>6. CASE ~Disappears(s, sc)
    <3>1. stack' = <<>> \o q
      BY <1>2, <1>5, <2>3, <2>6 DEF RevokeNext, Resume
    <3>2. stack' = q
      BY <2>4, <3>1
    <3>. QED  BY <2>1, <2>2, <2>3, <3>2
  <2>. QED  BY <2>5, <2>6
<1>8. <<sc, n>> \in Revokes(stack)
  <2>1. (<<Top>> \o Below)[1] = Top /\ 1 \in DOMAIN (<<Top>> \o Below)
    BY <1>4, PushedPositions
  <2>. QED  BY <1>2, <1>4, <2>1 DEF Revokes
<1>9. /\ \A t \in Services : services'[t] = services[t] \/ services'[t] = NoScope
      /\ services[s] = sc => services'[s] = NoScope
  <2>1. RevokeEntry(s, sc) /\ s \in Services
    <3>1. RevokeEntry((scopes[Top.scope].provided)[Top.ix], Top.scope)
      BY Zenon DEF RevokeNext
    <3>2. (scopes[Top.scope].provided)[Top.ix] = s /\ Top.scope = sc
      BY <1>2
    <3>3. s \in Services
      BY <1>2, <1>3
    <3>. QED  BY <3>1, <3>2, <3>3
  <2>. QED  BY <1>1, <2>1 DEF RevokeEntry, Disappears
<1>10. UNCHANGED scopes
  BY DEF RevokeNext
<1>11. ASSUME NEW t \in Services, services'[t] # NoScope, <<services'[t], n - 1>> = <<sc, n - 1>>
       PROVE  \E j \in 1..(n - 1) : scopes[sc].provided[j] = t
  <2>1. services[t] = sc /\ t # s
    BY <1>9, <1>11
  <2>2. n \in Nat
    BY <1>3
  <2>3. PICK j \in 1..n : scopes[sc].provided[j] = t
    BY <1>1, <1>8, <1>9, <1>11, <2>1, <2>2 DEF Owned
  <2>4. j # n
    BY <1>2, <2>1, <2>3
  <2>. QED  BY <2>2, <2>3, <2>4
<1>12. ASSUME NEW t \in Services, services'[t] # NoScope
       PROVE  /\ services'[t] \in ScopeIds /\ scopes'[services'[t]] # Gone
              /\ t \in ToSet(scopes'[services'[t]].provided)
              /\ \A m \in Nat : <<services'[t], m>> \in Revokes(stack') =>
                   \E j \in 1..m : scopes'[services'[t]].provided[j] = t
  <2>1. services'[t] = services[t] /\ services[t] # NoScope
    BY <1>9, <1>12
  <2>2. services'[t] \in ScopeIds /\ scopes'[services'[t]] # Gone
        /\ t \in ToSet(scopes'[services'[t]].provided)
    BY <1>10, <2>1 DEF Owned, Exists
  <2>3. ASSUME NEW m \in Nat, <<services'[t], m>> \in Revokes(stack')
        PROVE  \E j \in 1..m : scopes'[services'[t]].provided[j] = t
    <3>1. CASE <<services[t], m>> \in Revokes(stack)
      BY <1>10, <2>1, <3>1 DEF Owned
    <3>2. CASE <<services'[t], m>> = <<sc, n - 1>>
      BY <1>10, <1>11, <1>12, <3>2
    <3>. QED  BY <1>7, <2>1, <2>3, <3>1, <3>2
  <2>. QED  BY <2>2, <2>3
<1>. QED  BY SMTT(40), <1>12 DEF Owned, Exists

(* ... having begun with the last; ...                                     *)
LEMMA OwnedClear ==
  ASSUME TypeOK, Owned, DtorClear
  PROVE  Owned'
<1>1. /\ Top.scope \in ScopeIds /\ scopes[Top.scope] \in Scope
      /\ services \in [Services -> ScopeIds \cup {NoScope}]
      /\ scopes \in [ScopeIds -> Scope \cup {Gone}] /\ UNCHANGED services
  BY ExistingScope DEF TypeOK, DtorClear
<1>2. PICK sc, list : sc = Top.scope /\ list = scopes[sc].provided
  OBVIOUS
<1>3. list \in Seq(Services) /\ DOMAIN list = 1..Len(list) /\ Len(list) \in Nat
  <2>1. list \in Seq(Services)
    BY <1>1, <1>2 DEF Scope
  <2>. QED  BY <2>1
<1>4. \A t \in ScopeIds : Exists(t) => Exists(t)' /\ scopes'[t].provided = scopes[t].provided
  <2>1. scopes' = [scopes EXCEPT ![sc] = [scopes[sc] EXCEPT !.records = <<>>, !.retired = {}]]
    BY <1>1, <1>2 DEF DtorClear
  <2>2. /\ \A t \in ScopeIds \ {sc} : scopes'[t] = scopes[t]
        /\ scopes'[sc] = [scopes[sc] EXCEPT !.records = <<>>, !.retired = {}]
    BY <1>1, <1>2, <2>1
  <2>3. scopes'[sc].provided = scopes[sc].provided /\ scopes'[sc] \in Scope
    <3>1. <<>> \in Seq(RecIds) /\ {} \in SUBSET Plugins
      OBVIOUS
    <3>. QED  BY <1>1, <1>2, <2>2, <3>1 DEF Scope
  <2>. QED  BY <2>2, <2>3, NullAssumption DEF Exists
<1>5. Revokes(stack') \subseteq Revokes(stack) \cup {<<sc, Len(list)>>}
  <2>1. PICK g : g = [Call("revoke", NoRec, sc) EXCEPT !.ix = Len(list)]
    OBVIOUS
  <2>2. g \in Frame /\ g.op = "revoke" /\ g.scope = sc /\ g.ix = Len(list)
    <3>1. Call("revoke", NoRec, sc) \in Frame
      BY <1>1, <1>2, CallType DEF Ops
    <3>. QED  BY <1>3, <2>1, <3>1 DEF Call, Frame
  <2>3. stack' = <<g>> \o Below
    BY <1>2, <2>1 DEF DtorClear, Resume
  <2>4. Below \in Seq(Frame) /\ Revokes(Below) \subseteq Revokes(stack)
    BY RevokesBelow DEF DtorClear
  <2>5. Revokes(<<g>> \o Below) \subseteq Revokes(Below) \cup {<<sc, Len(list)>>}
    BY <2>2, <2>4, RevokesPushed
  <2>. QED  BY <2>3, <2>4, <2>5
<1>6. ASSUME NEW s \in Services, services[s] # NoScope
      PROVE  /\ services[s] \in ScopeIds /\ scopes'[services[s]] # Gone
             /\ s \in ToSet(scopes'[services[s]].provided)
             /\ \A n \in Nat : <<services[s], n>> \in Revokes(stack') =>
                  \E j \in 1..n : scopes'[services[s]].provided[j] = s
  <2>1. PICK o \in ScopeIds : o = services[s]
    BY <1>1, <1>6
  <2>2. Exists(o)' /\ scopes'[o].provided = scopes[o].provided /\ s \in ToSet(scopes[o].provided)
        /\ \A n \in Nat : <<o, n>> \in Revokes(stack) => \E j \in 1..n : scopes[o].provided[j] = s
    BY <1>4, <1>6, <2>1 DEF Owned
  <2>3. o = sc => \E j \in 1..Len(list) : scopes[o].provided[j] = s
    BY <1>2, <1>3, <2>2 DEF ToSet
  <2>4. \A n \in Nat : <<o, n>> \in Revokes(stack') => \E j \in 1..n : scopes'[o].provided[j] = s
    BY <1>5, <2>2, <2>3
  <2>5. scopes'[o] # Gone
    BY <2>2 DEF Exists
  <2>. QED  BY <2>1, <2>2, <2>4, <2>5 DEF Exists
<1>. QED  BY <1>1, <1>6 DEF Owned, Exists

(* ... when it is done, none is left.                                      *)
LEMMA OwnedDone ==
  ASSUME TypeOK, Owned, RevokeDone
  PROVE  Owned'
<1>1. /\ stack = <<Top>> \o Below /\ Top \in Frame /\ Below \in Seq(Frame) /\ Top.op = "revoke"
      /\ Revokes(Below) \subseteq Revokes(stack)
  BY RunningStack, RevokesBelow DEF RevokeDone
<1>2. <<Top.scope, 0>> \in Revokes(stack)
  <2>1. (<<Top>> \o Below)[1] = Top /\ 1 \in DOMAIN (<<Top>> \o Below)
    BY <1>1, PushedPositions
  <2>. QED  BY <1>1, <2>1 DEF Revokes, RevokeDone
<1>3. \A s \in Services : services[s] # NoScope => services[s] # Top.scope
  <2>1. 1..0 = {}
    OBVIOUS
  <2>. QED  BY <1>2, <2>1 DEF Owned
<1>4. /\ UNCHANGED services /\ stack' = Below
      /\ \A t \in ScopeIds \ {Top.scope} : scopes'[t] = scopes[t]
  BY DEF RevokeDone, TypeOK
<1>5. ASSUME NEW s \in Services, services[s] # NoScope
      PROVE  /\ services[s] \in ScopeIds /\ scopes'[services[s]] # Gone
             /\ s \in ToSet(scopes'[services[s]].provided)
             /\ \A n \in Nat : <<services[s], n>> \in Revokes(stack') =>
                  \E j \in 1..n : scopes'[services[s]].provided[j] = s
  <2>1. PICK o \in ScopeIds \ {Top.scope} : o = services[s]
    BY <1>3, <1>5 DEF TypeOK
  <2>2. scopes'[o] = scopes[o]
    BY <1>4
  <2>3. Revokes(stack') \subseteq Revokes(stack)
    BY <1>1, <1>4
  <2>. QED  BY <1>5, <2>1, <2>2, <2>3 DEF Owned, Exists
<1>. QED  BY <1>4, <1>5 DEF Owned, Exists

(* A call on top of those that wait, or in place of the running one.       *)
LEMMA OwnedCall ==
  ASSUME TypeOK, Owned, UNCHANGED services, NEW rest, CallKeeps(rest),
         Revokes(rest) \subseteq Revokes(stack)
  PROVE  Owned'
BY OwnedKept DEF CallKeeps

(* The host's calls keep every service owned.                              *)
LEMMA HostCallsOwned ==
  ASSUME TreeInv, TypeOK', Owned, HostCalls PROVE Owned'
<1>1. TypeOK /\ ListsRight /\ <<>> \in Seq(Frame)
  BY DEF TreeInv
<1>2. stack = <<>> => Revokes(stack) = {} /\ Revokes(<<>>) = {}
  BY DEF Revokes
<1>3. ASSUME NEW p \in Plugins, HostLoad(p) PROVE Owned'
  BY <1>1, <1>3, LoadStep, OwnedCall
<1>4. ASSUME NEW p, HostUnload(p) PROVE Owned'
  BY <1>1, <1>4, CallStep, OwnedCall
<1>5. ASSUME NEW s \in Services, HostProvide(s) PROVE Owned'
  <2>1. ProvideService(s, Root, <<>>) /\ Exists(Root) /\ stack = <<>>
    BY <1>5 DEF HostProvide, Idle
  <2>. QED  BY <1>1, <1>2, <2>1, OwnedProvide
<1>6. ASSUME HostDestroy PROVE Owned'
  <2>1. Root \in ScopeIds /\ scopes[Root] \in Scope /\ scopes \in [ScopeIds -> Scope \cup {Gone}]
        /\ stack = <<>>
    BY <1>1, <1>6, ExistingScope DEF HostDestroy, Idle, TypeOK
  <2>2. scopes' = [scopes EXCEPT ![Root].alive = FALSE] /\ UNCHANGED services
    BY <1>6 DEF HostDestroy
  <2>3. /\ \A t \in ScopeIds \ {Root} : scopes'[t] = scopes[t]
        /\ scopes'[Root] \in Scope /\ scopes'[Root].provided = scopes[Root].provided
    BY <2>1, <2>2 DEF Scope
  <2>4. \A t \in ScopeIds : Exists(t) => Exists(t)' /\ scopes'[t].provided = scopes[t].provided
    BY <2>3, NullAssumption DEF Exists
  <2>5. Revokes(stack') = {}
    <3>1. PICK y : y = [Call("dtor", NoRec, Root) EXCEPT !.ix = Len(scopes[Root].records)]
      OBVIOUS
    <3>2. Len(scopes[Root].records) \in Nat
      BY <2>1 DEF Scope
    <3>3. y \in Frame /\ y.op = "dtor"
      <4>1. Call("dtor", NoRec, Root) \in Frame
        BY <2>1, CallType DEF Ops
      <4>. QED  BY <3>1, <3>2, <4>1 DEF Call, Frame
    <3>4. stack' = <<y>>
      BY <1>6, <3>1 DEF HostDestroy
    <3>. QED  BY <3>3, <3>4 DEF Revokes
  <2>. QED  BY <1>1, <2>2, <2>4, <2>5, OwnedKept
<1>. QED  BY <1>3, <1>4, <1>5, <1>6 DEF HostCalls

(* So does every step of a running call.                                   *)
LEMMA ThreadStepsOwned ==
  ASSUME TreeInv, TypeOK', Owned, ThreadSteps PROVE Owned'
<1>1. TypeOK /\ ListsRight
  BY DEF TreeInv
<1>2. ASSUME \/ ArmNext \/ ArmStarts \/ FireNext \/ DtorStop \/ ApplyThrows
             \/ \E p : ApplyEvict(p) \/ CallbackUnloads(p)
      PROVE  Owned'
  BY <1>1, <1>2, CallStep, OwnedCall
<1>3. ASSUME NEW p \in Plugins, ApplyLoad(p) \/ CallbackLoads(p) PROVE Owned'
  BY <1>1, <1>3, LoadStep, OwnedCall
<1>4. ASSUME ArmToken \/ ApplyReturns \/ StopRelease PROVE Owned'
  BY <1>1, <1>4, NoteStep, OwnedKept DEF Exists
<1>5. ASSUME NEW s \in Services, ApplyProvide(s) PROVE Owned'
  <2>1. Running("apply") /\ ProvideService(s, Top.scope, stack) /\ Exists(Top.scope)
    BY <1>5 DEF ApplyProvide, Applying
  <2>2. stack \in Seq(Frame) /\ Top.op = "apply" /\ Revokes(stack) \subseteq Revokes(Below)
    BY <1>1, <2>1, RunningStack, RevokesBelow
  <2>3. \A n : <<Top.scope, n>> \notin Revokes(stack)
    <3>1. WorksIn(Top, Top.scope) /\ Top.scope \in ScopeIds
      BY <2>1, <2>2 DEF WorksIn, Exists
    <3>2. \A j \in DOMAIN Below : ~TearsDown(Below[j], Top.scope)
      BY <2>1, <3>1, TopRight
    <3>3. \A n : <<Top.scope, n>> \notin Revokes(Below)
      BY <3>2 DEF Revokes, TearsDown
    <3>. QED  BY <2>2, <3>3
  <2>. QED  BY <1>1, <2>1, <2>2, <2>3, OwnedProvide
<1>6. ASSUME FireDone \/ CallbackReturns PROVE Owned'
  <2>1. UNCHANGED <<services, scopes>> /\ stack' = Below /\ \E op : Running(op)
    BY <1>6 DEF FireDone, CallbackReturns
  <2>2. Revokes(stack') \subseteq Revokes(stack)
    BY <1>1, <2>1, RevokesBelow
  <2>. QED  BY <1>1, <2>1, <2>2, OwnedKept DEF Exists
<1>7. ASSUME DtorRelease PROVE Owned'
  <2>1. Running("dtor") /\ stack' = Resume(Earlier(Top)) /\ UNCHANGED <<services, scopes>>
    BY Zenon, <1>7 DEF DtorRelease
  <2>2. Earlier(Top) \in Frame /\ Earlier(Top).op = "dtor"
    <3>1. Top \in Frame /\ Top.op = "dtor"
      BY <1>1, <2>1, RunningStack
    <3>2. Top.ix - 1 \in Nat
      <4>1. PICK list \in Seq(RecIds) : list = scopes[Top.scope].records
        BY Zenon, <1>1, <1>7, ExistingScope DEF Scope, DtorRelease
      <4>2. DOMAIN list \subseteq Nat \ {0}
        BY SMTT(40)
      <4>3. Top.ix \in DOMAIN list
        BY Zenon, <1>7, <4>1 DEF DtorRelease
      <4>. QED  BY <4>2, <4>3
    <3>. QED  BY <3>1, <3>2 DEF Earlier, Frame
  <2>3. Revokes(stack') \subseteq Revokes(stack)
    BY <1>1, <2>1, <2>2, RevokesBelow
  <2>. QED  BY SMTT(40), <1>1, <2>1, <2>3, OwnedKept DEF Exists
<1>8. ASSUME DtorClear \/ RevokeNext \/ RevokeDone PROVE Owned'
  BY <1>1, <1>8, OwnedClear, OwnedRevoke, OwnedDone
<1>9. ASSUME Erase PROVE Owned'
  <2>1. /\ Running("erase") /\ Exists(Top.scope) /\ UNCHANGED services
        /\ stack' = Invalidate(Below, Top.scope, Top.ix)
    BY <1>9 DEF Erase
  <2>2. Top.scope \in ScopeIds /\ scopes[Top.scope] \in Scope /\ scopes \in [ScopeIds -> Scope \cup {Gone}]
    BY <1>1, <2>1, ExistingScope DEF TypeOK
  <2>3. \A t \in ScopeIds : Exists(t) => Exists(t)' /\ scopes'[t].provided = scopes[t].provided
    <3>1. PICK libs, short : /\ libs = scopes[Top.scope].retired \cup Retired(Top.rec)
                             /\ short = RemoveAt(scopes[Top.scope].records, Top.ix)
      OBVIOUS
    <3>2. scopes' = [scopes EXCEPT ![Top.scope] =
                       [scopes[Top.scope] EXCEPT !.retired = libs, !.records = short]]
      BY <1>9, <2>2, <3>1 DEF Erase
    <3>3. /\ \A t \in ScopeIds \ {Top.scope} : scopes'[t] = scopes[t]
          /\ scopes'[Top.scope].provided = scopes[Top.scope].provided
      BY <2>2, <3>2 DEF Scope
    <3>4. scopes'[Top.scope] # Gone
      <4>1. scopes'[Top.scope] = [scopes[Top.scope] EXCEPT !.retired = libs, !.records = short]
        BY <2>2, <3>2
      <4>2. short \in Seq(RecIds)
        <5>1. PICK list \in Seq(RecIds) : list = scopes[Top.scope].records
          BY <2>2 DEF Scope
        <5>2. Top.ix \in 1..Len(list)
          BY <1>9, <5>1 DEF Erase
        <5>3. RemoveAt(list, Top.ix) \in Seq(RecIds)
          BY <5>2, RemovedPosition
        <5>. QED  BY <3>1, <5>1, <5>3
      <4>3. libs \in SUBSET Plugins
        <5>1. recs[Top.rec] \in LoadRecord
          BY <1>1, <1>9, LiveRecord DEF Erase
        <5>. QED  BY <2>2, <3>1, <5>1 DEF Retired, LoadRecord, Scope
      <4>4. scopes'[Top.scope] \in Scope
        BY <2>2, <4>1, <4>2, <4>3 DEF Scope
      <4>. QED  BY <4>4, NullAssumption
    <3>. QED  BY <3>3, <3>4 DEF Exists
  <2>4. Revokes(stack') \subseteq Revokes(stack)
    <3>1. Below \in Seq(Frame) /\ Revokes(Below) \subseteq Revokes(stack)
      BY <1>1, <2>1, RevokesBelow
    <3>2. Top.ix \in Nat
      <4>1. Top \in Frame
        BY <1>1, <2>1, RunningStack
      <4>. QED  BY <4>1 DEF Frame
    <3>3. Revokes(Invalidate(Below, Top.scope, Top.ix)) = Revokes(Below)
      BY <3>1, <3>2, RevokesMarked
    <3>. QED  BY <2>1, <3>1, <3>3
  <2>. QED  BY <1>1, <2>1, <2>3, <2>4, OwnedKept
<1>. QED  BY <1>2, <1>3, <1>4, <1>5, <1>6, <1>7, <1>8, <1>9 DEF ThreadSteps

(* ServicesOwned is true of every behaviour: whoever provides a service,   *)
(* and however calls nest, the scope that owns it exists and still has it  *)
(* on the list that its destructor takes back.                             *)
THEOREM OwnersOutliveServices == Spec => []ServicesOwned
<1>1. Init => Owned
  BY RegistryAssumption DEF Init, Owned
<1>2. TreeInv /\ TreeInv' /\ Owned /\ [Next]_vars => Owned'
  <2>1. SUFFICES ASSUME TreeInv, TreeInv', Owned, [Next]_vars PROVE Owned'
    OBVIOUS
  <2>2. TypeOK'
    BY <2>1 DEF TreeInv
  <2>3. CASE HostCalls
    BY <2>1, <2>2, <2>3, HostCallsOwned
  <2>4. CASE ThreadSteps
    BY <2>1, <2>2, <2>4, ThreadStepsOwned
  <2>5. CASE UNCHANGED vars
    BY <2>1, <2>5 DEF vars, Owned, Exists, Revokes
  <2>. QED  BY <2>1, <2>3, <2>4, <2>5 DEF Next, Terminated
<1>3. TreeInv /\ Owned => ServicesOwned
  BY OwnedSame DEF TreeInv
<1>. QED  BY <1>1, <1>2, <1>3, TreeCorrect, PTL DEF Spec

-----------------------------------------------------------------------------
(* What a step does to an id that is provided.                             *)
Serves ==
  \A s \in Services :
    services[s] # NoScope /\ services'[s] # services[s] =>
      services'[s] = NoScope /\ ~scopes[services[s]].alive

(* Loading and unloading do not touch m_services: only the watchers they   *)
(* run do.                                                                 *)
LEMMA TreeKeepsServices ==
  ASSUME NEW rest, \/ \E sc, p : AddRecord(sc, p, rest)
                   \/ \E sc, p : Unload(sc, p, rest)
  PROVE  UNCHANGED services
BY DEF AddRecord, Unload

(* provide() takes nothing away.                                           *)
LEMMA ProvideServes ==
  ASSUME TypeOK, NEW s \in Services, NEW sc, NEW rest, ProvideService(s, sc, rest)
  PROVE  Serves
BY DEF TypeOK, ProvideService, ProvideEntry, Appears, Serves

(* A revoke of ~Context phase 4 takes only what its scope owns, and that   *)
(* scope is dying: a suspended "revoke" says so (TeardownRight).           *)
LEMMA RevokeServes ==
  ASSUME TreeInv, RevokeNext
  PROVE  Serves
<1>1. TypeOK /\ ListsRight /\ Running("revoke") /\ Exists(Top.scope)
  BY DEF TreeInv, RevokeNext
<1>2. Top \in Suspended /\ Top.op = "revoke"
  BY <1>1, TopRight
<1>3. ~scopes[Top.scope].alive
  BY <1>1, <1>2 DEF Suspended, RightFrames, TeardownRight
<1>4. PICK s : RevokeEntry(s, Top.scope)
  BY DEF RevokeNext
<1>5. services \in [Services -> ScopeIds \cup {NoScope}]
  BY <1>1 DEF TypeOK
<1>. QED  BY <1>3, <1>4, <1>5 DEF RevokeEntry, Disappears, Serves

(* No other step writes m_services.                                        *)
LEMMA StepServes == TreeInv /\ [Next]_vars => Serves
<1>0. SUFFICES ASSUME TreeInv, [Next]_vars PROVE Serves
  OBVIOUS
<1>1. TypeOK /\ (UNCHANGED services => Serves)
  BY <1>0 DEF TreeInv, Serves
<1>2. ASSUME NEW s \in Services, HostProvide(s) PROVE Serves
  BY <1>1, <1>2, ProvideServes DEF HostProvide
<1>3. ASSUME NEW s \in Services, ApplyProvide(s) PROVE Serves
  BY <1>1, <1>3, ProvideServes DEF ApplyProvide
<1>4. CASE HostCalls
  BY SMTT(40), <1>1, <1>2, <1>4, TreeKeepsServices DEF HostCalls, HostLoad, HostUnload, HostDestroy
<1>5. CASE ThreadSteps
  BY Zenon, <1>0, <1>1, <1>3, <1>5, RevokeServes, TreeKeepsServices
     DEF ThreadSteps, ArmNext, ArmToken, ArmStarts, ApplyLoad, ApplyEvict,
         ApplyReturns, ApplyThrows, StopRelease, DtorStop, DtorRelease, DtorClear,
         RevokeDone, Erase, FireNext, FireDone, CallbackLoads, CallbackUnloads,
         CallbackReturns
<1>. QED  BY <1>0, <1>1, <1>4, <1>5 DEF Next, Terminated, vars

(* First owner wins, and nothing but its death ends it: however starts,    *)
(* stops, restarts and teardown nest, no step takes an id from a scope     *)
(* that is alive, and none hands it to another without taking it back      *)
(* first.                                                                  *)
THEOREM OwnersServeForLife == Spec => ServesWhileAlive
<1>1. TreeInv /\ [Next]_vars =>
        [\A s \in Services :
           services[s] # NoScope /\ services'[s] # services[s] =>
             services'[s] = NoScope /\ ~scopes[services[s]].alive]_vars
  BY StepServes DEF Serves
<1>. QED  BY <1>1, TreeCorrect, PTL DEF Spec, ServesWhileAlive

-----------------------------------------------------------------------------
(* unload() erases the record it found: until the erase the record waits,  *)
(* stopped for good, and the place remembered is the record's, unless the  *)
(* list has changed there.                                                 *)
THEOREM UnloadErasesItsOwn == Spec => []ErasesItsOwn
<1>1. TreeInv => ErasesItsOwn
  <2>1. SUFFICES ASSUME TreeInv, NEW i \in DOMAIN stack, stack[i].op = "erase", Live(stack[i].rec)
                 PROVE  LET f == stack[i] IN
                        /\ recs[f.rec].state \in {"Disposed"} \cup (IF i = 1 THEN {"Deferred"} ELSE {})
                        /\ Exists(f.scope) /\ ~f.val =>
                             /\ f.ix \in DOMAIN scopes[f.scope].records
                             /\ scopes[f.scope].records[f.ix] = f.rec
    BY DEF ErasesItsOwn
  <2>2. stack \in Seq(Frame) /\ stack # <<>>
    BY <2>1 DEF TreeInv, TypeOK
  <2>3. i = 1 \/ (i # 1 /\ i - 1 \in DOMAIN Tail(stack) /\ Tail(stack)[i - 1] = stack[i])
    BY <2>1, <2>2
  <2>4. Head(stack) = stack[1] /\ Head(stack) \in RightFrames /\ Tail(stack) \in Seq(Suspended)
    BY <2>1, <2>2 DEF TreeInv, StackRight
  <2>5. stack[i] \in RightFrames /\ (i # 1 => stack[i] \in Suspended)
    BY <2>3, <2>4 DEF Suspended
  <2>6. recs[stack[i].rec].state \in {"Disposed"} \cup (IF i = 1 THEN {"Deferred"} ELSE {})
    BY <2>1, <2>5 DEF Suspended, RightFrames, EraseRight, Quiet
  <2>. QED  BY <2>1, <2>5, <2>6 DEF RightFrames, EraseRight
<1>. QED  BY <1>1, TreeCorrect, PTL

-----------------------------------------------------------------------------
(* Code of dynamic plugins.                                                *)
CodeKept(sc) == Mapped(sc) \subseteq Mapped(sc)'

(* A library is kept by its record or goes to the retired ones of the      *)
(* record's host.                                                          *)
LEMMA MappedBy ==
  ASSUME NEW sc, scopes[sc].retired \subseteq scopes'[sc].retired,
         \A r \in RecIds : Live(r) /\ recs[r].host = sc /\ recs[r].lib =>
           \/ Live(r)' /\ recs'[r].host = sc /\ recs'[r].lib /\ recs'[r].plugin = recs[r].plugin
           \/ recs[r].plugin \in scopes'[sc].retired
  PROVE  CodeKept(sc)
<1>1. ASSUME NEW r \in RecIds, Live(r), recs[r].host = sc, recs[r].lib
      PROVE  recs[r].plugin \in Mapped(sc)'
  <2>1. CASE Live(r)' /\ recs'[r].host = sc /\ recs'[r].lib /\ recs'[r].plugin = recs[r].plugin
    BY <2>1 DEF Mapped, Records
  <2>2. CASE recs[r].plugin \in scopes'[sc].retired
    BY <2>2 DEF Mapped
  <2>. QED  BY <1>1, <2>1, <2>2
<1>2. scopes[sc].retired \subseteq Mapped(sc)'
  BY DEF Mapped
<1>. QED  BY <1>1, <1>2 DEF CodeKept, Mapped, Records, Live

(* A call that keeps every record keeps what they have mapped.             *)
LEMMA CallMapped ==
  ASSUME NEW rest, CallKeeps(rest), NEW sc \in ScopeIds, Exists(sc)
  PROVE  CodeKept(sc)
BY MappedBy DEF CallKeeps

(* The host's calls unmap nothing.                                         *)
LEMMA HostCallsMapped ==
  ASSUME TreeInv, TypeOK', HostCalls, NEW sc \in ScopeIds, Exists(sc)
  PROVE  CodeKept(sc)
<1>1. TypeOK /\ ListsRight /\ <<>> \in Seq(Frame)
  BY DEF TreeInv
<1>2. ASSUME NEW p \in Plugins, HostLoad(p) PROVE CodeKept(sc)
  BY <1>1, <1>2, LoadStep, CallMapped
<1>3. ASSUME NEW p, HostUnload(p) PROVE CodeKept(sc)
  BY <1>1, <1>3, CallStep, CallMapped
<1>4. ASSUME NEW s \in Services, HostProvide(s) PROVE CodeKept(sc)
  <2>1. UNCHANGED recs /\ scopes'[sc].retired = scopes[sc].retired
    BY <1>1, <1>4, ProvideKeeps DEF HostProvide, Idle
  <2>. QED  BY <2>1, MappedBy DEF Live
<1>5. ASSUME HostDestroy PROVE CodeKept(sc)
  <2>1. Root \in ScopeIds /\ scopes[Root] \in Scope /\ scopes \in [ScopeIds -> Scope \cup {Gone}]
    BY <1>1, <1>5, ExistingScope DEF HostDestroy, Idle, TypeOK
  <2>2. UNCHANGED recs /\ scopes'[sc].retired = scopes[sc].retired
    BY <1>5, <2>1 DEF HostDestroy, Scope
  <2>. QED  BY <2>2, MappedBy DEF Live
<1>. QED  BY <1>2, <1>3, <1>4, <1>5 DEF HostCalls

(* Only ~Context unmaps a library, in a scope that is not alive any more.  *)
LEMMA DestroyMapped ==
  ASSUME TreeInv, DtorRelease \/ DtorClear \/ RevokeNext \/ RevokeDone,
         NEW sc \in ScopeIds, Exists(sc), scopes[sc].alive
  PROVE  CodeKept(sc)
<1>1. TypeOK /\ ListsRight /\ scopes \in [ScopeIds -> Scope \cup {Gone}]
      /\ recs \in [RecIds -> LoadRecord \cup {NoRec}]
  BY SMTT(40) DEF TreeInv, TypeOK
<1>2. Exists(Top.scope) /\ Top \in RightFrames /\ Top.op \in {"dtor", "revoke"}
  BY Zenon, TopRight DEF DtorRelease, DtorClear, RevokeNext, RevokeDone
<1>3. sc # Top.scope /\ ListRight(Top.scope)
  BY <1>1, <1>2 DEF RightFrames, TeardownRight, ListsRight, Exists
<1>4. CASE DtorRelease
  <2>1. PICK r : r = scopes[Top.scope].records[Top.ix]
    BY SMTT(40)
  <2>2. recs[r].host = Top.scope /\ UNCHANGED scopes
    BY ZenonT(60), <1>3, <1>4, <2>1 DEF ListRight, DtorRelease
  <2>3. \A q \in RecIds : q # r => recs'[q] = recs[q]
    BY Zenon, <1>1, <1>4, <2>1 DEF DtorRelease
  <2>4. \A q \in RecIds : recs[q].host = sc => recs'[q] = recs[q]
    BY <1>3, <2>2, <2>3
  <2>. QED  BY <2>2, <2>4, MappedBy DEF Live
<1>5. CASE DtorClear
  <2>1. \A q \in RecIds : q \notin ToSet(scopes[Top.scope].records) => recs'[q] = recs[q]
    BY <1>5 DEF DtorClear
  <2>2. \A q \in ToSet(scopes[Top.scope].records) : recs[q].host = Top.scope
    BY <1>3 DEF ListRight, ToSet
  <2>3. scopes'[sc] = scopes[sc]
    BY <1>1, <1>3, <1>5 DEF DtorClear
  <2>4. \A q \in RecIds : recs[q].host = sc => recs'[q] = recs[q]
    BY <1>3, <2>1, <2>2
  <2>. QED  BY <2>3, <2>4, MappedBy DEF Live
<1>6. CASE RevokeNext \/ RevokeDone
  <2>1. UNCHANGED recs /\ scopes'[sc] = scopes[sc]
    BY Zenon, <1>1, <1>3, <1>6 DEF RevokeNext, RevokeDone
  <2>. QED  BY SMTT(40), <2>1, MappedBy DEF Live
<1>. QED  BY <1>4, <1>5, <1>6

(* unload() retires what it does not keep.                                 *)
LEMMA EraseMapped ==
  ASSUME TreeInv, Erase, NEW sc \in ScopeIds, Exists(sc)
  PROVE  CodeKept(sc)
<1>1. /\ TypeOK /\ scopes \in [ScopeIds -> Scope \cup {Gone}]
      /\ recs \in [RecIds -> LoadRecord \cup {NoRec}]
      /\ Running("erase") /\ Live(Top.rec) /\ Exists(Top.scope)
  BY DEF TreeInv, TypeOK, Erase
<1>2. Top \in RightFrames /\ Top.op = "erase"
  BY <1>1, TopRight
<1>3. PICK r, t : r = Top.rec /\ t = Top.scope
  OBVIOUS
<1>4. recs[r].host = t /\ r \in RecIds /\ t \in ScopeIds /\ scopes[t] \in Scope
  BY <1>1, <1>2, <1>3, ExistingScope DEF RightFrames, PointersRight, Live
<1>5. \A q \in RecIds \ {r} : recs'[q] = recs[q]
  BY <1>1, <1>3 DEF Erase
<1>6. /\ \A s \in ScopeIds \ {t} : scopes'[s] = scopes[s]
      /\ scopes'[t].retired = scopes[t].retired \cup Retired(r)
  <2>1. PICK libs, short : /\ libs = scopes[t].retired \cup Retired(r)
                           /\ short = RemoveAt(scopes[t].records, Top.ix)
    OBVIOUS
  <2>2. scopes' = [scopes EXCEPT ![t] = [scopes[t] EXCEPT !.retired = libs, !.records = short]]
    BY <1>1, <1>3, <1>4, <2>1 DEF Erase
  <2>. QED  BY <1>1, <1>4, <2>1, <2>2 DEF Scope
<1>7. CASE sc = t
  <2>1. recs[r].lib => recs[r].plugin \in scopes'[sc].retired
    BY <1>6, <1>7 DEF Retired
  <2>2. scopes[sc].retired \subseteq scopes'[sc].retired
    BY <1>6, <1>7
  <2>. QED  BY <1>5, <2>1, <2>2, MappedBy DEF Live
<1>8. CASE sc # t
  <2>1. scopes'[sc] = scopes[sc]
    BY <1>6, <1>8
  <2>2. \A q \in RecIds : recs[q].host = sc => recs'[q] = recs[q]
    BY <1>4, <1>5, <1>8
  <2>. QED  BY <2>1, <2>2, MappedBy DEF Live
<1>. QED  BY <1>7, <1>8

(* Nor does a step of a running call, in a scope that is alive.            *)
LEMMA ThreadStepsMapped ==
  ASSUME TreeInv, TypeOK', ThreadSteps, NEW sc \in ScopeIds, Exists(sc), scopes[sc].alive
  PROVE  CodeKept(sc)
<1>1. TypeOK /\ ListsRight
  BY DEF TreeInv
<1>2. ASSUME \/ ArmNext \/ ArmStarts \/ FireNext \/ DtorStop \/ ApplyThrows
             \/ \E p : ApplyEvict(p) \/ CallbackUnloads(p)
      PROVE  CodeKept(sc)
  BY <1>1, <1>2, CallStep, CallMapped
<1>3. ASSUME NEW p \in Plugins, ApplyLoad(p) \/ CallbackLoads(p) PROVE CodeKept(sc)
  BY <1>1, <1>3, LoadStep, CallMapped
<1>4. ASSUME ArmToken \/ ApplyReturns \/ StopRelease PROVE CodeKept(sc)
  BY <1>1, <1>4, NoteStep, MappedBy
<1>5. ASSUME NEW s \in Services, ApplyProvide(s) PROVE CodeKept(sc)
  <2>1. ProvideService(s, Top.scope, stack) /\ Exists(Top.scope) /\ stack \in Seq(Frame)
    BY <1>1, <1>5 DEF ApplyProvide, Applying, TypeOK
  <2>2. UNCHANGED recs /\ scopes'[sc].retired = scopes[sc].retired
    BY <1>1, <2>1, ProvideKeeps
  <2>. QED  BY <2>2, MappedBy DEF Live
<1>6. ASSUME FireDone \/ CallbackReturns PROVE CodeKept(sc)
  <2>1. UNCHANGED <<recs, scopes>>
    BY <1>6 DEF FireDone, CallbackReturns
  <2>. QED  BY <2>1, MappedBy DEF Live
<1>7. ASSUME DtorRelease \/ DtorClear \/ RevokeNext \/ RevokeDone PROVE CodeKept(sc)
  BY <1>7, DestroyMapped
<1>8. ASSUME Erase PROVE CodeKept(sc)
  BY <1>8, EraseMapped
<1>. QED  BY <1>2, <1>3, <1>4, <1>5, <1>6, <1>7, <1>8 DEF ThreadSteps

(* CodeStaysMapped: the code of a dynamic plugin, once mapped for a scope, *)
(* stays mapped until that scope is torn down, whatever is stopped,        *)
(* restarted, unloaded or loaded again meanwhile.                          *)
THEOREM CodeOutlivesPlugins == Spec => CodeStaysMapped
<1>1. TreeInv /\ TreeInv' /\ [Next]_vars =>
        [\A sc \in ScopeIds : Exists(sc) /\ scopes[sc].alive => Mapped(sc) \subseteq Mapped(sc)']_vars
  <2>1. SUFFICES ASSUME TreeInv, TreeInv', Next, NEW sc \in ScopeIds, Exists(sc), scopes[sc].alive
                 PROVE  CodeKept(sc)
    BY DEF CodeKept
  <2>2. TypeOK'
    BY <2>1 DEF TreeInv
  <2>3. CASE HostCalls
    BY <2>1, <2>2, <2>3, HostCallsMapped
  <2>4. CASE ThreadSteps
    BY <2>1, <2>2, <2>4, ThreadStepsMapped
  <2>5. CASE Terminated
    <3>1. UNCHANGED <<recs, scopes>>
      BY <2>5 DEF Terminated, vars
    <3>. QED  BY <3>1, MappedBy DEF Live
  <2>. QED  BY <2>1, <2>3, <2>4, <2>5 DEF Next
<1>. QED  BY <1>1, TreeCorrect, PTL DEF Spec, CodeStaysMapped

-----------------------------------------------------------------------------
(* The records of the root scope.                                          *)
RootList == IF Exists(Root) THEN scopes[Root].records ELSE <<>>

View(r) == [name |-> recs[r].plugin, state |-> recs[r].state]

Views == [name : Plugins, state : States]

(* The list is one of live records of the root, none of them twice.        *)
LEMMA RootListed ==
  ASSUME TreeInv
  PROVE  /\ RootList \in Seq(RecIds) /\ IsInjective(RootList)
         /\ \A k \in DOMAIN RootList : Live(RootList[k]) /\ recs[RootList[k]].host = Root
<1>1. TypeOK /\ ListsRight
  BY DEF TreeInv
<1>2. CASE Exists(Root)
  <2>1. Root \in ScopeIds /\ scopes[Root] \in Scope
    BY <1>1, <1>2, ExistingScope
  <2>. QED  BY <1>1, <1>2, <2>1 DEF RootList, Scope, ListsRight, ListRight
<1>3. CASE ~Exists(Root)
  BY <1>3 DEF RootList, IsInjective
<1>. QED  BY <1>2, <1>3

Viewed ==
  /\ RootRecords \in Seq(Views) /\ DOMAIN RootRecords = DOMAIN RootList
  /\ Len(RootRecords) = Len(RootList)
  /\ \A k \in DOMAIN RootList : RootRecords[k] = View(RootList[k])

(* What PluginRecords sees is the list, record by record.                  *)
LEMMA RootViews ==
  TreeInv => Viewed
<1>. SUFFICES ASSUME TreeInv PROVE Viewed
  OBVIOUS
<1>1. PICK list : list = RootList
  OBVIOUS
<1>2. list \in Seq(RecIds) /\ \A k \in DOMAIN list : Live(list[k])
  BY <1>1, RootListed
<1>3. DOMAIN list = 1..Len(list) /\ Len(list) \in Nat
  BY <1>2
<1>4. RootRecords = [k \in 1..Len(list) |-> View(list[k])]
  <2>1. CASE Exists(Root)
    BY <1>1, <1>3, <2>1 DEF RootRecords, RootList, View
  <2>2. CASE ~Exists(Root)
    <3>1. list = <<>> /\ RootRecords = <<>>
      BY <1>1, <2>2 DEF RootRecords, RootList
    <3>2. 1..Len(list) = {}
      BY <3>1
    <3>. QED  BY <3>1, <3>2
  <2>. QED  BY <2>1, <2>2
<1>5. \A k \in 1..Len(list) : View(list[k]) \in Views
  <2>1. TypeOK
    BY DEF TreeInv
  <2>2. \A k \in 1..Len(list) : recs[list[k]] \in LoadRecord
    BY <1>2, <1>3, <2>1, LiveRecord
  <2>. QED  BY <2>2 DEF View, Views, LoadRecord
<1>6. RootRecords \in Seq(Views) /\ Len(RootRecords) = Len(list) /\ DOMAIN RootRecords = 1..Len(list)
  BY <1>3, <1>4, <1>5
<1>7. \A k \in 1..Len(list) : RootRecords[k] = View(list[k])
  BY <1>4
<1>. QED  BY <1>1, <1>3, <1>6, <1>7 DEF Viewed

(* The same after a step.                                                  *)
LEMMA RootViewsNext ==
  TreeInv' => Viewed'
BY RootViews, PTL

(* What does not touch the list, nor the name and the state of a record in *)
(* it, is not a step of the abstract specification.                        *)
LEMMA RootSame ==
  ASSUME TreeInv, TreeInv', RootList' = RootList,
         \A k \in DOMAIN RootList :
           /\ recs'[RootList[k]].plugin = recs[RootList[k]].plugin
           /\ recs'[RootList[k]].state = recs[RootList[k]].state
  PROVE  UNCHANGED RootRecords
<1>1. PICK list : list = RootList
  OBVIOUS
<1>2. /\ RootRecords \in Seq(Views) /\ Len(RootRecords) = Len(list) /\ DOMAIN RootRecords = DOMAIN list
      /\ \A k \in DOMAIN list : RootRecords[k] = [name |-> recs[list[k]].plugin, state |-> recs[list[k]].state]
  BY <1>1, RootViews DEF View, Viewed
<1>3. PICK p : p = RootRecords'
  OBVIOUS
<1>4. /\ p \in Seq(Views) /\ Len(p) = Len(list) /\ DOMAIN p = DOMAIN list
      /\ \A k \in DOMAIN list : p[k] = [name |-> recs'[list[k]].plugin, state |-> recs'[list[k]].state]
  <2>1. list = RootList'
    BY <1>1
  <2>. QED  BY <1>3, <2>1, RootViewsNext DEF View, Viewed
<1>5. \A k \in DOMAIN list : p[k] = RootRecords[k]
  BY <1>1, <1>2, <1>4
<1>6. p = RootRecords
  BY <1>2, <1>4, <1>5
<1>. QED  BY <1>3, <1>6

(* A record of the root scope that starts or stops makes a Turn.           *)
LEMMA RootTurn ==
  ASSUME TreeInv, TreeInv', RecordTurns
  PROVE  [Promise!Next]_RootRecords
<1>1. PICK list : list = RootList
  OBVIOUS
<1>2. /\ list \in Seq(RecIds) /\ IsInjective(list)
      /\ \A k \in DOMAIN list : list[k] \in RecIds /\ Live(list[k])
  BY <1>1, RootListed DEF Live
<1>3. RootList' = list
  <2>1. Root \in ScopeIds
    BY ContextAssumption
  <2>. QED  BY <1>1, <2>1 DEF RootList, RecordTurns
<1>4. PICK r : \A q \in RecIds : Live(q) =>
        \/ recs'[q].state = recs[q].state
        \/ q = r /\ <<recs[q].state, recs'[q].state>> \in Promise!Legal
  BY DEF RecordTurns
<1>5. \A q \in RecIds : Live(q) => recs'[q].plugin = recs[q].plugin
  BY DEF RecordTurns
<1>6. CASE \A k \in DOMAIN list : recs'[list[k]].state = recs[list[k]].state
  BY <1>1, <1>2, <1>3, <1>5, <1>6, RootSame
<1>7. CASE \E k \in DOMAIN list : recs'[list[k]].state # recs[list[k]].state
  <2>1. PICK k \in DOMAIN list : recs'[list[k]].state # recs[list[k]].state
    BY <1>7
  <2>2. PICK st : st = recs'[r].state
    OBVIOUS
  <2>3. list[k] = r /\ <<recs[r].state, st>> \in Promise!Legal
    BY <1>2, <1>4, <2>1, <2>2
  <2>4. \A i \in DOMAIN list : i # k => recs'[list[i]].state = recs[list[i]].state
    BY <1>2, <1>4, <2>3 DEF IsInjective
  <2>5. PICK p : p = RootRecords
    OBVIOUS
  <2>6. /\ p \in Seq(Views) /\ DOMAIN p = DOMAIN list
        /\ \A i \in DOMAIN list : p[i] = [name |-> recs[list[i]].plugin, state |-> recs[list[i]].state]
    BY <1>1, <2>5, RootViews DEF View, Viewed
  <2>7. PICK q : q = RootRecords'
    OBVIOUS
  <2>8. /\ q \in Seq(Views) /\ DOMAIN q = DOMAIN list /\ Len(q) = Len(list)
        /\ \A i \in DOMAIN list : q[i] = [name |-> recs'[list[i]].plugin, state |-> recs'[list[i]].state]
    <3>1. list = RootList'
      BY <1>3
    <3>. QED  BY <2>7, <3>1, RootViewsNext DEF View, Viewed
  <2>9. \A i \in DOMAIN list : q[i] = IF i = k THEN [p[i] EXCEPT !.state = st] ELSE p[i]
    BY SMTT(40), <1>2, <1>5, <2>2, <2>3, <2>4, <2>6, <2>8
  <2>10. q = [p EXCEPT ![k].state = st]
    <3>1. \A i \in DOMAIN list : q[i] = [p EXCEPT ![k].state = st][i]
      BY <2>6, <2>9
    <3>. QED  BY <2>6, <2>8, <3>1
  <2>11. p[k].state = recs[r].state
    BY <2>3, <2>6
  <2>12. st \in {"Deferred", "Active", "Failed", "Disposed"}
    BY <2>3 DEF Promise!Legal
  <2>13. Promise!Turn(k, st)
    BY <2>3, <2>5, <2>7, <2>10, <2>11 DEF Promise!Turn
  <2>14. k \in DOMAIN RootRecords
    BY <2>5, <2>6
  <2>. QED  BY <2>12, <2>13, <2>14 DEF Promise!Next
<1>. QED  BY <1>6, <1>7

(* A record that is added there is a Load.                                 *)
LEMMA RootLoad ==
  ASSUME TreeInv, TreeInv', NEW sc, Exists(sc), NEW n \in Plugins, RecordAdded(sc, n)
  PROVE  [Promise!Next]_RootRecords
<1>1. PICK list : list = RootList
  OBVIOUS
<1>2. /\ list \in Seq(RecIds) /\ DOMAIN list = 1..Len(list) /\ Len(list) \in Nat
      /\ \A k \in DOMAIN list : list[k] \in RecIds /\ Live(list[k])
  BY <1>1, RootListed DEF Live
<1>3. PICK r \in RecIds :
        /\ scopes'[sc].records = Append(scopes[sc].records, r)
        /\ ~Live(r) /\ recs'[r].plugin = n /\ recs'[r].state = "Deferred"
        /\ \A q \in RecIds \ {r} : recs'[q] = recs[q]
  BY DEF RecordAdded
<1>4. \A k \in DOMAIN list : recs'[list[k]] = recs[list[k]]
  BY <1>2, <1>3
<1>5. CASE sc # Root
  <2>1. RootList' = list
    BY <1>1, <1>5, ContextAssumption DEF RootList, RecordAdded
  <2>. QED  BY <1>1, <1>4, <2>1, RootSame
<1>6. CASE sc = Root
  <2>1. RootList' = Append(list, r)
    BY <1>1, <1>3, <1>6, ContextAssumption DEF RootList, RecordAdded
  <2>2. PICK p : p = RootRecords
    OBVIOUS
  <2>3. /\ p \in Seq(Views) /\ DOMAIN p = DOMAIN list /\ Len(p) = Len(list)
        /\ \A i \in DOMAIN list : p[i] = [name |-> recs[list[i]].plugin, state |-> recs[list[i]].state]
    BY <1>1, <2>2, RootViews DEF View, Viewed
  <2>4. PICK q, longer : q = RootRecords' /\ longer = Append(list, r)
    OBVIOUS
  <2>5. /\ q \in Seq(Views) /\ DOMAIN q = DOMAIN longer /\ Len(q) = Len(longer)
        /\ \A i \in DOMAIN longer : q[i] = [name |-> recs'[longer[i]].plugin, state |-> recs'[longer[i]].state]
    <3>1. longer = RootList'
      BY <2>1, <2>4
    <3>. QED  BY <2>4, <3>1, RootViewsNext DEF View, Viewed
  <2>6. /\ DOMAIN longer = 1..(Len(list) + 1) /\ Len(longer) = Len(list) + 1
        /\ \A i \in 1..Len(list) : longer[i] = list[i]
        /\ longer[Len(list) + 1] = r
    BY <1>2, <2>4
  <2>7. PICK rec : rec = [name |-> n, state |-> "Deferred"]
    OBVIOUS
  <2>8. rec \in Views
    BY <2>7 DEF Views, States
  <2>9. /\ \A i \in 1..Len(list) : q[i] = p[i]
        /\ q[Len(list) + 1] = rec
    <3>1. \A i \in 1..Len(list) : q[i] = p[i]
      BY <1>2, <1>4, <2>3, <2>5, <2>6
    <3>2. q[Len(list) + 1] = rec
      BY <1>2, <1>3, <2>5, <2>6, <2>7
    <3>. QED  BY <3>1, <3>2
  <2>10. q = Append(p, rec)
    <3>1. /\ Append(p, rec) \in Seq(Views) /\ Len(Append(p, rec)) = Len(list) + 1
          /\ \A i \in 1..Len(list) : Append(p, rec)[i] = p[i]
          /\ Append(p, rec)[Len(list) + 1] = rec
      BY <1>2, <2>3, <2>8
    <3>2. \A i \in 1..(Len(list) + 1) : q[i] = Append(p, rec)[i]
      BY <1>2, <2>9, <3>1
    <3>. QED  BY <2>5, <2>6, <3>1, <3>2
  <2>11. Promise!Load(n)
    BY <2>2, <2>4, <2>7, <2>10 DEF Promise!Load
  <2>. QED  BY <2>11 DEF Promise!Next
<1>. QED  BY <1>5, <1>6

(* What unload() erases there is forgotten, and it has stopped.            *)
LEMMA RootErase ==
  ASSUME TreeInv, TreeInv', Erase
  PROVE  [Promise!Next]_RootRecords
<1>1. /\ TypeOK /\ scopes \in [ScopeIds -> Scope \cup {Gone}]
      /\ recs \in [RecIds -> LoadRecord \cup {NoRec}]
      /\ Running("erase") /\ Live(Top.rec) /\ Exists(Top.scope) /\ ~Top.val
      /\ Top.ix \in DOMAIN scopes[Top.scope].records
  BY DEF TreeInv, TypeOK, Erase
<1>2. Top \in RightFrames /\ Top.op = "erase"
  BY <1>1, TopRight
<1>3. PICK r, sc, n : r = Top.rec /\ sc = Top.scope /\ n = Top.ix
  OBVIOUS
<1>4. /\ recs[r].host = sc /\ r \in RecIds /\ sc \in ScopeIds /\ scopes[sc] \in Scope
      /\ scopes[sc].records[n] = r /\ Quiet(r) /\ n \in DOMAIN scopes[sc].records
  BY <1>1, <1>2, <1>3, ExistingScope DEF RightFrames, PointersRight, EraseRight, Live
<1>5. \A q \in RecIds \ {r} : recs'[q] = recs[q]
  BY <1>1, <1>3 DEF Erase
<1>6. /\ \A s \in ScopeIds \ {sc} : scopes'[s] = scopes[s]
      /\ scopes'[sc].records = RemoveAt(scopes[sc].records, n) /\ scopes'[sc] # Gone
  <2>1. PICK libs, short : /\ libs = scopes[sc].retired \cup Retired(r)
                           /\ short = RemoveAt(scopes[sc].records, n)
    OBVIOUS
  <2>2. scopes' = [scopes EXCEPT ![sc] = [scopes[sc] EXCEPT !.retired = libs, !.records = short]]
    BY <1>1, <1>3, <1>4, <2>1 DEF Erase
  <2>3. short \in Seq(RecIds)
    <3>1. PICK list \in Seq(RecIds) : list = scopes[sc].records
      BY <1>4 DEF Scope
    <3>2. n \in 1..Len(list)
      BY <1>4, <3>1
    <3>3. RemoveAt(list, n) \in Seq(RecIds)
      BY <3>2, RemovedPosition
    <3>. QED  BY <2>1, <3>1, <3>3
  <2>4. libs \in SUBSET Plugins
    <3>1. recs[r] \in LoadRecord
      BY <1>1, <1>3, LiveRecord
    <3>. QED  BY <1>4, <2>1, <3>1 DEF Retired, LoadRecord, Scope
  <2>5. scopes'[sc] = [scopes[sc] EXCEPT !.retired = libs, !.records = short]
    BY <1>1, <1>4, <2>2
  <2>6. scopes'[sc] \in Scope /\ scopes'[sc].records = short
    BY <1>4, <2>3, <2>4, <2>5 DEF Scope
  <2>. QED  BY <1>1, <1>4, <2>1, <2>2, <2>6, NullAssumption
<1>7. PICK list : list = RootList
  OBVIOUS
<1>8. /\ list \in Seq(RecIds) /\ IsInjective(list) /\ DOMAIN list = 1..Len(list) /\ Len(list) \in Nat
      /\ \A k \in DOMAIN list : list[k] \in RecIds /\ recs[list[k]].host = Root
  BY <1>7, RootListed DEF Live
<1>9. CASE sc # Root
  <2>1. RootList' = list
    BY <1>6, <1>7, <1>9, ContextAssumption DEF RootList, Exists
  <2>2. \A k \in DOMAIN list : recs'[list[k]] = recs[list[k]]
    BY <1>4, <1>5, <1>8, <1>9
  <2>. QED  BY <1>7, <2>1, <2>2, RootSame
<1>10. CASE sc = Root
  <2>1. /\ list = scopes[Root].records /\ n \in 1..Len(list) /\ list[n] = r
    BY <1>1, <1>3, <1>4, <1>7, <1>8, <1>10 DEF RootList
  <2>2. PICK short : short = RemoveAt(list, n)
    OBVIOUS
  <2>3. RootList' = short
    BY <1>4, <1>6, <1>10, <2>1, <2>2 DEF RootList, Exists
  <2>4. /\ short \in Seq(RecIds) /\ Len(short) = Len(list) - 1
        /\ \A i \in 1..(Len(list) - 1) : short[i] = IF i < n THEN list[i] ELSE list[i + 1]
    BY <1>8, <2>1, <2>2, RemovedPosition
  <2>5. PICK p, q : p = RootRecords /\ q = RootRecords'
    OBVIOUS
  <2>6. /\ p \in Seq(Views) /\ DOMAIN p = DOMAIN list /\ Len(p) = Len(list)
        /\ \A i \in DOMAIN list : p[i] = [name |-> recs[list[i]].plugin, state |-> recs[list[i]].state]
    BY <1>7, <2>5, RootViews DEF View, Viewed
  <2>7. /\ q \in Seq(Views) /\ DOMAIN q = DOMAIN short /\ Len(q) = Len(short)
        /\ \A i \in DOMAIN short : q[i] = [name |-> recs'[short[i]].plugin, state |-> recs'[short[i]].state]
    <3>1. short = RootList'
      BY SMTT(40), <2>3
    <3>. QED  BY <2>5, <3>1, RootViewsNext DEF View, Viewed
  <2>8. /\ RemoveAt(p, n) \in Seq(Views) /\ Len(RemoveAt(p, n)) = Len(p) - 1
        /\ \A i \in 1..(Len(p) - 1) : RemoveAt(p, n)[i] = IF i < n THEN p[i] ELSE p[i + 1]
    <3>1. n \in 1..Len(p)
      BY <2>1, <2>6
    <3>. QED  BY Zenon, <2>6, <3>1, RemovedPosition
  <2>9. \A i \in DOMAIN list : i # n => recs'[list[i]] = recs[list[i]]
    BY <1>5, <1>8, <2>1 DEF IsInjective
  <2>10. \A i \in 1..(Len(list) - 1) : q[i] = RemoveAt(p, n)[i]
    <3>1. SUFFICES ASSUME NEW i \in 1..(Len(list) - 1) PROVE q[i] = RemoveAt(p, n)[i]
      OBVIOUS
    <3>2. i \in DOMAIN short /\ i \in DOMAIN list /\ i + 1 \in DOMAIN list
      BY <1>8, <2>4
    <3>3. CASE i < n
      <4>1. short[i] = list[i] /\ i # n /\ RemoveAt(p, n)[i] = p[i]
        BY <2>1, <2>4, <2>6, <2>8, <3>3
      <4>. QED  BY <2>6, <2>7, <2>9, <3>2, <4>1
    <3>4. CASE ~(i < n)
      <4>1. short[i] = list[i + 1] /\ i + 1 # n /\ RemoveAt(p, n)[i] = p[i + 1]
        BY <2>1, <2>4, <2>6, <2>8, <3>4
      <4>. QED  BY <2>6, <2>7, <2>9, <3>2, <4>1
    <3>. QED  BY <3>3, <3>4
  <2>11. q = RemoveAt(p, n)
    <3>1. PICK t : t = RemoveAt(p, n)
      OBVIOUS
    <3>2. t \in Seq(Views) /\ Len(t) = Len(q) /\ Len(q) = Len(list) - 1
      BY <2>4, <2>6, <2>7, <2>8, <3>1
    <3>3. \A i \in 1..Len(q) : q[i] = t[i]
      BY <2>10, <3>1, <3>2
    <3>4. q = t
      BY <2>7, <3>2, <3>3
    <3>. QED  BY <3>1, <3>4
  <2>12. n \in DOMAIN p /\ p[n].state \in {"Deferred", "Disposed"}
    <3>1. n \in DOMAIN p
      BY <1>8, <2>1, <2>6
    <3>2. p[n].state = recs[r].state
      <4>1. n \in DOMAIN list /\ list[n] = r
        BY <1>8, <2>1
      <4>2. p[n] = [name |-> recs[list[n]].plugin, state |-> recs[list[n]].state]
        BY <2>6, <4>1
      <4>. QED  BY <4>1, <4>2
    <3>3. recs[r].state \in {"Deferred", "Disposed"}
      BY <1>4 DEF Quiet
    <3>. QED  BY <3>1, <3>2, <3>3
  <2>13. Promise!Forget(n)
    <3>1. Promise!Stopped(n)
      BY <2>5, <2>12 DEF Promise!Stopped
    <3>2. RootRecords' = RemoveAt(RootRecords, n)
      BY <2>5, <2>11
    <3>. QED  BY <3>1, <3>2 DEF Promise!Forget, Promise!RemoveAt, RemoveAt
  <2>14. n \in DOMAIN RootRecords
    BY <2>5, <2>12
  <2>. QED  BY <2>13, <2>14 DEF Promise!Next
<1>. QED  BY <1>9, <1>10

(* Destroying a scope clears the list of the root only when every record   *)
(* in it has stopped.                                                      *)
LEMMA RootDestroy ==
  ASSUME TreeInv, TreeInv', HostDestroy \/ DtorRelease \/ DtorClear \/ RevokeNext \/ RevokeDone
  PROVE  [Promise!Next]_RootRecords
<1>1. /\ TypeOK /\ ListsRight /\ scopes \in [ScopeIds -> Scope \cup {Gone}]
      /\ recs \in [RecIds -> LoadRecord \cup {NoRec}] /\ Root \in ScopeIds
  BY ContextAssumption DEF TreeInv, TypeOK
<1>2. PICK list : list = RootList
  OBVIOUS
<1>3. list \in Seq(RecIds) /\ \A k \in DOMAIN list : list[k] \in RecIds /\ recs[list[k]].host = Root
  BY <1>2, RootListed DEF Live
<1>4. CASE HostDestroy
  <2>1. Exists(Root) /\ scopes[Root] \in Scope
    BY <1>1, <1>4, ExistingScope DEF HostDestroy, Idle
  <2>2. UNCHANGED recs /\ scopes'[Root].records = scopes[Root].records /\ scopes'[Root] \in Scope
    BY <1>1, <1>4, <2>1 DEF HostDestroy, Scope
  <2>3. RootList' = list
    BY <1>2, <2>1, <2>2, NullAssumption DEF RootList, Exists
  <2>. QED  BY <1>2, <2>2, <2>3, RootSame
<1>5. CASE DtorRelease \/ DtorClear \/ RevokeNext \/ RevokeDone
  <2>1. Exists(Top.scope) /\ Top \in RightFrames /\ Top.op \in {"dtor", "revoke"}
        /\ Top.scope \in ScopeIds /\ scopes[Top.scope] \in Scope
    <3>1. Exists(Top.scope) /\ Top \in RightFrames /\ Top.op \in {"dtor", "revoke"}
      BY Zenon, <1>5, TopRight DEF DtorRelease, DtorClear, RevokeNext, RevokeDone
    <3>. QED  BY SMTT(40), <1>1, <3>1, ExistingScope
  <2>2. PICK sc : sc = Top.scope
    OBVIOUS
  <2>3. TeardownRight(Top) /\ ListRight(sc)
    BY <1>1, <2>1, <2>2 DEF RightFrames, ListsRight, Exists
  <2>4. CASE DtorRelease
    <3>1. PICK r \in RecIds : r = scopes[sc].records[Top.ix]
      BY ZenonT(60), <2>2, <2>4 DEF DtorRelease, Live
    <3>2. Live(r) /\ UNCHANGED scopes /\ recs' = [recs EXCEPT ![r].lib = FALSE, ![r].tokens = {}]
      BY Zenon, <2>2, <2>4, <3>1 DEF DtorRelease
    <3>3. recs[r] \in LoadRecord
      BY <1>1, <3>2, LiveRecord
    <3>4. \A q \in RecIds : recs'[q].plugin = recs[q].plugin /\ recs'[q].state = recs[q].state
      BY <1>1, <3>2, <3>3 DEF LoadRecord
    <3>5. RootList' = list
      BY <1>2, <3>2 DEF RootList, Exists
    <3>. QED  BY SMTT(40), <1>2, <1>3, <3>4, <3>5, RootSame
  <2>5. CASE DtorClear /\ sc # Root
    <3>1. scopes'[Root] = scopes[Root]
      BY <1>1, <2>2, <2>5 DEF DtorClear
    <3>2. RootList' = list
      BY <1>2, <3>1 DEF RootList, Exists
    <3>3. \A q \in ToSet(scopes[sc].records) : recs[q].host = sc
      BY <2>3 DEF ListRight, ToSet
    <3>4. \A q \in RecIds : q \notin ToSet(scopes[sc].records) => recs'[q] = recs[q]
      BY <2>2, <2>5 DEF DtorClear
    <3>5. \A k \in DOMAIN list : recs'[list[k]] = recs[list[k]]
      BY <1>3, <2>5, <3>3, <3>4
    <3>. QED  BY <1>2, <3>2, <3>5, RootSame
  <2>6. CASE DtorClear /\ sc = Root
    <3>1. scopes[Root] \in Scope /\ Exists(Root) /\ Top.ix = 0 /\ Top.op = "dtor"
      BY <2>1, <2>2, <2>6, TopRight DEF DtorClear
    <3>2. scopes'[Root] = [scopes[Root] EXCEPT !.records = <<>>, !.retired = {}]
      BY <1>1, <2>2, <2>6 DEF DtorClear
    <3>3. RootList' = <<>>
      BY <3>1, <3>2 DEF RootList, Scope
    <3>4. Len(RootRecords') = 0 /\ RootRecords' \in Seq(Views)
      <4>1. PICK q, none : q = RootRecords' /\ none = RootList'
        OBVIOUS
      <4>2. q \in Seq(Views) /\ Len(q) = Len(none) /\ Len(none) = 0
        BY <3>3, <4>1, RootViewsNext DEF Viewed
      <4>. QED  BY <4>1, <4>2
    <3>5. \A k \in DOMAIN list : Quiet(list[k])
      <4>1. list = scopes[Root].records /\ \A k \in DOMAIN list : k > 0
        BY <1>2, <1>3, <3>1 DEF RootList
      <4>. QED  BY <2>2, <2>3, <2>6, <3>1, <4>1 DEF TeardownRight
    <3>6. \A k \in DOMAIN RootRecords : Promise!Stopped(k)
      <4>1. DOMAIN RootRecords = DOMAIN list
            /\ \A k \in DOMAIN list : RootRecords[k] = [name |-> recs[list[k]].plugin, state |-> recs[list[k]].state]
        BY <1>2, RootViews DEF View, Viewed
      <4>2. \A k \in DOMAIN RootRecords : RootRecords[k].state \in {"Deferred", "Disposed"}
        BY <3>5, <4>1 DEF Quiet
      <4>. QED  BY <4>2 DEF Promise!Stopped
    <3>7. RootRecords' = <<>>
      BY <3>4
    <3>8. Promise!Destroy
      BY <3>6, <3>7 DEF Promise!Destroy
    <3>. QED  BY <3>8 DEF Promise!Next
  <2>7. CASE RevokeNext
    <3>1. UNCHANGED <<recs, scopes>>
      BY <2>7 DEF RevokeNext
    <3>. QED  BY SMTT(40), <3>1 DEF RootRecords, Exists
  <2>8. CASE RevokeDone
    <3>1. UNCHANGED recs /\ scopes' = [scopes EXCEPT ![sc] = Gone]
      BY <2>2, <2>8 DEF RevokeDone
    <3>2. CASE sc # Root
      <4>1. RootList' = list
        BY <1>1, <1>2, <3>1, <3>2 DEF RootList, Exists
      <4>. QED  BY <1>2, <3>1, <4>1, RootSame
    <3>3. CASE sc = Root
      <4>1. scopes[Root].records = <<>>
        BY <2>2, <2>3, <2>8, <3>3, TopRight DEF TeardownRight, RevokeDone
      <4>2. list = <<>>
        BY <1>2, <4>1 DEF RootList
      <4>3. RootList' = <<>>
        BY <1>1, <3>1, <3>3 DEF RootList, Exists
      <4>. QED  BY <1>2, <3>1, <4>2, <4>3, RootSame
    <3>. QED  BY <3>2, <3>3
  <2>. QED  BY <1>5, <2>4, <2>5, <2>6, <2>7, <2>8
<1>. QED  BY <1>4, <1>5

(* Providing a service leaves the records alone.                           *)
LEMMA RootProvide ==
  ASSUME TreeInv, TreeInv', NEW s \in Services, HostProvide(s) \/ ApplyProvide(s)
  PROVE  [Promise!Next]_RootRecords
<1>1. TypeOK /\ Root \in ScopeIds /\ <<>> \in Seq(Frame) /\ stack \in Seq(Frame)
  BY ContextAssumption DEF TreeInv, TypeOK
<1>2. PICK sc \in ScopeIds, rest \in Seq(Frame) : Exists(sc) /\ ProvideService(s, sc, rest)
  <2>1. CASE HostProvide(s)
    BY <1>1, <2>1 DEF HostProvide, Idle, Exists
  <2>2. CASE ApplyProvide(s)
    BY <1>1, <2>2 DEF ApplyProvide, Applying, Exists
  <2>. QED  BY <2>1, <2>2
<1>3. /\ UNCHANGED recs
      /\ \A t \in ScopeIds : Exists(t)' = Exists(t)
      /\ \A t \in ScopeIds \ {sc} : scopes'[t] = scopes[t]
      /\ scopes'[sc].records = scopes[sc].records
  BY <1>1, <1>2, ProvideKeeps
<1>4. RootList' = RootList
  BY <1>1, <1>3 DEF RootList
<1>. QED  BY <1>3, <1>4, RootSame

(* RecordsAsPromised: however starts, stops and loads nest, the records of *)
(* the root scope go through the steps that PluginRecords allows: none     *)
(* is forgotten while it runs, and the list is cleared only when           *)
(* everything has stopped.                                                 *)
THEOREM ImplementsRecords == Spec => RecordsAsPromised
<1>1. Init => Promise!Init
  <2>1. SUFFICES ASSUME Init PROVE RootRecords = <<>>
    BY DEF Promise!Init
  <2>2. TreeInv
    BY <2>1, InitTree
  <2>3. RootList = <<>>
    BY <2>1, ContextAssumption DEF Init, RootList, Exists, NewScope
  <2>4. RootRecords \in Seq(Views) /\ Len(RootRecords) = 0
    BY <2>2, <2>3, RootViews DEF Viewed
  <2>. QED  BY <2>4
<1>2. TreeInv /\ TreeInv' /\ [Next]_vars => [Promise!Next]_RootRecords
  <2>1. SUFFICES ASSUME TreeInv, TreeInv', [Next]_vars PROVE [Promise!Next]_RootRecords
    OBVIOUS
  <2>2. TypeOK /\ ListsRight /\ TypeOK'
    BY <2>1 DEF TreeInv
  <2>3. ASSUME \/ ArmNext \/ ArmStarts \/ FireNext \/ DtorStop \/ ApplyThrows
               \/ \E p : HostUnload(p) \/ ApplyEvict(p) \/ CallbackUnloads(p)
        PROVE  [Promise!Next]_RootRecords
    BY <2>1, <2>2, <2>3, CallStep, RootTurn
  <2>4. ASSUME NEW p \in Plugins, HostLoad(p) \/ ApplyLoad(p) \/ CallbackLoads(p)
        PROVE  [Promise!Next]_RootRecords
    <3>1. PICK sc : Exists(sc) /\ RecordAdded(sc, p)
      BY <2>2, <2>4, LoadStep
    <3>. QED  BY <2>1, <3>1, RootLoad
  <2>5. ASSUME ArmToken \/ ApplyReturns \/ StopRelease PROVE [Promise!Next]_RootRecords
    <3>1. /\ UNCHANGED scopes
          /\ \A q \in RecIds : Live(q) => recs'[q].plugin = recs[q].plugin /\ recs'[q].state = recs[q].state
      BY <2>2, <2>5, NoteStep
    <3>2. RootList' = RootList
      BY <3>1 DEF RootList, Exists
    <3>3. \A k \in DOMAIN RootList : RootList[k] \in RecIds /\ Live(RootList[k])
      BY <2>1, RootListed DEF Live
    <3>. QED  BY <2>1, <3>1, <3>2, <3>3, RootSame
  <2>6. ASSUME NEW s \in Services, HostProvide(s) \/ ApplyProvide(s) PROVE [Promise!Next]_RootRecords
    BY <2>1, <2>6, RootProvide
  <2>7. ASSUME FireDone \/ CallbackReturns \/ Terminated \/ UNCHANGED vars
        PROVE  [Promise!Next]_RootRecords
    <3>1. UNCHANGED <<recs, scopes>>
      BY <2>7 DEF FireDone, CallbackReturns, Terminated, vars
    <3>. QED  BY <3>1 DEF RootRecords, Exists
  <2>8. ASSUME HostDestroy \/ DtorRelease \/ DtorClear \/ RevokeNext \/ RevokeDone
        PROVE  [Promise!Next]_RootRecords
    BY <2>1, <2>8, RootDestroy
  <2>9. ASSUME Erase PROVE [Promise!Next]_RootRecords
    BY <2>1, <2>9, RootErase
  <2>. QED  BY <2>1, <2>3, <2>4, <2>5, <2>6, <2>7, <2>8, <2>9 DEF Next, HostCalls, ThreadSteps
<1>. QED  BY <1>1, <1>2, TreeCorrect, PTL DEF Spec, RecordsAsPromised, Promise!Spec

-----------------------------------------------------------------------------
(* Sentinels. A record that is being armed has those of the requirements   *)
(* its loop has passed; a call that arms is told from the others by its    *)
(* height in the stack, which no call above it changes.                    *)
Arms(q) ==
  {[at |-> Len(q) - i, rec |-> q[i].rec, ix |-> q[i].ix, todo |-> q[i].todo] :
     i \in {j \in DOMAIN q : q[j].op = "arm"}}

Dooms(q) == {<<q[i].scope, q[i].ix>> : i \in {j \in DOMAIN q : q[j].op = "dtor"}}

(* ~Context may have cancelled the sentinels of a record in its list.      *)
Doomed(r) ==
  \E d \in Dooms(stack) : Exists(d[1]) /\ r \in ToSet(scopes[d[1]].records)

(* It has, of those its loop has passed.                                   *)
DoomRight(d) ==
  Exists(d[1]) =>
    \A k \in DOMAIN scopes[d[1]].records :
      k > d[2] => recs[scopes[d[1]].records[k]].tokens = {}

(* The sentinels of a record whose token it has.                           *)
Kept(r) == {w \in watchers : w.rec = r /\ w.tok \in recs[r].tokens}

Passed(r, n) == {Requires[recs[r].plugin][j] : j \in 1..n}

Armed(r, n) ==
  /\ IsFiniteSet(recs[r].tokens) /\ Cardinality(recs[r].tokens) = n
  /\ {w.svc : w \in Kept(r)} = Passed(r, n)

ArmRight(a) ==
  Live(a.rec) =>
    /\ a.ix \in 1..(Len(Requires[recs[a.rec].plugin]) + 1)
    /\ a.todo # {} => \E w \in watchers :
         /\ a.todo = {w} /\ w.rec = a.rec /\ w.tok \notin recs[a.rec].tokens
         /\ a.ix \in DOMAIN Requires[recs[a.rec].plugin]
         /\ w.svc = Requires[recs[a.rec].plugin][a.ix]

ArmsApart == \A a, b \in Arms(stack) : a.rec = b.rec => a = b

(* A token is one watcher's.                                               *)
TokensApart ==
  \A w, v \in watchers : w.rec # NoRec /\ w.tok = v.tok => w = v

(* Each token a record has is that of a sentinel of its own, ...           *)
TokensRight ==
  \A r \in RecIds : Live(r) =>
    \A t \in recs[r].tokens : \E w \in watchers : w.rec = r /\ w.tok = t

(* ... each sentinel is one its record can cancel, or is about to be, ...  *)
SentinelsRight ==
  \A w \in watchers : w.rec # NoRec =>
    \/ \E a \in Arms(stack) : a.rec = w.rec /\ w \in a.todo
    \/ Live(w.rec) /\ w.tok \in recs[w.rec].tokens

(* ... and each record is armed as far as its call has come.               *)
RecordRight(r) ==
  \/ Doomed(r)
  \/ \E a \in Arms(stack) : a.rec = r /\ Armed(r, a.ix - 1)
  \/ /\ \A a \in Arms(stack) : a.rec # r
     /\ Armed(r, Len(Requires[recs[r].plugin]))

SentinelInv ==
  /\ \A a \in Arms(stack) : ArmRight(a)
  /\ ArmsApart /\ TokensApart /\ TokensRight /\ SentinelsRight
  /\ \A r \in RecIds : Live(r) => RecordRight(r)
  /\ \A d \in Dooms(stack) : DoomRight(d)

(* Between two calls of the host nothing is being armed or destroyed.      *)
LEMMA SentinelsBetweenCalls ==
  ASSUME TypeOK, SentinelInv
  PROVE  SentinelsExact
<1>1. SUFFICES ASSUME stack = <<>>
               PROVE  /\ \A w \in watchers : w.rec # NoRec => Live(w.rec) /\ w.tok \in recs[w.rec].tokens
                      /\ \A r \in Records :
                           /\ {w.svc : w \in {x \in watchers : x.rec # NoRec /\ x.rec = r}} = Required(r)
                           /\ Cardinality(recs[r].tokens) = Len(Requires[recs[r].plugin])
  BY DEF SentinelsExact
<1>2. Arms(stack) = {} /\ Dooms(stack) = {}
  BY <1>1 DEF Arms, Dooms
<1>3. \A w \in watchers : w.rec # NoRec => Live(w.rec) /\ w.tok \in recs[w.rec].tokens
  BY <1>2 DEF SentinelInv, SentinelsRight
<1>4. ASSUME NEW r \in Records
      PROVE  /\ {w.svc : w \in {x \in watchers : x.rec # NoRec /\ x.rec = r}} = Required(r)
             /\ Cardinality(recs[r].tokens) = Len(Requires[recs[r].plugin])
  <2>1. r \in RecIds /\ Live(r) /\ r # NoRec
    BY <1>4, ContextAssumption DEF Records
  <2>2. Armed(r, Len(Requires[recs[r].plugin]))
    BY <1>2, <2>1 DEF SentinelInv, RecordRight, Doomed
  <2>3. recs[r] \in LoadRecord
    BY <2>1, LiveRecord
  <2>4. Requires[recs[r].plugin] \in Seq(Services)
    BY <2>3, ContextAssumption DEF LoadRecord
  <2>5. DOMAIN Requires[recs[r].plugin] = 1..Len(Requires[recs[r].plugin])
    BY <2>4
  <2>6. Passed(r, Len(Requires[recs[r].plugin])) = Required(r)
    BY <2>5 DEF Passed, Required, ToSet
  <2>7. {x \in watchers : x.rec # NoRec /\ x.rec = r} = Kept(r)
    BY <1>3, <2>1 DEF Kept
  <2>. QED  BY <2>2, <2>6, <2>7 DEF Armed
<1>. QED  BY <1>3, <1>4

(* What a pushed call adds.                                                *)
LEMMA ArmsPushed ==
  ASSUME NEW S, NEW q \in Seq(S), NEW x \in S
  PROVE  /\ \A a \in Arms(q) : a.at < Len(q)
         /\ x.op # "arm" => Arms(<<x>> \o q) = Arms(q)
         /\ x.op = "arm" => Arms(<<x>> \o q) = Arms(q) \cup
              {[at |-> Len(q), rec |-> x.rec, ix |-> x.ix, todo |-> x.todo]}
         /\ x.op # "dtor" => Dooms(<<x>> \o q) = Dooms(q)
         /\ x.op = "dtor" => Dooms(<<x>> \o q) = Dooms(q) \cup {<<x.scope, x.ix>>}
<1>1. PICK p : p = <<x>> \o q
  OBVIOUS
<1>2. /\ p[1] = x /\ 1 \in DOMAIN p /\ Len(p) = Len(q) + 1 /\ Len(q) \in Nat
      /\ \A i \in DOMAIN q : i + 1 \in DOMAIN p /\ p[i + 1] = q[i] /\ i \in Nat \ {0} /\ i <= Len(q)
      /\ \A i \in DOMAIN p : i \in Nat /\ (i = 1 \/ (i - 1 \in DOMAIN q /\ p[i] = q[i - 1]))
  BY <1>1, PushedPositions
<1>. DEFINE View1(s, i) == [at |-> Len(s) - i, rec |-> s[i].rec, ix |-> s[i].ix, todo |-> s[i].todo]
<1>3. \A a \in Arms(q) : a.at < Len(q)
  BY <1>2 DEF Arms
<1>4. \A i \in DOMAIN q : View1(q, i) = View1(p, i + 1)
  BY <1>2
<1>5. \A i \in DOMAIN p : i # 1 => View1(p, i) = View1(q, i - 1)
  BY <1>2
<1>6. View1(p, 1) = [at |-> Len(q), rec |-> x.rec, ix |-> x.ix, todo |-> x.todo]
  BY <1>2
<1>7. /\ \A a : a \in Arms(q) <=> \E i \in DOMAIN q : q[i].op = "arm" /\ a = View1(q, i)
      /\ \A a : a \in Arms(p) <=> \E i \in DOMAIN p : p[i].op = "arm" /\ a = View1(p, i)
  BY DEF Arms
<1>. HIDE DEF View1
<1>8. Arms(q) \subseteq Arms(p)
  BY <1>2, <1>4, <1>7
<1>9. \A a \in Arms(p) : a \in Arms(q) \/ (x.op = "arm" /\ a = View1(p, 1))
  <2>1. SUFFICES ASSUME NEW i \in DOMAIN p, p[i].op = "arm"
                 PROVE  View1(p, i) \in Arms(q) \/ (x.op = "arm" /\ View1(p, i) = View1(p, 1))
    BY <1>7
  <2>2. CASE i = 1
    BY <1>2, <2>1, <2>2
  <2>3. CASE i # 1
    BY <1>2, <1>5, <1>7, <2>1, <2>3
  <2>. QED  BY <2>2, <2>3
<1>10. x.op = "arm" => View1(p, 1) \in Arms(p)
  BY <1>2, <1>7
<1>11. /\ \A d : d \in Dooms(q) <=> \E i \in DOMAIN q : q[i].op = "dtor" /\ d = <<q[i].scope, q[i].ix>>
       /\ \A d : d \in Dooms(p) <=> \E i \in DOMAIN p : p[i].op = "dtor" /\ d = <<p[i].scope, p[i].ix>>
  BY DEF Dooms
<1>12. Dooms(q) \subseteq Dooms(p)
  BY <1>2, <1>11
<1>13. \A d \in Dooms(p) : d \in Dooms(q) \/ (x.op = "dtor" /\ d = <<x.scope, x.ix>>)
  <2>1. SUFFICES ASSUME NEW i \in DOMAIN p, p[i].op = "dtor"
                 PROVE  \/ <<p[i].scope, p[i].ix>> \in Dooms(q)
                        \/ x.op = "dtor" /\ <<p[i].scope, p[i].ix>> = <<x.scope, x.ix>>
    BY <1>11
  <2>2. CASE i = 1
    BY <1>2, <2>1, <2>2
  <2>3. CASE i # 1
    BY <1>2, <1>11, <2>1, <2>3
  <2>. QED  BY <2>2, <2>3
<1>14. x.op = "dtor" => <<x.scope, x.ix>> \in Dooms(p)
  BY <1>2, <1>11
<1>15. x.op # "arm" => Arms(p) = Arms(q)
  BY <1>8, <1>9
<1>16. x.op = "arm" => Arms(p) = Arms(q) \cup {[at |-> Len(q), rec |-> x.rec, ix |-> x.ix, todo |-> x.todo]}
  BY <1>6, <1>8, <1>9, <1>10
<1>17. x.op # "dtor" => Dooms(p) = Dooms(q)
  BY <1>12, <1>13
<1>18. x.op = "dtor" => Dooms(p) = Dooms(q) \cup {<<x.scope, x.ix>>}
  BY <1>12, <1>13, <1>14
<1>. QED  BY <1>1, <1>3, <1>15, <1>16, <1>17, <1>18

(* Marking an iterator changes neither.                                    *)
LEMMA ArmsMarked ==
  ASSUME NEW q \in Seq(Frame), NEW sc, NEW n \in Nat
  PROVE  /\ Arms(Invalidate(q, sc, n)) = Arms(q) /\ Dooms(Invalidate(q, sc, n)) = Dooms(q)
         /\ Len(Invalidate(q, sc, n)) = Len(q) /\ Invalidate(q, sc, n) \in Seq(Frame)
<1>1. PICK p : p = Invalidate(q, sc, n)
  OBVIOUS
<1>2. MarkedFrom(q, p, sc, n)
  BY <1>1, InvalidateSame
<1>3. /\ DOMAIN p = DOMAIN q
      /\ \A i \in DOMAIN q : /\ p[i].op = q[i].op /\ p[i].rec = q[i].rec /\ p[i].todo = q[i].todo
                             /\ p[i].scope = q[i].scope /\ p[i].ix = q[i].ix
  BY <1>2 DEF MarkedFrom
<1>4. p \in Seq(Frame) /\ Len(p) = Len(q)
  BY <1>1, <1>2 DEF MarkedFrom
<1>5. Arms(p) = Arms(q)
  BY <1>3, <1>4 DEF Arms
<1>6. Dooms(p) = Dooms(q)
  BY <1>3 DEF Dooms
<1>. QED  BY <1>1, <1>4, <1>5, <1>6

(* The running call and those below it.                                    *)
LEMMA ArmsBelow ==
  ASSUME TypeOK, NEW op, Running(op)
  PROVE  /\ Below \in Seq(Frame) /\ Top \in Frame /\ Top.op = op
         /\ \A a \in Arms(Below) : a.at < Len(Below)
         /\ op # "arm" => Arms(Below) = Arms(stack)
         /\ op = "arm" => Arms(stack) = Arms(Below) \cup
              {[at |-> Len(Below), rec |-> Top.rec, ix |-> Top.ix, todo |-> Top.todo]}
         /\ Dooms(Below) \subseteq Dooms(stack)
         /\ op # "dtor" => Dooms(Below) = Dooms(stack)
         /\ op = "dtor" => Dooms(stack) = Dooms(Below) \cup {<<Top.scope, Top.ix>>}
<1>1. stack = <<Top>> \o Below /\ Top \in Frame /\ Below \in Seq(Frame) /\ Top.op = op
  BY RunningStack
<1>2. PICK q, x : q = Below /\ x = Top
  OBVIOUS
<1>3. /\ \A a \in Arms(q) : a.at < Len(q)
      /\ x.op # "arm" => Arms(<<x>> \o q) = Arms(q)
      /\ x.op = "arm" => Arms(<<x>> \o q) = Arms(q) \cup
           {[at |-> Len(q), rec |-> x.rec, ix |-> x.ix, todo |-> x.todo]}
      /\ x.op # "dtor" => Dooms(<<x>> \o q) = Dooms(q)
      /\ x.op = "dtor" => Dooms(<<x>> \o q) = Dooms(q) \cup {<<x.scope, x.ix>>}
  BY <1>1, <1>2, ArmsPushed
<1>. QED  BY <1>1, <1>2, <1>3

(* No call that several actions make changes what a record can cancel,     *)
(* which requirements it has or what is being armed.                       *)
CallArms(rest) ==
  /\ \A r \in RecIds : (Live(r)' <=> Live(r))
       /\ (Live(r) => recs'[r].tokens = recs[r].tokens /\ recs'[r].plugin = recs[r].plugin)
  /\ \A sc \in ScopeIds :
       /\ Exists(sc) => Exists(sc)' /\ scopes'[sc].records = scopes[sc].records
       /\ ~Exists(sc) /\ Exists(sc)' => scopes'[sc].records = <<>>
  /\ Arms(stack') = Arms(rest)
  /\ Dooms(rest) \subseteq Dooms(stack')
  /\ \A d \in Dooms(stack') : d \in Dooms(rest) \/ d[2] = Len(scopes'[d[1]].records)

(* A call that only returns ...                                            *)
LEMMA ReturnArms ==
  ASSUME NEW rest, Return(rest)
  PROVE  CallArms(rest)
BY DEF Return, CallArms, Live, Exists

(* ... ensureStarted(), ...                                                *)
LEMMA StartArms ==
  ASSUME TypeOK, TypeOK', NEW r, Live(r), NEW rest \in Seq(Frame), EnsureStarted(r, rest)
  PROVE  CallArms(rest)
<1>1. CASE ~CanStart(r)
  BY <1>1, ReturnArms DEF EnsureStarted
<1>2. CASE CanStart(r)
  <2>1. PICK sc \in ScopeIds :
          /\ IsFresh(sc, ScopeIds, UsedScopes)
          /\ recs' = [recs EXCEPT ![r] = Started(r, sc)]
          /\ scopes' = [scopes EXCEPT ![sc] = NewScope]
          /\ stack' = <<Call("apply", r, sc)>> \o rest
    BY <1>2 DEF EnsureStarted
  <2>2. r \in RecIds /\ recs[r] \in LoadRecord /\ recs \in [RecIds -> LoadRecord \cup {NoRec}]
        /\ scopes \in [ScopeIds -> Scope \cup {Gone}]
    BY LiveRecord DEF TypeOK
  <2>3. ~Exists(sc)
    BY <2>1, LiveKnown DEF IsFresh
  <2>4. /\ \A q \in RecIds : q # r => recs'[q] = recs[q]
        /\ \A s \in ScopeIds : s # sc => scopes'[s] = scopes[s]
        /\ recs'[r] = Started(r, sc) /\ scopes'[sc] = NewScope
    BY <2>1, <2>2
  <2>5. Started(r, sc) \in LoadRecord
    BY <2>2, InjectedType DEF Started, LoadRecord, States
  <2>6. Started(r, sc).tokens = recs[r].tokens /\ Started(r, sc).plugin = recs[r].plugin
    BY <2>2 DEF Started, LoadRecord
  <2>7. \A q \in RecIds : (Live(q)' <=> Live(q))
          /\ (Live(q) => recs'[q].tokens = recs[q].tokens /\ recs'[q].plugin = recs[q].plugin)
    BY <2>4, <2>5, <2>6, NullAssumption DEF Live
  <2>8. \A s \in ScopeIds :
          /\ Exists(s) => Exists(s)' /\ scopes'[s].records = scopes[s].records
          /\ ~Exists(s) /\ Exists(s)' => scopes'[s].records = <<>>
    BY <2>3, <2>4 DEF Exists, NewScope
  <2>9. Arms(stack') = Arms(rest) /\ Dooms(stack') = Dooms(rest)
    <3>1. PICK x : x = Call("apply", r, sc)
      OBVIOUS
    <3>2. x \in Frame
      BY <2>2, <3>1, CallType DEF Ops
    <3>3. x.op = "apply"
      BY <3>1 DEF Call
    <3>4. stack' = <<x>> \o rest
      BY <2>1, <3>1
    <3>. QED  BY <3>2, <3>3, <3>4, ArmsPushed
  <2>. QED  BY <2>7, <2>8, <2>9 DEF CallArms
<1>. QED  BY <1>1, <1>2

(* ... stopRecord(), ...                                                   *)
LEMMA StopArms ==
  ASSUME TypeOK, ListsRight, NEW r, Live(r), NEW target \in {"Deferred", "Failed", "Disposed"},
         NEW rest \in Seq(Frame), StopRecord(r, target, rest)
  PROVE  CallArms(rest)
<1>1. CASE ~MustStop(r)
  BY <1>1, ReturnArms DEF StopRecord
<1>2. CASE MustStop(r)
  <2>1. StopEffect(r, target)
    BY <1>2, StopTreeKept
  <2>2. r \in RecIds /\ recs[r] \in LoadRecord /\ recs \in [RecIds -> LoadRecord \cup {NoRec}]
    BY LiveRecord DEF TypeOK
  <2>3. recs' = [recs EXCEPT ![r] = Stopped(r, target)]
    BY <1>2 DEF StopRecord
  <2>4. Stopped(r, target).tokens = recs[r].tokens /\ Stopped(r, target).plugin = recs[r].plugin
    BY <2>2 DEF Stopped, LoadRecord
  <2>5. \A q \in RecIds : (Live(q)' <=> Live(q))
          /\ (Live(q) => recs'[q].tokens = recs[q].tokens /\ recs'[q].plugin = recs[q].plugin)
    BY <2>1, <2>2, <2>3, <2>4 DEF StopEffect, Live
  <2>6. \A s \in ScopeIds :
          /\ Exists(s)' = Exists(s)
          /\ Exists(s) => scopes'[s].records = scopes[s].records
    BY <2>1 DEF StopEffect
  <2>7. /\ Arms(stack') = Arms(rest) /\ Dooms(rest) \subseteq Dooms(stack')
        /\ \A d \in Dooms(stack') : d \in Dooms(rest) \/ d[2] = Len(scopes'[d[1]].records)
    <3>1. PICK x : x = Call("stop", r, NoScope)
      OBVIOUS
    <3>2. x \in Frame
      BY <2>2, <3>1, CallType DEF Ops
    <3>3. x.op = "stop"
      BY <3>1 DEF Call
    <3>4. Arms(<<x>> \o rest) = Arms(rest) /\ Dooms(<<x>> \o rest) = Dooms(rest) /\ <<x>> \o rest \in Seq(Frame)
      BY <3>2, <3>3, ArmsPushed, PushType
    <3>5. CASE recs[r].scope = NoScope
      BY <1>2, <3>1, <3>4, <3>5 DEF StopRecord
    <3>6. CASE recs[r].scope # NoScope
      <4>1. PICK y : y = [Call("dtor", NoRec, recs[r].scope) EXCEPT !.ix = Len(scopes[recs[r].scope].records)]
        OBVIOUS
      <4>2. Exists(recs[r].scope) /\ stack' = <<y, x>> \o rest
        BY <1>2, <3>1, <3>6, <4>1 DEF StopRecord
      <4>3. recs[r].scope \in ScopeIds /\ scopes[recs[r].scope] \in Scope
        BY <4>2, ExistingScope
      <4>4. Len(scopes[recs[r].scope].records) \in Nat
        BY <4>3 DEF Scope
      <4>5. y \in Frame /\ y.op = "dtor"
        <5>1. Call("dtor", NoRec, recs[r].scope) \in Frame
          BY <4>3, CallType DEF Ops
        <5>. QED  BY <4>1, <4>4, <5>1 DEF Call, Frame
      <4>6. <<y, x>> \o rest = <<y>> \o (<<x>> \o rest)
        BY <3>2, <4>5, TwoPushed
      <4>7. PICK q \in Seq(Frame) : q = <<x>> \o rest
        BY <3>4
      <4>8. Arms(<<y>> \o q) = Arms(q) /\ Dooms(<<y>> \o q) = Dooms(q) \cup {<<y.scope, y.ix>>}
        BY <4>5, ArmsPushed
      <4>9. y.ix = Len(scopes'[y.scope].records)
        <5>1. y.scope = recs[r].scope /\ y.ix = Len(scopes[recs[r].scope].records)
          BY <4>1 DEF Call
        <5>2. scopes'[recs[r].scope].records = scopes[recs[r].scope].records
          BY <2>6, <4>2, <4>3
        <5>. QED  BY <5>1, <5>2
      <4>10. Arms(stack') = Arms(rest) /\ Dooms(stack') = Dooms(rest) \cup {<<y.scope, y.ix>>}
        BY <3>4, <4>2, <4>6, <4>7, <4>8
      <4>11. \A d \in Dooms(stack') : d \in Dooms(rest) \/ d = <<y.scope, y.ix>>
        BY <4>10
      <4>12. \A d : d = <<y.scope, y.ix>> => d[2] = Len(scopes'[d[1]].records)
        BY <4>9
      <4>. QED  BY <4>10, <4>11, <4>12
    <3>. QED  BY <3>5, <3>6
  <2>. QED  BY <2>5, <2>6, <2>7 DEF CallArms
<1>. QED  BY <1>1, <1>2

(* ... a watcher, ...                                                      *)
LEMMA CallWatcherArms ==
  ASSUME TypeOK, TypeOK', ListsRight, NEW w \in Watcher, NEW v \in BOOLEAN,
         NEW rest \in Seq(Frame), CallWatcher(w, v, rest)
  PROVE  CallArms(rest)
<1>1. CASE ~HostAlive(w)
  BY <1>1, ReturnArms DEF CallWatcher
<1>2. CASE HostAlive(w) /\ w.rec = NoRec
  <2>1. PICK x : x = [Call("callback", NoRec, NoScope) EXCEPT !.val = v, !.todo = {w}]
    OBVIOUS
  <2>2. Return(<<x>> \o rest)
    BY <1>2, <2>1 DEF CallWatcher
  <2>3. x \in Frame /\ x.op = "callback"
    <3>1. Call("callback", NoRec, NoScope) \in Frame
      BY CallType DEF Ops
    <3>. QED  BY <2>1, <3>1 DEF Call, Frame
  <2>4. Arms(<<x>> \o rest) = Arms(rest) /\ Dooms(<<x>> \o rest) = Dooms(rest)
    BY <2>3, ArmsPushed
  <2>5. CallArms(<<x>> \o rest)
    BY <2>2, ReturnArms
  <2>. QED  BY <2>4, <2>5 DEF CallArms
<1>3. CASE HostAlive(w) /\ w.rec # NoRec
  <2>1. Live(w.rec)
    BY <1>3 DEF CallWatcher
  <2>2. CASE v
    BY <1>3, <2>1, <2>2, StartArms DEF CallWatcher
  <2>3. CASE ~v /\ recs[w.rec].state = "Active"
    <3>1. StopRecord(w.rec, "Deferred", rest)
      BY <1>3, <2>3 DEF CallWatcher
    <3>. QED  BY <2>1, <3>1, StopArms
  <2>4. CASE ~v /\ recs[w.rec].state # "Active"
    BY <1>3, <2>4, ReturnArms DEF CallWatcher
  <2>. QED  BY <2>2, <2>3, <2>4
<1>. QED  BY <1>1, <1>2, <1>3

(* ... and unload(), up to the stop.                                       *)
LEMMA UnloadArms ==
  ASSUME TypeOK, ListsRight, NEW sc, Exists(sc), NEW p, NEW rest \in Seq(Frame), Unload(sc, p, rest)
  PROVE  CallArms(rest)
<1>1. sc \in ScopeIds /\ scopes[sc] \in Scope
  BY ExistingScope
<1>2. PICK i \in Named(sc, p) :
        /\ Live(scopes[sc].records[i])
        /\ StopRecord(scopes[sc].records[i], "Disposed",
             <<[Call("erase", scopes[sc].records[i], sc) EXCEPT !.ix = i]>> \o rest)
  BY DEF Unload
<1>3. PICK r : r = scopes[sc].records[i]
  OBVIOUS
<1>4. PICK x : x = [Call("erase", r, sc) EXCEPT !.ix = i]
  OBVIOUS
<1>5. x \in Frame /\ x.op = "erase"
  <2>1. i \in Nat /\ r \in RecIds
    BY <1>1, <1>3 DEF Named, Scope
  <2>2. Call("erase", r, sc) \in Frame
    BY <1>1, <2>1, CallType DEF Ops
  <2>. QED  BY <1>4, <2>1, <2>2 DEF Call, Frame
<1>6. <<x>> \o rest \in Seq(Frame) /\ Arms(<<x>> \o rest) = Arms(rest) /\ Dooms(<<x>> \o rest) = Dooms(rest)
  BY <1>5, PushType, ArmsPushed
<1>7. StopRecord(r, "Disposed", <<x>> \o rest) /\ Live(r)
  BY <1>2, <1>3, <1>4
<1>8. CallArms(<<x>> \o rest)
  BY <1>6, <1>7, StopArms
<1>. QED  BY <1>6, <1>8 DEF CallArms

(* A call that goes on keeps its place; one that does not arm does not     *)
(* count as arming.                                                        *)
LEMMA ArmsResumed ==
  ASSUME TypeOK, NEW op, Running(op), NEW g \in Frame
  PROVE  /\ Resume(g) \in Seq(Frame)
         /\ op # "arm" /\ g.op # "arm" => Arms(Resume(g)) = Arms(stack)
         /\ g.op = op /\ g.scope = Top.scope /\ g.ix = Top.ix => Dooms(Resume(g)) = Dooms(stack)
         /\ g.op = "dtor" => Dooms(Resume(g)) = Dooms(Below) \cup {<<g.scope, g.ix>>}
         /\ g.op # "dtor" => Dooms(Resume(g)) = Dooms(Below)
         /\ g.op = "arm" => Arms(Resume(g)) = Arms(Below) \cup
              {[at |-> Len(Below), rec |-> g.rec, ix |-> g.ix, todo |-> g.todo]}
<1>1. PICK q : q = Below
  OBVIOUS
<1>2. /\ q \in Seq(Frame)
      /\ op # "arm" => Arms(q) = Arms(stack)
      /\ op # "dtor" => Dooms(q) = Dooms(stack)
      /\ op = "dtor" => Dooms(stack) = Dooms(q) \cup {<<Top.scope, Top.ix>>}
  BY <1>1, ArmsBelow
<1>3. <<g>> \o q \in Seq(Frame)
  BY <1>2, PushType
<1>4. /\ g.op # "arm" => Arms(<<g>> \o q) = Arms(q)
      /\ g.op = "arm" => Arms(<<g>> \o q) = Arms(q) \cup
           {[at |-> Len(q), rec |-> g.rec, ix |-> g.ix, todo |-> g.todo]}
      /\ g.op # "dtor" => Dooms(<<g>> \o q) = Dooms(q)
      /\ g.op = "dtor" => Dooms(<<g>> \o q) = Dooms(q) \cup {<<g.scope, g.ix>>}
  BY <1>2, ArmsPushed
<1>. QED  BY <1>1, <1>2, <1>3, <1>4 DEF Resume

(* A record stays doomed while the destructor's call and the list do.      *)
LEMMA DoomedKept ==
  ASSUME Dooms(stack) \subseteq Dooms(stack'),
         \A sc \in ScopeIds : Exists(sc) => Exists(sc)' /\ scopes'[sc].records = scopes[sc].records,
         NEW r, Doomed(r)
  PROVE  Doomed(r)'
<1>1. PICK d \in Dooms(stack) : Exists(d[1]) /\ r \in ToSet(scopes[d[1]].records)
  BY DEF Doomed
<1>2. PICK sc : sc = d[1]
  OBVIOUS
<1>3. sc \in ScopeIds /\ Exists(sc) /\ r \in ToSet(scopes[sc].records)
  BY <1>1, <1>2 DEF Exists
<1>4. Exists(sc)' /\ scopes'[sc].records = scopes[sc].records
  BY <1>3
<1>5. d \in Dooms(stack') /\ Exists(d[1])' /\ r \in ToSet(scopes'[d[1]].records)
  BY <1>1, <1>2, <1>3, <1>4
<1>. QED  BY <1>5 DEF Doomed

(* The lists of destructors that go on, or begin, are right.               *)
LEMMA DoomsKept ==
  ASSUME TreeInv, SentinelInv,
         \A r \in RecIds : Live(r) => recs'[r].tokens = recs[r].tokens,
         \A sc \in ScopeIds :
           /\ Exists(sc) => scopes'[sc].records = scopes[sc].records
           /\ ~Exists(sc) /\ Exists(sc)' => scopes'[sc].records = <<>>,
         TypeOK',
         \A d \in Dooms(stack') : d \in Dooms(stack) \/ d[2] = Len(scopes'[d[1]].records)
  PROVE  \A d \in Dooms(stack') : DoomRight(d)'
<1>1. SUFFICES ASSUME NEW d \in Dooms(stack'), Exists(d[1])',
                      NEW k \in DOMAIN scopes'[d[1]].records, k > d[2]
               PROVE  recs'[scopes'[d[1]].records[k]].tokens = {}
  BY DEF DoomRight
<1>2. PICK sc : sc = d[1]
  OBVIOUS
<1>3. sc \in ScopeIds /\ k \in DOMAIN scopes'[sc].records
  BY <1>1, <1>2 DEF Exists
<1>4. CASE Exists(sc)
  <2>1. scopes'[sc].records = scopes[sc].records
    BY <1>3, <1>4
  <2>2. ListRight(sc) /\ scopes[sc] \in Scope
    BY <1>3, <1>4, ExistingScope DEF TreeInv, ListsRight
  <2>3. k \in 1..Len(scopes[sc].records)
    BY <1>3, <2>1, <2>2 DEF Scope
  <2>4. d \in Dooms(stack)
    BY <1>1, <1>2, <2>1, <2>3
  <2>5. recs[scopes[sc].records[k]].tokens = {}
    BY <1>1, <1>2, <1>4, <2>3, <2>4, <1>3, <2>1 DEF SentinelInv, DoomRight
  <2>6. Live(scopes[sc].records[k]) /\ scopes[sc].records[k] \in RecIds
    BY <1>3, <2>1, <2>2 DEF ListRight, Live
  <2>. QED  BY <1>2, <2>1, <2>5, <2>6
<1>5. CASE ~Exists(sc)
  BY <1>1, <1>2, <1>3, <1>5
<1>. QED  BY <1>4, <1>5

(* Nothing of it changes when no record comes, goes, or is armed.          *)
LEMMA SentinelSame ==
  ASSUME SentinelInv, UNCHANGED watchers, Arms(stack') = Arms(stack),
         \A r \in RecIds : (Live(r)' <=> Live(r))
           /\ (Live(r) => recs'[r].tokens = recs[r].tokens /\ recs'[r].plugin = recs[r].plugin),
         \A r \in RecIds : Live(r) /\ Doomed(r) => Doomed(r)',
         \A d \in Dooms(stack') : DoomRight(d)'
  PROVE  SentinelInv'
<1>1. ASSUME NEW a \in Arms(stack') PROVE ArmRight(a)'
  <2>1. ArmRight(a)
    BY <1>1 DEF SentinelInv
  <2>. QED  BY <2>1 DEF ArmRight, Live
<1>2. ArmsApart' /\ TokensApart'
  BY DEF SentinelInv, ArmsApart, TokensApart
<1>3. TokensRight'
  BY DEF SentinelInv, TokensRight, Live
<1>4. SentinelsRight'
  <2>1. SUFFICES ASSUME NEW w \in watchers, w.rec # NoRec
                 PROVE  \/ \E a \in Arms(stack') : a.rec = w.rec /\ w \in a.todo
                        \/ Live(w.rec)' /\ w.tok \in recs'[w.rec].tokens
    BY DEF SentinelsRight
  <2>2. \/ \E a \in Arms(stack) : a.rec = w.rec /\ w \in a.todo
        \/ Live(w.rec) /\ w.tok \in recs[w.rec].tokens
    BY <2>1 DEF SentinelInv, SentinelsRight
  <2>. QED  BY <2>2 DEF Live
<1>5. ASSUME NEW r \in RecIds, Live(r)' PROVE RecordRight(r)'
  <2>1. Live(r) /\ recs'[r].tokens = recs[r].tokens /\ recs'[r].plugin = recs[r].plugin
    BY <1>5
  <2>2. RecordRight(r)
    BY <2>1 DEF SentinelInv
  <2>3. ASSUME NEW n, Armed(r, n) PROVE Armed(r, n)'
    <3>1. Kept(r)' = Kept(r)
      BY <2>1 DEF Kept
    <3>2. Passed(r, n)' = Passed(r, n)
      BY <2>1 DEF Passed
    <3>. QED  BY <2>1, <2>3, <3>1, <3>2 DEF Armed
  <2>. QED  BY <2>1, <2>2, <2>3 DEF RecordRight
<1>. QED  BY <1>1, <1>2, <1>3, <1>4, <1>5 DEF SentinelInv

(* A call above calls that are no nearer to arming or teardown.            *)
LEMMA CallSentinels ==
  ASSUME TreeInv, TypeOK', SentinelInv, UNCHANGED watchers, NEW rest, CallArms(rest),
         Arms(rest) = Arms(stack), Dooms(rest) = Dooms(stack)
  PROVE  SentinelInv'
<1>1. \A r \in RecIds : Live(r) /\ Doomed(r) => Doomed(r)'
  BY DoomedKept DEF CallArms
<1>2. \A d \in Dooms(stack') : DoomRight(d)'
  BY DoomsKept DEF CallArms
<1>. QED  BY <1>1, <1>2, SentinelSame DEF CallArms

(* unwatchAll() of one record's tokens removes sentinels of that record.   *)
LEMMA UnwatchOwn ==
  ASSUME SentinelInv, NEW r \in RecIds, Live(r), UnwatchAll(recs[r].tokens)
  PROVE  /\ watchers' \subseteq watchers
         /\ \A w \in watchers : w \in watchers' <=> ~(w.rec = r /\ w.tok \in recs[r].tokens)
<1>1. watchers' = {w \in watchers : w.tok \notin recs[r].tokens}
  BY DEF UnwatchAll
<1>2. ASSUME NEW w \in watchers, w.tok \in recs[r].tokens PROVE w.rec = r
  <2>1. PICK v \in watchers : v.rec = r /\ v.tok = w.tok
    BY <1>2 DEF SentinelInv, TokensRight
  <2>2. v.rec # NoRec
    BY <2>1, ContextAssumption
  <2>3. v = w
    BY <2>1, <2>2 DEF SentinelInv, TokensApart
  <2>. QED  BY <2>1, <2>3
<1>. QED  BY <1>1, <1>2

(* A scope that a call works in is not torn down.                          *)
LEMMA NotDoomedHere ==
  ASSUME TreeInv, NEW op, Running(op), NEW sc \in ScopeIds, WorksIn(Top, sc)
  PROVE  \A d \in Dooms(stack) : d[1] # sc
<1>1. /\ Top.op = op /\ Below \in Seq(Frame)
      /\ \A j \in DOMAIN Below : ~TearsDown(Below[j], sc)
  BY TopRight
<1>2. op # "dtor"
  BY <1>1 DEF WorksIn
<1>3. Dooms(stack) = Dooms(Below)
  BY <1>2, ArmsBelow DEF TreeInv
<1>4. ASSUME NEW i \in DOMAIN Below, Below[i].op = "dtor" PROVE Below[i].scope # sc
  BY <1>1, <1>4 DEF TearsDown
<1>5. \A d \in Dooms(Below) : d[1] # sc
  BY <1>4 DEF Dooms
<1>. QED  BY <1>3, <1>5

(* The view of an arming call at the head of the stack.                    *)
ArmingTop == [at |-> Len(Below), rec |-> Top.rec, ix |-> Top.ix, todo |-> Top.todo]

(* No other call arms the same record.                                     *)
LEMMA ArmingAlone ==
  ASSUME TreeInv, SentinelInv, Running("arm"), Live(Top.rec)
  PROVE  /\ Arms(stack) = Arms(Below) \cup {ArmingTop}
         /\ \A b \in Arms(Below) : b.rec # Top.rec
         /\ ArmRight(ArmingTop)
<1>1. /\ \A a \in Arms(Below) : a.at < Len(Below)
      /\ Arms(stack) = Arms(Below) \cup {ArmingTop}
      /\ Len(Below) \in Nat
  BY ArmsBelow DEF TreeInv, ArmingTop
<1>2. ArmingTop.rec = Top.rec /\ ArmingTop.at = Len(Below)
  BY DEF ArmingTop
<1>3. \A b \in Arms(Below) : b # ArmingTop
  BY <1>1, <1>2
<1>. QED  BY <1>1, <1>2, <1>3 DEF SentinelInv, ArmsApart

(* watch() returns a token nobody has.                                     *)
LEMMA FreshToken ==
  ASSUME NEW t, IsFreshToken(t, TokensInUse)
  PROVE  /\ \A w \in watchers : w.tok # t
         /\ \A r : Live(r) => t \notin recs[r].tokens
<1>1. t \in Tokens /\ t \notin TokensInUse
  BY RegistryAssumption DEF IsFreshToken
<1>2. \A w \in watchers : w.tok \in TokensInUse
  BY DEF TokensInUse, Closures
<1>3. \A r : Live(r) => recs[r].tokens \subseteq TokensInUse
  BY DEF TokensInUse, Live
<1>. QED  BY <1>1, <1>2, <1>3

(* watch() registers a sentinel whose token its record does not have yet;  *)
(* until it does, the call that arms the record holds it.                  *)
LEMMA ArmNextSentinels ==
  ASSUME TreeInv, TypeOK', SentinelInv, ArmNext
  PROVE  SentinelInv'
<1>1. /\ TypeOK /\ ListsRight /\ Running("arm") /\ Top.todo = {} /\ Live(Top.rec)
      /\ Top.ix \in DOMAIN Requires[recs[Top.rec].plugin]
  BY DEF TreeInv, ArmNext
<1>2. PICK r, s : r = Top.rec /\ s = Requires[recs[Top.rec].plugin][Top.ix]
  BY SMTT(40)
<1>3. PICK t \in Tokens :
        /\ IsFreshToken(t, TokensInUse)
        /\ Register([tok |-> t, svc |-> s, rec |-> r, host |-> Top.scope])
        /\ CallWatcher([tok |-> t, svc |-> s, rec |-> r, host |-> Top.scope], Available(s),
             Resume([Top EXCEPT !.todo = {[tok |-> t, svc |-> s, rec |-> r, host |-> Top.scope]}]))
  BY Zenon, <1>2 DEF ArmNext
<1>4. PICK w : w = [tok |-> t, svc |-> s, rec |-> r, host |-> Top.scope]
  OBVIOUS
<1>5. PICK g : g = [Top EXCEPT !.todo = {w}]
  OBVIOUS
<1>6. /\ w.tok = t /\ w.svc = s /\ w.rec = r /\ watchers' = watchers \cup {w}
      /\ CallWatcher(w, Available(s), Resume(g))
  BY <1>3, <1>4, <1>5 DEF Register
<1>7. w \in Watcher
  <2>1. w \in watchers'
    BY <1>6
  <2>. QED  BY <2>1 DEF TypeOK
<1>8. g \in Frame /\ g.op = "arm" /\ g.rec = r /\ g.ix = Top.ix /\ g.todo = {w}
  <2>1. Top \in Frame /\ Top.op = "arm"
    BY <1>1, RunningStack
  <2>. QED  BY <1>2, <1>5, <1>7, <2>1 DEF Frame
<1>9. PICK a1 : a1 = [at |-> Len(Below), rec |-> r, ix |-> Top.ix, todo |-> {w}]
  OBVIOUS
<1>10. /\ Resume(g) \in Seq(Frame) /\ Arms(Resume(g)) = Arms(Below) \cup {a1}
       /\ Dooms(Resume(g)) = Dooms(stack)
  <2>1. /\ Resume(g) \in Seq(Frame) /\ Dooms(Resume(g)) = Dooms(Below)
        /\ Arms(Resume(g)) = Arms(Below) \cup {[at |-> Len(Below), rec |-> g.rec, ix |-> g.ix, todo |-> g.todo]}
    BY <1>1, <1>8, ArmsResumed
  <2>2. Dooms(Below) = Dooms(stack)
    BY <1>1, ArmsBelow
  <2>. QED  BY <1>8, <1>9, <2>1, <2>2
<1>11. CallArms(Resume(g))
  <2>1. PICK v \in BOOLEAN : v = Available(s)
    BY DEF Available
  <2>. QED  BY <1>1, <1>6, <1>7, <1>10, <2>1, CallWatcherArms
<1>12. /\ Arms(stack') = Arms(Below) \cup {a1}
       /\ \A q \in RecIds : (Live(q)' <=> Live(q))
            /\ (Live(q) => recs'[q].tokens = recs[q].tokens /\ recs'[q].plugin = recs[q].plugin)
       /\ \A q \in RecIds : Doomed(q) => Doomed(q)'
       /\ \A d \in Dooms(stack') : DoomRight(d)'
  <2>1. \A q \in RecIds : Doomed(q) => Doomed(q)'
    BY <1>10, <1>11, DoomedKept DEF CallArms
  <2>2. \A d \in Dooms(stack') : DoomRight(d)'
    BY <1>10, <1>11, DoomsKept DEF CallArms
  <2>. QED  BY <1>10, <1>11, <2>1, <2>2 DEF CallArms
<1>13. PICK a0 : a0 = ArmingTop
  OBVIOUS
<1>14. /\ Arms(stack) = Arms(Below) \cup {a0} /\ a0.rec = r /\ a0.ix = Top.ix /\ a0.todo = {}
       /\ \A b \in Arms(Below) : b.rec # r
       /\ ArmRight(a0)
  BY <1>1, <1>2, <1>13, ArmingAlone DEF ArmingTop
<1>15. /\ \A v \in watchers : v.tok # t
       /\ \A q : Live(q) => t \notin recs[q].tokens
  BY <1>3, FreshToken
<1>16. r \in RecIds /\ r # NoRec /\ Live(r)
  BY <1>1, <1>2, ContextAssumption DEF Live
<1>17. a1.rec = r /\ a1.ix = Top.ix /\ a1.todo = {w}
  BY <1>9
<1>18. ASSUME NEW a \in Arms(stack') PROVE ArmRight(a)'
  <2>1. CASE a \in Arms(Below)
    <3>1. ArmRight(a)
      BY <1>14, <2>1 DEF SentinelInv
    <3>. QED  BY <1>6, <1>12, <3>1 DEF ArmRight, Live
  <2>2. CASE a = a1
    <3>1. a.ix \in 1..(Len(Requires[recs[r].plugin]) + 1) /\ a.ix \in DOMAIN Requires[recs[r].plugin]
      BY <1>1, <1>2, <1>14, <1>16, <1>17, <2>2 DEF ArmRight
    <3>2. recs'[r].tokens = recs[r].tokens /\ recs'[r].plugin = recs[r].plugin
      BY <1>12, <1>16
    <3>3. w \in watchers' /\ w.tok \notin recs'[r].tokens /\ w.svc = Requires[recs[r].plugin][a.ix]
      BY <1>2, <1>6, <1>15, <1>16, <1>17, <2>2, <3>2
    <3>. QED  BY <1>6, <1>17, <2>2, <3>1, <3>2, <3>3 DEF ArmRight
  <2>. QED  BY <1>12, <1>18, <2>1, <2>2
<1>19. ArmsApart'
  BY <1>12, <1>14, <1>17 DEF SentinelInv, ArmsApart
<1>20. TokensApart'
  <2>1. SUFFICES ASSUME NEW v \in watchers', NEW u \in watchers', v.rec # NoRec, v.tok = u.tok
                 PROVE  v = u
    BY DEF TokensApart
  <2>. QED  BY <1>6, <1>15, <2>1 DEF SentinelInv, TokensApart
<1>21. TokensRight'
  BY <1>6, <1>12 DEF SentinelInv, TokensRight
<1>22. SentinelsRight'
  <2>1. SUFFICES ASSUME NEW v \in watchers', v.rec # NoRec
                 PROVE  \/ \E a \in Arms(stack') : a.rec = v.rec /\ v \in a.todo
                        \/ Live(v.rec)' /\ v.tok \in recs'[v.rec].tokens
    BY DEF SentinelsRight
  <2>2. CASE v = w
    BY <1>6, <1>12, <1>17, <2>2
  <2>3. CASE v \in watchers
    <3>1. \/ \E a \in Arms(stack) : a.rec = v.rec /\ v \in a.todo
          \/ Live(v.rec) /\ v.tok \in recs[v.rec].tokens
      BY <2>1, <2>3 DEF SentinelInv, SentinelsRight
    <3>. QED  BY <1>12, <1>14, <3>1 DEF Live
  <2>. QED  BY <1>6, <2>2, <2>3
<1>23. ASSUME NEW q \in RecIds, Live(q)' PROVE RecordRight(q)'
  <2>1. Live(q) /\ recs'[q].tokens = recs[q].tokens /\ recs'[q].plugin = recs[q].plugin
    BY <1>12, <1>23
  <2>2. RecordRight(q)
    BY <2>1 DEF SentinelInv
  <2>3. ASSUME NEW n, Armed(q, n) PROVE Armed(q, n)'
    <3>1. Kept(q)' = Kept(q)
      BY <1>6, <1>15, <2>1 DEF Kept
    <3>2. Passed(q, n)' = Passed(q, n)
      BY <2>1 DEF Passed
    <3>. QED  BY <2>1, <2>3, <3>1, <3>2 DEF Armed
  <2>4. CASE Doomed(q)
    BY <1>12, <2>4 DEF RecordRight
  <2>5. CASE \E a \in Arms(stack) : a.rec = q /\ Armed(q, a.ix - 1)
    <3>1. PICK a \in Arms(stack) : a.rec = q /\ Armed(q, a.ix - 1)
      BY <2>5
    <3>2. Armed(q, a.ix - 1)'
      BY <2>3, <3>1
    <3>3. \E b \in Arms(stack') : b.rec = a.rec /\ b.ix = a.ix
      BY <1>12, <1>14, <1>17
    <3>. QED  BY <3>1, <3>2, <3>3 DEF RecordRight
  <2>6. CASE (\A a \in Arms(stack) : a.rec # q) /\ Armed(q, Len(Requires[recs[q].plugin]))
    <3>1. Armed(q, Len(Requires[recs[q].plugin]))'
      <4>1. PICK n : n = Len(Requires[recs[q].plugin])
        OBVIOUS
      <4>2. Armed(q, n)' /\ n = Len(Requires[recs'[q].plugin])
        BY <2>1, <2>3, <2>6, <4>1
      <4>. QED  BY <4>2
    <3>2. \A a \in Arms(stack') : a.rec # q
      BY <1>12, <1>14, <1>17, <2>6
    <3>. QED  BY <3>1, <3>2 DEF RecordRight
  <2>. QED  BY <2>2, <2>4, <2>5, <2>6 DEF RecordRight
<1>. QED  BY <1>12, <1>18, <1>19, <1>20, <1>21, <1>22, <1>23 DEF SentinelInv

(* The record keeps the token: one more requirement has its sentinel.      *)
LEMMA ArmTokenSentinels ==
  ASSUME TreeInv, TypeOK', SentinelInv, ArmToken
  PROVE  SentinelInv'
<1>1. /\ TypeOK /\ ListsRight /\ Running("arm") /\ Top.todo # {} /\ Live(Top.rec)
      /\ UNCHANGED <<watchers, scopes>>
  BY DEF TreeInv, ArmToken
<1>2. PICK r, a0 : r = Top.rec /\ a0 = ArmingTop
  OBVIOUS
<1>3. /\ Arms(stack) = Arms(Below) \cup {a0} /\ a0.rec = r /\ a0.ix = Top.ix /\ a0.todo = Top.todo
      /\ \A b \in Arms(Below) : b.rec # r
      /\ ArmRight(a0)
  BY <1>1, <1>2, ArmingAlone DEF ArmingTop
<1>4. PICK w \in watchers :
        /\ Top.todo = {w} /\ w.rec = r /\ w.tok \notin recs[r].tokens
        /\ Top.ix \in DOMAIN Requires[recs[r].plugin]
        /\ w.svc = Requires[recs[r].plugin][Top.ix]
  BY <1>1, <1>2, <1>3 DEF ArmRight
<1>5. /\ r \in RecIds /\ r # NoRec /\ Live(r) /\ recs[r] \in LoadRecord
      /\ recs \in [RecIds -> LoadRecord \cup {NoRec}]
  BY <1>1, <1>2, ContextAssumption, LiveRecord DEF Live, TypeOK
<1>6. PICK g, a1 : /\ g = [Top EXCEPT !.todo = {}, !.ix = Top.ix + 1]
                   /\ a1 = [at |-> Len(Below), rec |-> r, ix |-> Top.ix + 1, todo |-> {}]
  OBVIOUS
<1>7. Top \in Frame /\ Top.op = "arm" /\ Top.ix \in Nat /\ Top.scope \in ScopeIds \cup {NoScope}
  BY <1>1, RunningStack DEF Frame
<1>8. g \in Frame /\ g.op = "arm" /\ g.rec = r /\ g.ix = Top.ix + 1 /\ g.todo = {}
  <2>1. PICK n \in Nat : n = Top.ix + 1
    BY <1>7
  <2>2. g = [Top EXCEPT !.todo = {}, !.ix = n]
    BY <1>6, <2>1
  <2>3. g \in Frame
    BY <1>7, <2>2 DEF Frame
  <2>4. g.op = Top.op /\ g.rec = Top.rec /\ g.ix = n /\ g.todo = {}
    BY <1>7, <2>2 DEF Frame
  <2>. QED  BY <1>2, <1>7, <2>1, <2>3, <2>4
<1>9. Arms(stack') = Arms(Below) \cup {a1} /\ Dooms(stack') = Dooms(stack)
  <2>1. stack' = Resume(g)
    BY <1>6 DEF ArmToken
  <2>2. /\ Dooms(Resume(g)) = Dooms(Below)
        /\ Arms(Resume(g)) = Arms(Below) \cup {[at |-> Len(Below), rec |-> g.rec, ix |-> g.ix, todo |-> g.todo]}
    BY <1>1, <1>8, ArmsResumed
  <2>3. Dooms(Below) = Dooms(stack)
    BY <1>1, ArmsBelow
  <2>. QED  BY <1>6, <1>8, <2>1, <2>2, <2>3
<1>10. /\ recs'[r].tokens = recs[r].tokens \cup {w.tok} /\ recs'[r].plugin = recs[r].plugin
       /\ \A q \in RecIds : q # r => recs'[q] = recs[q]
       /\ \A q \in RecIds : Live(q)' <=> Live(q)
  <2>1. PICK toks, rec : /\ toks = recs[r].tokens \cup {w.tok}
                         /\ rec = [recs[r] EXCEPT !.tokens = toks]
    OBVIOUS
  <2>2. {v.tok : v \in Top.todo} = {w.tok}
    BY <1>4
  <2>3. recs' = [recs EXCEPT ![r] = rec]
    BY <1>2, <1>5, <2>1, <2>2 DEF ArmToken
  <2>4. rec.tokens = toks /\ rec.plugin = recs[r].plugin
    BY <1>5, <2>1 DEF LoadRecord
  <2>5. recs'[r] = rec /\ \A q \in RecIds : q # r => recs'[q] = recs[q]
    BY <1>5, <2>3
  <2>6. Live(r)'
    <3>1. w.tok \in Tokens
      BY <1>1 DEF TypeOK, Watcher
    <3>2. rec \in LoadRecord
      BY <1>5, <2>1, <3>1 DEF LoadRecord
    <3>. QED  BY <1>5, <2>5, <3>2, NullAssumption DEF Live
  <2>. QED  BY <1>5, <2>1, <2>4, <2>5, <2>6 DEF Live
<1>11. a1.rec = r /\ a1.ix = Top.ix + 1 /\ a1.todo = {}
  BY <1>6
<1>12. ASSUME NEW a \in Arms(stack') PROVE ArmRight(a)'
  <2>1. CASE a \in Arms(Below)
    <3>1. ArmRight(a) /\ a.rec # r
      BY <1>3, <2>1 DEF SentinelInv
    <3>. QED  BY <1>1, <1>10, <3>1 DEF ArmRight, Live
  <2>2. CASE a = a1
    <3>1. Requires[recs[r].plugin] \in Seq(Services)
      BY <1>5, ContextAssumption DEF LoadRecord
    <3>2. Top.ix + 1 \in 1..(Len(Requires[recs[r].plugin]) + 1)
      BY SMTT(40), <1>4, <3>1
    <3>. QED  BY <1>10, <1>11, <2>2, <3>2 DEF ArmRight
  <2>. QED  BY <1>9, <1>12, <2>1, <2>2
<1>13. ArmsApart'
  BY <1>3, <1>9, <1>11 DEF SentinelInv, ArmsApart
<1>14. TokensApart'
  BY <1>1 DEF SentinelInv, TokensApart
<1>15. TokensRight'
  BY <1>1, <1>4, <1>10 DEF SentinelInv, TokensRight
<1>16. SentinelsRight'
  <2>1. SUFFICES ASSUME NEW v \in watchers, v.rec # NoRec
                 PROVE  \/ \E a \in Arms(stack') : a.rec = v.rec /\ v \in a.todo
                        \/ Live(v.rec)' /\ v.tok \in recs'[v.rec].tokens
    BY <1>1 DEF SentinelsRight
  <2>2. CASE v = w
    BY <1>4, <1>5, <1>10, <2>2
  <2>3. CASE v # w
    <3>1. \/ \E a \in Arms(stack) : a.rec = v.rec /\ v \in a.todo
          \/ Live(v.rec) /\ v.tok \in recs[v.rec].tokens
      BY <2>1, <2>3 DEF SentinelInv, SentinelsRight
    <3>2. CASE \E a \in Arms(stack) : a.rec = v.rec /\ v \in a.todo
      BY <1>3, <1>4, <1>9, <2>3, <3>2
    <3>3. CASE Live(v.rec) /\ v.tok \in recs[v.rec].tokens
      BY <1>10, <3>3 DEF Live
    <3>. QED  BY <3>1, <3>2, <3>3
  <2>. QED  BY <2>2, <2>3
<1>17. \A q \in RecIds : Doomed(q) => Doomed(q)'
  BY <1>1, <1>9 DEF Doomed, Exists
<1>18. ASSUME NEW q \in RecIds, q # r, Live(q)' PROVE RecordRight(q)'
  <2>1. Live(q) /\ recs'[q] = recs[q] /\ RecordRight(q)
    BY <1>10, <1>18 DEF SentinelInv
  <2>2. ASSUME NEW n, Armed(q, n) PROVE Armed(q, n)'
    <3>1. Kept(q)' = Kept(q)
      BY <1>1, <2>1 DEF Kept
    <3>2. Passed(q, n)' = Passed(q, n)
      BY <2>1 DEF Passed
    <3>. QED  BY <2>1, <2>2, <3>1, <3>2 DEF Armed
  <2>3. CASE Doomed(q)
    BY <1>17, <2>3 DEF RecordRight
  <2>4. CASE \E a \in Arms(stack) : a.rec = q /\ Armed(q, a.ix - 1)
    BY <1>3, <1>9, <1>18, <2>2, <2>4 DEF RecordRight
  <2>5. CASE (\A a \in Arms(stack) : a.rec # q) /\ Armed(q, Len(Requires[recs[q].plugin]))
    <3>1. Armed(q, Len(Requires[recs[q].plugin]))'
      <4>1. PICK n : n = Len(Requires[recs[q].plugin])
        OBVIOUS
      <4>2. Armed(q, n)' /\ n = Len(Requires[recs'[q].plugin])
        BY <2>1, <2>2, <2>5, <4>1
      <4>. QED  BY <4>2
    <3>2. \A a \in Arms(stack') : a.rec # q
      BY <1>3, <1>9, <1>11, <1>18, <2>5
    <3>. QED  BY <3>1, <3>2 DEF RecordRight
  <2>. QED  BY <2>1, <2>3, <2>4, <2>5 DEF RecordRight
<1>19. RecordRight(r)'
  <2>1. RecordRight(r) /\ a0 \in Arms(stack) /\ a1 \in Arms(stack')
    BY <1>3, <1>5, <1>9 DEF SentinelInv
  <2>2. CASE Doomed(r)
    BY <1>5, <1>17, <2>2 DEF RecordRight
  <2>3. CASE Armed(r, Top.ix - 1)
    <3>. PICK n : n = Top.ix
      OBVIOUS
    <3>1. Kept(r)' = Kept(r) \cup {w}
      <4>1. \A v \in watchers : v.rec = r /\ v.tok = w.tok => v = w
        BY <1>5 DEF SentinelInv, TokensApart
      <4>. QED  BY <1>1, <1>4, <1>10, <4>1 DEF Kept
    <3>2. Passed(r, n)' = Passed(r, n - 1) \cup {w.svc}
      <4>1. n \in Nat /\ n >= 1
        <5>1. Requires[recs[r].plugin] \in Seq(Services)
          BY <1>5, ContextAssumption DEF LoadRecord
        <5>. QED  BY <1>4, <5>1
      <4>2. \A j : j \in 1..n <=> (j \in 1..(n - 1) \/ j = n)
        BY <4>1
      <4>3. Passed(r, n)' = {Requires[recs[r].plugin][j] : j \in 1..n}
        BY <1>10 DEF Passed
      <4>4. w.svc = Requires[recs[r].plugin][n]
        BY <1>4
      <4>. QED  BY <4>2, <4>3, <4>4 DEF Passed
    <3>3. {v.svc : v \in Kept(r) \cup {w}} = Passed(r, n - 1) \cup {w.svc}
      BY <2>3 DEF Armed
    <3>4. IsFiniteSet(recs[r].tokens \cup {w.tok}) /\ Cardinality(recs[r].tokens \cup {w.tok}) = n
      <4>1. IsFiniteSet(recs[r].tokens) /\ Cardinality(recs[r].tokens) = Top.ix - 1
        BY <2>3 DEF Armed
      <4>2. /\ IsFiniteSet(recs[r].tokens \cup {w.tok})
            /\ Cardinality(recs[r].tokens \cup {w.tok}) = Cardinality(recs[r].tokens) + 1
        BY <1>4, <4>1, FS_AddElement
      <4>. QED  BY <1>7, <4>1, <4>2
    <3>5. Armed(r, n)'
      <4>2. {v.svc : v \in Kept(r)'} = Passed(r, n)'
        BY <3>1, <3>2, <3>3
      <4>3. IsFiniteSet(recs'[r].tokens) /\ Cardinality(recs'[r].tokens) = n
        BY <1>10, <3>4
      <4>. QED  BY <4>2, <4>3 DEF Armed
    <3>6. a1.ix - 1 = n
      BY <1>7, <1>11
    <3>7. Armed(r, a1.ix - 1)'
      BY <3>5, <3>6
    <3>. QED  BY <1>11, <2>1, <3>7 DEF RecordRight
  <2>4. Doomed(r) \/ Armed(r, Top.ix - 1)
    BY <1>3, <2>1 DEF RecordRight
  <2>. QED  BY <2>2, <2>3, <2>4
<1>20. ASSUME NEW d \in Dooms(stack') PROVE DoomRight(d)'
  <2>1. DoomRight(d) /\ d \in Dooms(stack)
    BY <1>9, <1>20 DEF SentinelInv
  <2>2. Exists(d[1]) => d[1] # recs[r].host
    <3>1. PICK sc : sc = d[1]
      OBVIOUS
    <3>2. SUFFICES ASSUME Exists(sc), sc = recs[r].host PROVE FALSE
      BY <3>1
    <3>3. Top.scope = sc
      BY <1>1, <1>2, <1>7, <3>2, TopRight DEF RightFrames, PointersRight
    <3>4. WorksIn(Top, sc) /\ sc \in ScopeIds
      BY <1>7, <3>2, <3>3 DEF WorksIn, Exists
    <3>5. \A e \in Dooms(stack) : e[1] # sc
      BY <1>1, <3>4, NotDoomedHere
    <3>. QED  BY <2>1, <3>1, <3>5
  <2>3. Exists(d[1]) => ListRight(d[1])
    BY <1>1 DEF ListsRight, Exists
  <2>4. Exists(d[1]) => \A k \in DOMAIN scopes[d[1]].records :
           /\ scopes[d[1]].records[k] \in RecIds
           /\ scopes[d[1]].records[k] # r
    BY <2>2, <2>3 DEF ListRight, Live
  <2>. QED  BY <1>1, <1>10, <2>1, <2>4 DEF DoomRight, Exists
<1>. QED  BY <1>12, <1>13, <1>14, <1>15, <1>16, <1>18, <1>19, <1>20 DEF SentinelInv

(* When the loop is done, the record has the sentinels of all it requires. *)
LEMMA ArmStartsSentinels ==
  ASSUME TreeInv, TypeOK', SentinelInv, ArmStarts
  PROVE  SentinelInv'
<1>1. /\ TypeOK /\ ListsRight /\ Running("arm") /\ Top.todo = {} /\ Live(Top.rec)
      /\ Top.ix \notin DOMAIN Requires[recs[Top.rec].plugin]
      /\ EnsureStarted(Top.rec, Below) /\ UNCHANGED watchers
  BY DEF TreeInv, ArmStarts
<1>2. PICK r, a0 : r = Top.rec /\ a0 = ArmingTop
  OBVIOUS
<1>3. /\ Arms(stack) = Arms(Below) \cup {a0} /\ a0.rec = r /\ a0.ix = Top.ix /\ a0.todo = {}
      /\ \A b \in Arms(Below) : b.rec # r
      /\ ArmRight(a0)
  BY <1>1, <1>2, ArmingAlone DEF ArmingTop
<1>4. r \in RecIds /\ Live(r) /\ recs[r] \in LoadRecord
  BY <1>1, <1>2, LiveRecord DEF Live
<1>5. Top.ix - 1 = Len(Requires[recs[r].plugin])
  <2>1. Requires[recs[r].plugin] \in Seq(Services)
    BY <1>4, ContextAssumption DEF LoadRecord
  <2>2. Top.ix \in 1..(Len(Requires[recs[r].plugin]) + 1)
    BY <1>3, <1>4 DEF ArmRight
  <2>. QED  BY <1>1, <1>2, <2>1, <2>2
<1>6. Below \in Seq(Frame) /\ Dooms(Below) = Dooms(stack)
  BY <1>1, ArmsBelow
<1>7. CallArms(Below)
  BY <1>1, <1>6, StartArms
<1>8. /\ Arms(stack') = Arms(Below)
      /\ \A q \in RecIds : (Live(q)' <=> Live(q))
           /\ (Live(q) => recs'[q].tokens = recs[q].tokens /\ recs'[q].plugin = recs[q].plugin)
  BY <1>7 DEF CallArms
<1>9. \A q \in RecIds : Doomed(q) => Doomed(q)'
  BY <1>6, <1>7, DoomedKept DEF CallArms
<1>10. \A d \in Dooms(stack') : DoomRight(d)'
  BY <1>6, <1>7, DoomsKept DEF CallArms
<1>11. ASSUME NEW a \in Arms(stack') PROVE ArmRight(a)'
  <2>1. ArmRight(a)
    BY <1>3, <1>8, <1>11 DEF SentinelInv
  <2>. QED  BY <1>1, <1>8, <2>1 DEF ArmRight, Live
<1>12. ArmsApart' /\ TokensApart'
  BY <1>1, <1>3, <1>8 DEF SentinelInv, ArmsApart, TokensApart
<1>13. TokensRight'
  BY <1>1, <1>8 DEF SentinelInv, TokensRight, Live
<1>14. SentinelsRight'
  <2>1. SUFFICES ASSUME NEW v \in watchers, v.rec # NoRec
                 PROVE  \/ \E a \in Arms(stack') : a.rec = v.rec /\ v \in a.todo
                        \/ Live(v.rec)' /\ v.tok \in recs'[v.rec].tokens
    BY <1>1 DEF SentinelsRight
  <2>2. \/ \E a \in Arms(stack) : a.rec = v.rec /\ v \in a.todo
        \/ Live(v.rec) /\ v.tok \in recs[v.rec].tokens
    BY <2>1 DEF SentinelInv, SentinelsRight
  <2>. QED  BY <1>3, <1>8, <2>2 DEF Live
<1>15. ASSUME NEW q \in RecIds, Live(q)' PROVE RecordRight(q)'
  <2>1. Live(q) /\ recs'[q].tokens = recs[q].tokens /\ recs'[q].plugin = recs[q].plugin
    BY <1>8, <1>15
  <2>2. RecordRight(q)
    BY <2>1 DEF SentinelInv
  <2>3. ASSUME NEW n, Armed(q, n) PROVE Armed(q, n)'
    <3>1. Kept(q)' = Kept(q)
      BY <1>1, <2>1 DEF Kept
    <3>2. Passed(q, n)' = Passed(q, n)
      BY <2>1 DEF Passed
    <3>. QED  BY <2>1, <2>3, <3>1, <3>2 DEF Armed
  <2>4. CASE Doomed(q)
    BY <1>9, <2>4 DEF RecordRight
  <2>5. CASE \E a \in Arms(Below) : a.rec = q /\ Armed(q, a.ix - 1)
    BY <1>8, <2>3, <2>5 DEF RecordRight
  <2>6. CASE (\A a \in Arms(Below) : a.rec # q) /\ Armed(q, Len(Requires[recs[q].plugin]))
    <3>1. Armed(q, Len(Requires[recs[q].plugin]))'
      <4>1. PICK n : n = Len(Requires[recs[q].plugin])
        OBVIOUS
      <4>2. Armed(q, n)' /\ n = Len(Requires[recs'[q].plugin])
        BY <2>1, <2>3, <2>6, <4>1
      <4>. QED  BY <4>2
    <3>. QED  BY <1>8, <2>6, <3>1 DEF RecordRight
  <2>7. \/ Doomed(q) \/ \E a \in Arms(Below) : a.rec = q /\ Armed(q, a.ix - 1)
        \/ (\A a \in Arms(Below) : a.rec # q) /\ Armed(q, Len(Requires[recs[q].plugin]))
    BY <1>3, <1>5, <2>2 DEF RecordRight
  <2>. QED  BY <2>4, <2>5, <2>6, <2>7
<1>. QED  BY <1>10, <1>11, <1>12, <1>13, <1>14, <1>15 DEF SentinelInv

(* addRecord(): the new record has no sentinel, and is about to be armed.  *)
LEMMA AddSentinels ==
  ASSUME TreeInv, TypeOK', SentinelInv, NEW sc, Exists(sc), NEW p \in Plugins,
         NEW rest \in Seq(Frame), AddRecord(sc, p, rest),
         Arms(rest) = Arms(stack), Dooms(rest) = Dooms(stack),
         \A d \in Dooms(stack) : d[1] # sc
  PROVE  SentinelInv'
<1>1. /\ TypeOK /\ ListsRight /\ sc \in ScopeIds /\ scopes[sc] \in Scope
      /\ scopes \in [ScopeIds -> Scope \cup {Gone}]
      /\ recs \in [RecIds -> LoadRecord \cup {NoRec}]
  BY ExistingScope DEF TreeInv, TypeOK
<1>. DEFINE new == [plugin |-> p, host |-> sc, state |-> "Deferred", scope |-> NoScope,
                    tokens |-> {}, inst |-> 0, lib |-> Form[p] = "dynamic", uses |-> {}]
<1>2. PICK r \in RecIds :
        /\ IsFresh(r, RecIds, UsedRecs)
        /\ recs' = [recs EXCEPT ![r] = new]
        /\ scopes' = [scopes EXCEPT ![sc].records = Append(@, r)]
        /\ stack' = <<[Call("arm", r, sc) EXCEPT !.ix = 1]>> \o Invalidate(rest, sc, 1)
        /\ UNCHANGED watchers
  BY DEF AddRecord
<1>3. /\ ~Live(r) /\ r \notin UsedRecs /\ r # NoRec
      /\ \A w \in watchers : w.rec # r
      /\ \A a \in Arms(stack) : a.rec # r
  <2>1. r \notin UsedRecs
    BY <1>2 DEF IsFresh
  <2>2. \A a \in Arms(stack) : a.rec \in UsedRecs
    BY DEF Arms, UsedRecs
  <2>. QED  BY <2>1, <2>2, LiveKnown, ContextAssumption
<1>4. /\ recs'[r].plugin = p /\ recs'[r].tokens = {} /\ Live(r)'
      /\ \A q \in RecIds \ {r} : recs'[q] = recs[q]
  <2>1. new.plugin = p /\ new.tokens = {} /\ new \in LoadRecord
    BY <1>1 DEF LoadRecord, States
  <2>. HIDE DEF new
  <2>2. recs'[r] = new /\ \A q \in RecIds \ {r} : recs'[q] = recs[q]
    BY <1>1, <1>2
  <2>. QED  BY <2>1, <2>2, NullAssumption DEF Live
<1>. HIDE DEF new
<1>5. /\ \A s \in ScopeIds \ {sc} : scopes'[s] = scopes[s]
      /\ scopes'[sc].records = Append(scopes[sc].records, r)
  BY <1>1, <1>2 DEF Scope
<1>6. PICK x : x = [Call("arm", r, sc) EXCEPT !.ix = 1]
  OBVIOUS
<1>7. x \in Frame /\ x.op = "arm" /\ x.rec = r /\ x.ix = 1 /\ x.todo = {}
  <2>1. Call("arm", r, sc) \in Frame
    BY <1>1, CallType DEF Ops
  <2>. QED  BY <1>6, <2>1 DEF Call, Frame
<1>8. PICK a1 : a1 = [at |-> Len(rest), rec |-> r, ix |-> 1, todo |-> {}]
  OBVIOUS
<1>9. Arms(stack') = Arms(stack) \cup {a1} /\ Dooms(stack') = Dooms(stack)
  <2>1. PICK q \in Seq(Frame) : q = Invalidate(rest, sc, 1)
    BY InvalidateType
  <2>2. Arms(q) = Arms(rest) /\ Dooms(q) = Dooms(rest) /\ Len(q) = Len(rest)
    BY <2>1, ArmsMarked
  <2>3. /\ Arms(<<x>> \o q) = Arms(q) \cup {[at |-> Len(q), rec |-> x.rec, ix |-> x.ix, todo |-> x.todo]}
        /\ Dooms(<<x>> \o q) = Dooms(q)
    <3>1. x \in Frame /\ x.op = "arm" /\ x.op # "dtor"
      BY <1>7
    <3>2. /\ x.op = "arm" => Arms(<<x>> \o q) = Arms(q) \cup
               {[at |-> Len(q), rec |-> x.rec, ix |-> x.ix, todo |-> x.todo]}
          /\ x.op # "dtor" => Dooms(<<x>> \o q) = Dooms(q)
      BY <3>1, ArmsPushed
    <3>. QED  BY <3>1, <3>2
  <2>4. stack' = <<x>> \o q
    BY <1>2, <1>6, <2>1
  <2>. QED  BY <1>7, <1>8, <2>2, <2>3, <2>4
<1>10. a1.rec = r /\ a1.ix = 1 /\ a1.todo = {}
  BY <1>8
<1>11. \A q \in RecIds : q # r => (Live(q)' <=> Live(q)) /\ recs'[q] = recs[q]
  BY <1>4 DEF Live
<1>12. ASSUME NEW a \in Arms(stack') PROVE ArmRight(a)'
  <2>1. CASE a = a1
    <3>1. Requires[p] \in Seq(Services)
      BY ContextAssumption
    <3>2. 1 \in 1..(Len(Requires[p]) + 1)
      BY <3>1
    <3>. QED  BY <1>4, <1>10, <2>1, <3>2 DEF ArmRight
  <2>2. CASE a \in Arms(stack)
    <3>1. ArmRight(a) /\ a.rec # r
      BY <1>3, <2>2 DEF SentinelInv
    <3>. QED  BY <1>2, <1>11, <3>1 DEF ArmRight, Live
  <2>. QED  BY <1>9, <2>1, <2>2
<1>13. ArmsApart' /\ TokensApart'
  BY <1>2, <1>3, <1>9, <1>10 DEF SentinelInv, ArmsApart, TokensApart
<1>14. TokensRight'
  BY <1>2, <1>4, <1>11 DEF SentinelInv, TokensRight
<1>15. SentinelsRight'
  <2>1. SUFFICES ASSUME NEW w \in watchers, w.rec # NoRec
                 PROVE  \/ \E a \in Arms(stack') : a.rec = w.rec /\ w \in a.todo
                        \/ Live(w.rec)' /\ w.tok \in recs'[w.rec].tokens
    BY <1>2 DEF SentinelsRight
  <2>2. \/ \E a \in Arms(stack) : a.rec = w.rec /\ w \in a.todo
        \/ Live(w.rec) /\ w.tok \in recs[w.rec].tokens
    BY <2>1 DEF SentinelInv, SentinelsRight
  <2>. QED  BY <1>3, <1>9, <1>11, <2>2 DEF Live
<1>16. ASSUME NEW q \in RecIds, Doomed(q) PROVE Doomed(q)'
  <2>1. PICK d \in Dooms(stack) : Exists(d[1]) /\ q \in ToSet(scopes[d[1]].records)
    BY <1>16 DEF Doomed
  <2>2. PICK s : s = d[1]
    OBVIOUS
  <2>3. s \in ScopeIds /\ s # sc /\ scopes'[s] = scopes[s] /\ d \in Dooms(stack')
    BY <1>5, <1>9, <2>1, <2>2 DEF Exists
  <2>4. Exists(d[1])' /\ q \in ToSet(scopes'[d[1]].records)
    BY <2>1, <2>2, <2>3 DEF Exists
  <2>. QED  BY <2>3, <2>4 DEF Doomed
<1>17. RecordRight(r)'
  <2>1. Kept(r)' = {}
    BY <1>2, <1>3 DEF Kept
  <2>2. Passed(r, 0)' = {}
    BY DEF Passed
  <2>3. IsFiniteSet({}) /\ Cardinality({}) = 0
    BY FS_EmptySet
  <2>4. Armed(r, 0)'
    BY <1>4, <2>1, <2>2, <2>3 DEF Armed
  <2>5. a1 \in Arms(stack') /\ a1.rec = r /\ a1.ix - 1 = 0
    BY <1>9, <1>10
  <2>6. Armed(r, a1.ix - 1)'
    BY <2>4, <2>5
  <2>. QED  BY <2>5, <2>6 DEF RecordRight
<1>18. ASSUME NEW q \in RecIds, q # r, Live(q)' PROVE RecordRight(q)'
  <2>1. Live(q) /\ recs'[q] = recs[q] /\ RecordRight(q)
    BY <1>11, <1>18 DEF SentinelInv
  <2>2. ASSUME NEW n, Armed(q, n) PROVE Armed(q, n)'
    <3>1. Kept(q)' = Kept(q)
      BY <1>2, <2>1 DEF Kept
    <3>2. Passed(q, n)' = Passed(q, n)
      BY <2>1 DEF Passed
    <3>. QED  BY <2>1, <2>2, <3>1, <3>2 DEF Armed
  <2>3. CASE Doomed(q)
    BY <1>16, <2>3 DEF RecordRight
  <2>4. CASE \E a \in Arms(stack) : a.rec = q /\ Armed(q, a.ix - 1)
    BY <1>9, <2>2, <2>4 DEF RecordRight
  <2>5. CASE (\A a \in Arms(stack) : a.rec # q) /\ Armed(q, Len(Requires[recs[q].plugin]))
    <3>1. PICK n : n = Len(Requires[recs[q].plugin])
      OBVIOUS
    <3>2. Armed(q, n)' /\ n = Len(Requires[recs'[q].plugin])
      BY <2>1, <2>2, <2>5, <3>1
    <3>3. Armed(q, Len(Requires[recs[q].plugin]))'
      BY <3>2
    <3>4. \A a \in Arms(stack') : a.rec # q
      BY <1>9, <1>10, <1>18, <2>5
    <3>. QED  BY <3>3, <3>4 DEF RecordRight
  <2>. QED  BY <2>1, <2>3, <2>4, <2>5 DEF RecordRight
<1>19. ASSUME NEW d \in Dooms(stack') PROVE DoomRight(d)'
  <2>1. DoomRight(d) /\ d[1] # sc
    BY <1>9, <1>19 DEF SentinelInv
  <2>2. PICK s : s = d[1]
    OBVIOUS
  <2>3. SUFFICES ASSUME Exists(s)', NEW k \in DOMAIN scopes'[s].records, k > d[2]
                 PROVE  recs'[scopes'[s].records[k]].tokens = {}
    BY <2>2 DEF DoomRight
  <2>4. scopes'[s] = scopes[s] /\ Exists(s) /\ s \in ScopeIds
    BY <1>5, <2>1, <2>2, <2>3 DEF Exists
  <2>5. recs[scopes[s].records[k]].tokens = {}
    BY <2>1, <2>2, <2>3, <2>4 DEF DoomRight
  <2>6. Live(scopes[s].records[k])
    BY <1>1, <2>3, <2>4 DEF ListsRight, ListRight
  <2>7. scopes[s].records[k] \in RecIds /\ scopes[s].records[k] # r
    BY <1>3, <2>6 DEF Live
  <2>. QED  BY <1>11, <2>4, <2>5, <2>7
<1>. QED  BY <1>12, <1>13, <1>14, <1>15, <1>17, <1>18, <1>19 DEF SentinelInv

(* Steps that cancel sentinels: those of records that are forgotten, or    *)
(* belong to a scope in teardown.                                          *)
LEMMA CancelSentinels ==
  ASSUME SentinelInv, Arms(stack') = Arms(stack), watchers' \subseteq watchers,
         \A q \in RecIds : Live(q)' =>
           /\ Live(q) /\ recs'[q].plugin = recs[q].plugin
           /\ recs'[q].tokens = recs[q].tokens \/ (recs'[q].tokens = {} /\ Doomed(q)'),
         \A w \in watchers \ watchers' : w.rec # NoRec =>
           /\ Live(w.rec) /\ w.tok \in recs[w.rec].tokens
           /\ Live(w.rec)' => recs'[w.rec].tokens = {},
         \A w \in watchers' : w.rec # NoRec /\ Live(w.rec) /\ w.tok \in recs[w.rec].tokens =>
           Live(w.rec)' /\ w.tok \in recs'[w.rec].tokens,
         \A q \in RecIds : Live(q)' /\ Doomed(q) => Doomed(q)',
         \A d \in Dooms(stack') : DoomRight(d)'
  PROVE  SentinelInv'
<1>1. ASSUME NEW a \in Arms(stack') PROVE ArmRight(a)'
  <2>1. SUFFICES ASSUME Live(a.rec)'
                 PROVE  /\ a.ix \in 1..(Len(Requires[recs'[a.rec].plugin]) + 1)
                        /\ a.todo # {} => \E w \in watchers' :
                             /\ a.todo = {w} /\ w.rec = a.rec /\ w.tok \notin recs'[a.rec].tokens
                             /\ a.ix \in DOMAIN Requires[recs'[a.rec].plugin]
                             /\ w.svc = Requires[recs'[a.rec].plugin][a.ix]
    BY DEF ArmRight
  <2>2. a.rec \in RecIds /\ a.rec # NoRec
    BY <2>1, ContextAssumption DEF Live
  <2>3. /\ Live(a.rec) /\ ArmRight(a) /\ recs'[a.rec].plugin = recs[a.rec].plugin
        /\ recs'[a.rec].tokens \subseteq recs[a.rec].tokens
    BY <1>1, <2>1, <2>2 DEF SentinelInv
  <2>4. ASSUME NEW w \in watchers, w.rec = a.rec, w.tok \notin recs[a.rec].tokens
        PROVE  w \in watchers' /\ w.tok \notin recs'[a.rec].tokens
    BY <2>2, <2>3, <2>4
  <2>. QED  BY <2>3, <2>4 DEF ArmRight
<1>2. ArmsApart' /\ TokensApart'
  BY DEF SentinelInv, ArmsApart, TokensApart
<1>3. TokensRight'
  <2>1. SUFFICES ASSUME NEW q \in RecIds, Live(q)', NEW t \in recs'[q].tokens
                 PROVE  \E w \in watchers' : w.rec = q /\ w.tok = t
    BY DEF TokensRight
  <2>2. Live(q) /\ t \in recs[q].tokens /\ q # NoRec
    BY <2>1, ContextAssumption
  <2>3. PICK w \in watchers : w.rec = q /\ w.tok = t
    BY <2>2 DEF SentinelInv, TokensRight
  <2>4. w \in watchers'
    BY <2>1, <2>2, <2>3
  <2>. QED  BY <2>3, <2>4
<1>4. SentinelsRight'
  <2>1. SUFFICES ASSUME NEW w \in watchers', w.rec # NoRec
                 PROVE  \/ \E a \in Arms(stack') : a.rec = w.rec /\ w \in a.todo
                        \/ Live(w.rec)' /\ w.tok \in recs'[w.rec].tokens
    BY DEF SentinelsRight
  <2>2. \/ \E a \in Arms(stack) : a.rec = w.rec /\ w \in a.todo
        \/ Live(w.rec) /\ w.tok \in recs[w.rec].tokens
    BY <2>1 DEF SentinelInv, SentinelsRight
  <2>. QED  BY <2>1, <2>2
<1>5. ASSUME NEW q \in RecIds, Live(q)' PROVE RecordRight(q)'
  <2>1. Live(q) /\ recs'[q].plugin = recs[q].plugin /\ RecordRight(q) /\ q # NoRec
    BY <1>5, ContextAssumption DEF SentinelInv
  <2>2. CASE Doomed(q)'
    BY <2>2 DEF RecordRight
  <2>3. CASE recs'[q].tokens = recs[q].tokens /\ ~Doomed(q)
    <3>1. Kept(q)' = Kept(q)
      <4>1. ASSUME NEW w \in watchers, w.rec = q, w.tok \in recs[q].tokens PROVE w \in watchers'
        BY <1>5, <2>1, <2>3, <4>1
      <4>. QED  BY <2>3, <4>1 DEF Kept
    <3>2. ASSUME NEW n, Armed(q, n) PROVE Armed(q, n)'
      <4>1. Passed(q, n)' = Passed(q, n)
        BY <2>1 DEF Passed
      <4>. QED  BY <2>3, <3>1, <3>2, <4>1 DEF Armed
    <3>3. CASE \E a \in Arms(stack) : a.rec = q /\ Armed(q, a.ix - 1)
      BY <3>2, <3>3 DEF RecordRight
    <3>4. CASE (\A a \in Arms(stack) : a.rec # q) /\ Armed(q, Len(Requires[recs[q].plugin]))
      <4>1. PICK n : n = Len(Requires[recs[q].plugin])
        OBVIOUS
      <4>2. Armed(q, n)' /\ n = Len(Requires[recs'[q].plugin])
        BY <2>1, <3>2, <3>4, <4>1
      <4>3. Armed(q, Len(Requires[recs[q].plugin]))'
        BY <4>2
      <4>. QED  BY <3>4, <4>3 DEF RecordRight
    <3>. QED  BY <2>1, <2>3, <3>3, <3>4 DEF RecordRight
  <2>. QED  BY <1>5, <2>2, <2>3
<1>. QED  BY <1>1, <1>2, <1>3, <1>4, <1>5 DEF SentinelInv

(* ~Context has stopped the record and cancels its sentinels.              *)
LEMMA DtorReleaseSentinels ==
  ASSUME TreeInv, SentinelInv, DtorRelease
  PROVE  SentinelInv'
<1>1. /\ TypeOK /\ ListsRight /\ Running("dtor") /\ Exists(Top.scope) /\ Top.scope \in ScopeIds
      /\ recs \in [RecIds -> LoadRecord \cup {NoRec}]
      /\ Top.ix \in DOMAIN scopes[Top.scope].records /\ UNCHANGED scopes
  BY Zenon DEF TreeInv, TypeOK, DtorRelease, Exists
<1>2. PICK sc, r, n : sc = Top.scope /\ n = Top.ix /\ r = scopes[Top.scope].records[Top.ix]
  BY SMTT(40)
<1>3. Live(r) /\ recs[r] \in LoadRecord /\ r \in RecIds
  BY Zenon, <1>1, <1>2, LiveRecord DEF DtorRelease
<1>4. sc \in ScopeIds /\ Exists(sc) /\ scopes[sc].records \in Seq(RecIds)
  BY <1>1, <1>2, ExistingScope DEF Scope
<1>5. DOMAIN scopes[sc].records = 1..Len(scopes[sc].records) /\ Len(scopes[sc].records) \in Nat
      /\ n \in 1..Len(scopes[sc].records) /\ r \in ToSet(scopes[sc].records)
  BY <1>1, <1>2, <1>4, LenProperties DEF ToSet
<1>6. /\ recs'[r].tokens = {} /\ recs'[r].plugin = recs[r].plugin /\ Live(r)'
      /\ \A q \in RecIds : q # r => recs'[q] = recs[q]
  <2>1. PICK rec : rec = [recs[r] EXCEPT !.lib = FALSE, !.tokens = {}]
    OBVIOUS
  <2>2. rec \in LoadRecord /\ rec.tokens = {} /\ rec.plugin = recs[r].plugin
    BY ZenonT(60), <1>3, <2>1 DEF LoadRecord
  <2>3. recs' = [recs EXCEPT ![r] = rec]
    BY Zenon, <1>1, <1>2, <1>3, <2>1 DEF DtorRelease
  <2>. QED  BY <1>1, <1>3, <2>2, <2>3, NullAssumption DEF Live
<1>7. UnwatchAll(recs[r].tokens) /\ stack' = Resume(Earlier(Top))
  BY Zenon, <1>2 DEF DtorRelease
<1>8. /\ watchers' \subseteq watchers
      /\ \A w \in watchers : w \in watchers' <=> ~(w.rec = r /\ w.tok \in recs[r].tokens)
  BY <1>3, <1>7, UnwatchOwn
<1>9. /\ Arms(stack') = Arms(stack)
      /\ Dooms(stack) = Dooms(Below) \cup {<<sc, n>>}
      /\ Dooms(stack') = Dooms(Below) \cup {<<sc, n - 1>>}
  <2>1. Top \in Frame /\ Top.op = "dtor"
    BY <1>1, RunningStack
  <2>2. PICK g, m : g = Earlier(Top) /\ m = n - 1
    OBVIOUS
  <2>. m \in Nat
    BY <1>5, <2>2
  <2>3. g = [Top EXCEPT !.ix = m, !.val = FALSE]
    BY <1>2, <2>2 DEF Earlier
  <2>4. g \in Frame /\ g.op = "dtor" /\ g.scope = sc /\ g.ix = m
    BY <1>2, <2>1, <2>3 DEF Frame
  <2>5. /\ Dooms(Resume(g)) = Dooms(Below) \cup {<<g.scope, g.ix>>}
        /\ Arms(Resume(g)) = Arms(stack)
    BY <1>1, <2>4, ArmsResumed
  <2>6. Dooms(stack) = Dooms(Below) \cup {<<Top.scope, Top.ix>>}
    BY <1>1, ArmsBelow
  <2>. QED  BY <1>2, <1>7, <2>2, <2>4, <2>5, <2>6
<1>10. ASSUME NEW q \in RecIds, Doomed(q) PROVE Doomed(q)'
  <2>1. PICK d \in Dooms(stack) : Exists(d[1]) /\ q \in ToSet(scopes[d[1]].records)
    BY <1>10 DEF Doomed
  <2>2. PICK e : e \in Dooms(stack') /\ e[1] = d[1]
    <3>1. CASE d \in Dooms(Below)
      BY <1>9, <3>1
    <3>2. CASE d = <<sc, n>>
      <4>1. PICK e : e = <<sc, n - 1>>
        OBVIOUS
      <4>2. e[1] = d[1] /\ e \in Dooms(stack')
        BY <1>9, <3>2, <4>1
      <4>. QED  BY <4>2
    <3>. QED  BY <1>9, <2>1, <3>1, <3>2
  <2>3. Exists(e[1])' /\ q \in ToSet(scopes'[e[1]].records)
    BY <1>1, <2>1, <2>2 DEF Exists
  <2>. QED  BY <2>2, <2>3 DEF Doomed
<1>11. Doomed(r)'
  <2>1. PICK e : e = <<sc, n - 1>>
    OBVIOUS
  <2>2. e \in Dooms(stack') /\ e[1] = sc
    BY <1>9, <2>1
  <2>3. Exists(e[1])' /\ r \in ToSet(scopes'[e[1]].records)
    BY <1>1, <1>4, <1>5, <2>2 DEF Exists
  <2>. QED  BY <2>2, <2>3 DEF Doomed
<1>12. ASSUME NEW d \in Dooms(stack') PROVE DoomRight(d)'
  <2>1. PICK s, m : s = d[1] /\ m = d[2]
    OBVIOUS
  <2>2. SUFFICES ASSUME Exists(s), NEW k \in DOMAIN scopes[s].records, k > m
                 PROVE  recs'[scopes[s].records[k]].tokens = {}
    BY <1>1, <2>1 DEF DoomRight, Exists
  <2>3. Live(scopes[s].records[k]) /\ scopes[s].records[k] \in RecIds
    BY <1>1, <2>2 DEF ListsRight, ListRight, Live, Exists
  <2>4. recs[scopes[s].records[k]].tokens = {} \/ scopes[s].records[k] = r
    <3>1. CASE d \in Dooms(Below)
      <4>1. DoomRight(d)
        BY <1>9, <3>1 DEF SentinelInv
      <4>. QED  BY <2>1, <2>2, <4>1 DEF DoomRight
    <3>2. CASE d = <<sc, n - 1>>
      <4>1. s = sc /\ m = n - 1
        BY <2>1, <3>2
      <4>2. k = n \/ k > n
        BY <1>5, <2>2, <4>1
      <4>3. PICK e : e = <<sc, n>>
        OBVIOUS
      <4>4. DoomRight(e) /\ e[1] = sc /\ e[2] = n
        BY <1>9, <4>3 DEF SentinelInv
      <4>5. k > n => recs[scopes[sc].records[k]].tokens = {}
        BY <1>4, <2>2, <4>1, <4>4 DEF DoomRight
      <4>. QED  BY <1>2, <4>1, <4>2, <4>5
    <3>. QED  BY <1>9, <1>12, <3>1, <3>2
  <2>. QED  BY <1>6, <2>3, <2>4
<1>13. \A q \in RecIds : Live(q)' =>
         /\ Live(q) /\ recs'[q].plugin = recs[q].plugin
         /\ recs'[q].tokens = recs[q].tokens \/ (recs'[q].tokens = {} /\ Doomed(q)')
  BY <1>3, <1>6, <1>11 DEF Live
<1>14. \A w \in watchers \ watchers' : w.rec # NoRec =>
         /\ Live(w.rec) /\ w.tok \in recs[w.rec].tokens
         /\ Live(w.rec)' => recs'[w.rec].tokens = {}
  BY <1>3, <1>6, <1>8
<1>15. \A w \in watchers' : w.rec # NoRec /\ Live(w.rec) /\ w.tok \in recs[w.rec].tokens =>
         Live(w.rec)' /\ w.tok \in recs'[w.rec].tokens
  BY <1>6, <1>8 DEF Live
<1>. QED  BY SMTT(40), <1>8, <1>9, <1>10, <1>12, <1>13, <1>14, <1>15, CancelSentinels

(* ~Context forgets its records: it has cancelled what they had.           *)
LEMMA DtorClearSentinels ==
  ASSUME TreeInv, SentinelInv, DtorClear
  PROVE  SentinelInv'
<1>1. /\ TypeOK /\ ListsRight /\ Running("dtor") /\ Exists(Top.scope) /\ Top.ix = 0
      /\ recs \in [RecIds -> LoadRecord \cup {NoRec}]
      /\ scopes \in [ScopeIds -> Scope \cup {Gone}]
  BY DEF TreeInv, TypeOK, DtorClear
<1>2. PICK sc : sc = Top.scope
  OBVIOUS
<1>3. sc \in ScopeIds /\ scopes[sc] \in Scope /\ Exists(sc) /\ ListRight(sc)
  BY <1>1, <1>2, ExistingScope DEF ListsRight
<1>4. \A q \in RecIds : recs'[q] = IF q \in ToSet(scopes[sc].records) THEN NoRec ELSE recs[q]
  BY <1>1, <1>2 DEF DtorClear
<1>5. /\ \A s \in ScopeIds \ {sc} : scopes'[s] = scopes[s]
      /\ scopes'[sc].records = <<>>
  <2>1. scopes' = [scopes EXCEPT ![sc] = [scopes[sc] EXCEPT !.records = <<>>, !.retired = {}]]
    BY <1>1, <1>2 DEF DtorClear
  <2>. QED  BY <1>1, <1>3, <2>1 DEF Scope
<1>6. watchers' \subseteq watchers /\ \A w \in watchers : w.rec # NoRec => w \in watchers'
  BY DEF DtorClear
<1>7. /\ Arms(stack') = Arms(stack) /\ Dooms(stack') = Dooms(Below)
      /\ Dooms(stack) = Dooms(Below) \cup {<<sc, 0>>}
  <2>1. PICK g : g = [Call("revoke", NoRec, sc) EXCEPT !.ix = Len(scopes[sc].provided)]
    OBVIOUS
  <2>2. g \in Frame /\ g.op = "revoke"
    <3>1. Call("revoke", NoRec, sc) \in Frame
      BY <1>3, CallType DEF Ops
    <3>2. Len(scopes[sc].provided) \in Nat
      BY <1>3 DEF Scope
    <3>. QED  BY <2>1, <3>1, <3>2 DEF Call, Frame
  <2>3. stack' = Resume(g)
    BY <1>2, <2>1 DEF DtorClear
  <2>4. Dooms(Resume(g)) = Dooms(Below) /\ Arms(Resume(g)) = Arms(stack)
    BY <1>1, <2>2, ArmsResumed
  <2>5. Dooms(stack) = Dooms(Below) \cup {<<Top.scope, Top.ix>>}
    BY <1>1, ArmsBelow
  <2>. QED  BY <1>1, <1>2, <2>3, <2>4, <2>5
<1>8. \A q \in ToSet(scopes[sc].records) : recs[q].tokens = {} /\ recs[q].host = sc
  <2>1. PICK d : d = <<sc, 0>>
    OBVIOUS
  <2>2. DoomRight(d) /\ d[1] = sc /\ d[2] = 0
    BY <1>7, <2>1 DEF SentinelInv
  <2>3. \A k \in DOMAIN scopes[sc].records : k > 0
    BY <1>3 DEF Scope
  <2>4. \A k \in DOMAIN scopes[sc].records : recs[scopes[sc].records[k]].tokens = {}
    BY <1>3, <2>2, <2>3 DEF DoomRight
  <2>. QED  BY <1>3, <2>4 DEF ListRight, ToSet
<1>9. \A q \in RecIds : Live(q)' => Live(q) /\ recs'[q] = recs[q] /\ q \notin ToSet(scopes[sc].records)
  BY <1>4 DEF Live
<1>10. ASSUME NEW q \in RecIds, Live(q)', Doomed(q) PROVE Doomed(q)'
  <2>1. PICK d \in Dooms(stack) : Exists(d[1]) /\ q \in ToSet(scopes[d[1]].records)
    BY <1>10 DEF Doomed
  <2>2. PICK s : s = d[1]
    OBVIOUS
  <2>3. s # sc /\ s \in ScopeIds
    BY <1>9, <1>10, <2>1, <2>2 DEF Exists
  <2>4. d \in Dooms(stack')
    <3>1. d # <<sc, 0>>
      BY <2>2, <2>3
    <3>. QED  BY <1>7, <2>1, <3>1
  <2>5. scopes'[s] = scopes[s]
    BY <1>5, <2>3
  <2>6. Exists(d[1])' /\ q \in ToSet(scopes'[d[1]].records)
    BY <2>1, <2>2, <2>5 DEF Exists
  <2>. QED  BY <2>4, <2>6 DEF Doomed
<1>11. ASSUME NEW d \in Dooms(stack') PROVE DoomRight(d)'
  <2>1. PICK s : s = d[1]
    OBVIOUS
  <2>2. SUFFICES ASSUME Exists(s)', NEW k \in DOMAIN scopes'[s].records, k > d[2]
                 PROVE  recs'[scopes'[s].records[k]].tokens = {}
    BY <2>1 DEF DoomRight
  <2>3. s # sc
    BY <1>5, <2>2
  <2>4. scopes'[s] = scopes[s] /\ Exists(s) /\ s \in ScopeIds
    BY <1>5, <2>2, <2>3 DEF Exists
  <2>5. DoomRight(d)
    BY <1>7 DEF SentinelInv
  <2>6. recs[scopes[s].records[k]].tokens = {}
    BY <2>1, <2>2, <2>4, <2>5 DEF DoomRight
  <2>7. Live(scopes[s].records[k]) /\ recs[scopes[s].records[k]].host = s
    BY <1>1, <2>2, <2>4 DEF ListsRight, ListRight
  <2>8. scopes[s].records[k] \notin ToSet(scopes[sc].records) /\ scopes[s].records[k] \in RecIds
    BY <1>8, <2>3, <2>7 DEF Live
  <2>. QED  BY <1>4, <2>4, <2>6, <2>8
<1>12. ASSUME NEW w \in watchers', w.rec # NoRec, Live(w.rec), w.tok \in recs[w.rec].tokens
       PROVE  Live(w.rec)' /\ w.tok \in recs'[w.rec].tokens
  <2>1. w.rec \notin ToSet(scopes[sc].records) /\ w.rec \in RecIds
    BY <1>8, <1>12 DEF Live
  <2>. QED  BY <1>4, <1>12, <2>1 DEF Live
<1>. QED  BY <1>6, <1>7, <1>9, <1>10, <1>11, <1>12, CancelSentinels

(* unload() cancels the sentinels of the record that it erases.            *)
LEMMA EraseSentinels ==
  ASSUME TreeInv, SentinelInv, Erase
  PROVE  SentinelInv'
<1>1. /\ TypeOK /\ ListsRight /\ Running("erase") /\ Live(Top.rec) /\ Exists(Top.scope) /\ ~Top.val
      /\ Top.ix \in DOMAIN scopes[Top.scope].records
      /\ recs \in [RecIds -> LoadRecord \cup {NoRec}]
      /\ scopes \in [ScopeIds -> Scope \cup {Gone}]
  BY DEF TreeInv, TypeOK, Erase
<1>2. PICK sc, r, n : sc = Top.scope /\ r = Top.rec /\ n = Top.ix
  OBVIOUS
<1>3. PICK list, short : list = scopes[sc].records /\ short = RemoveAt(list, n)
  OBVIOUS
<1>4. sc \in ScopeIds /\ scopes[sc] \in Scope /\ Exists(sc) /\ r \in RecIds /\ Live(r)
  BY <1>1, <1>2, ExistingScope DEF Live
<1>5. list \in Seq(RecIds) /\ ListRight(sc) /\ IsInjective(list) /\ n \in DOMAIN list /\ n \in Nat
      /\ DOMAIN list = 1..Len(list) /\ Len(list) \in Nat
  <2>1. list \in Seq(RecIds) /\ ListRight(sc)
    BY <1>1, <1>3, <1>4 DEF Scope, ListsRight
  <2>2. n \in DOMAIN list /\ IsInjective(list)
    BY <1>1, <1>2, <1>3, <2>1 DEF ListRight
  <2>3. DOMAIN list = 1..Len(list) /\ Len(list) \in Nat
    BY <2>1, LenProperties
  <2>. QED  BY <2>1, <2>2, <2>3
<1>6. list[n] = r /\ recs[r].host = sc
  <2>1. Top \in RightFrames /\ Top.op = "erase"
    BY <1>1, TopRight
  <2>. QED  BY <1>1, <1>2, <1>3, <2>1 DEF RightFrames, EraseRight, PointersRight
<1>7. /\ \A k \in DOMAIN short : \E j \in DOMAIN list : j # n /\ short[k] = list[j] /\ (j = k \/ j = k + 1)
      /\ \A j \in DOMAIN list : j # n => \E k \in DOMAIN short : short[k] = list[j]
  <2>1. /\ short \in Seq(RecIds) /\ Len(short) = Len(list) - 1
        /\ \A i \in 1..(Len(list) - 1) : short[i] = IF i < n THEN list[i] ELSE list[i + 1]
    BY <1>3, <1>5, RemovedPosition
  <2>2. DOMAIN short = 1..(Len(list) - 1)
    BY <2>1, LenProperties
  <2>3. ASSUME NEW k \in DOMAIN short
        PROVE  \E j \in DOMAIN list : j # n /\ short[k] = list[j] /\ (j = k \/ j = k + 1)
    <3>1. CASE k < n
      BY <1>5, <2>1, <2>2, <3>1
    <3>2. CASE ~(k < n)
      BY SMTT(40), <1>5, <2>1, <2>2, <3>2
    <3>. QED  BY <3>1, <3>2
  <2>4. ASSUME NEW j \in DOMAIN list, j # n
        PROVE  \E k \in DOMAIN short : short[k] = list[j]
    <3>1. CASE j < n
      BY <1>5, <2>1, <2>2, <3>1
    <3>2. CASE ~(j < n)
      <4>1. j - 1 \in DOMAIN short /\ ~(j - 1 < n) /\ (j - 1) + 1 = j
        BY <1>5, <2>2, <2>4, <3>2
      <4>2. short[j - 1] = list[j]
        BY <2>1, <2>2, <4>1
      <4>. QED  BY <4>1, <4>2
    <3>. QED  BY <3>1, <3>2
  <2>. QED  BY <2>3, <2>4
<1>8. /\ recs'[r] = NoRec /\ \A q \in RecIds \ {r} : recs'[q] = recs[q]
      /\ scopes'[sc].records = short /\ Exists(sc)'
      /\ \A s \in ScopeIds \ {sc} : scopes'[s] = scopes[s]
  <2>. DEFINE libs == scopes[sc].retired \cup Retired(r)
  <2>1. recs' = [recs EXCEPT ![r] = NoRec]
        /\ scopes' = [scopes EXCEPT ![sc] = [scopes[sc] EXCEPT !.retired = libs, !.records = short]]
    BY <1>1, <1>2, <1>3, <1>4 DEF Erase
  <2>2. libs \in SUBSET Plugins /\ short \in Seq(RecIds)
    <3>1. recs[r] \in LoadRecord
      BY <1>1, <1>4, LiveRecord
    <3>. QED  BY <1>3, <1>4, <1>5, <3>1, RemovedPosition DEF Scope, Retired, LoadRecord
  <2>. HIDE DEF libs
  <2>3. [scopes[sc] EXCEPT !.retired = libs, !.records = short] \in Scope
    BY <1>4, <2>2 DEF Scope
  <2>. QED  BY <1>1, <1>4, <2>1, <2>3, NullAssumption DEF Scope, Exists
<1>9. UnwatchAll(recs[r].tokens) /\ stack' = Invalidate(Below, sc, n)
  BY <1>2 DEF Erase
<1>10. /\ watchers' \subseteq watchers
       /\ \A w \in watchers : w \in watchers' <=> ~(w.rec = r /\ w.tok \in recs[r].tokens)
  BY <1>4, <1>9, UnwatchOwn
<1>11. Arms(stack') = Arms(stack) /\ Dooms(stack') = Dooms(stack)
  <2>1. PICK q : q = Below
    OBVIOUS
  <2>2. q \in Seq(Frame) /\ Arms(q) = Arms(stack) /\ Dooms(q) = Dooms(stack)
    BY <1>1, <2>1, ArmsBelow
  <2>. QED  BY <1>5, <1>9, <2>1, <2>2, ArmsMarked
<1>12. \A q \in RecIds : Live(q)' => Live(q) /\ recs'[q] = recs[q] /\ q # r
  BY <1>8 DEF Live
<1>13. ASSUME NEW q \in RecIds, Live(q)', Doomed(q) PROVE Doomed(q)'
  <2>1. PICK d \in Dooms(stack) : Exists(d[1]) /\ q \in ToSet(scopes[d[1]].records)
    BY <1>13 DEF Doomed
  <2>2. PICK s : s = d[1]
    OBVIOUS
  <2>3. Exists(s)' /\ q \in ToSet(scopes'[s].records)
    <3>1. CASE s = sc
      <4>1. PICK j \in DOMAIN list : q = list[j]
        BY <1>3, <2>1, <2>2, <3>1 DEF ToSet
      <4>2. j # n
        BY <1>6, <1>12, <1>13, <4>1
      <4>3. PICK k \in DOMAIN short : short[k] = q
        BY <1>7, <4>1, <4>2
      <4>4. q \in ToSet(short)
        BY <4>3 DEF ToSet
      <4>. QED  BY <1>8, <3>1, <4>4
    <3>2. CASE s # sc
      <4>1. scopes'[s] = scopes[s] /\ s \in ScopeIds
        BY <1>8, <2>1, <2>2, <3>2 DEF Exists
      <4>. QED  BY <2>1, <2>2, <4>1 DEF Exists
    <3>. QED  BY <3>1, <3>2
  <2>4. Exists(d[1])' /\ q \in ToSet(scopes'[d[1]].records)
    BY <2>2, <2>3
  <2>. QED  BY <1>11, <2>1, <2>4 DEF Doomed
<1>14. ASSUME NEW d \in Dooms(stack') PROVE DoomRight(d)'
  <2>0. d \in Dooms(stack) /\ DoomRight(d)
    BY <1>11, <1>14 DEF SentinelInv
  <2>1. PICK s, m : s = d[1] /\ m = d[2]
    OBVIOUS
  <2>2. m \in Nat
    <3>1. \A i \in DOMAIN stack : stack[i].ix \in Nat
      <4>1. stack \in Seq(Frame)
        BY <1>1 DEF TypeOK
      <4>2. \A i \in DOMAIN stack : stack[i] \in Frame
        BY <4>1
      <4>3. \A f \in Frame : f.ix \in Nat
        BY DEF Frame
      <4>. QED  BY <4>2, <4>3
    <3>2. \A e \in Dooms(stack) : \E i \in DOMAIN stack : e[2] = stack[i].ix
      BY DEF Dooms
    <3>. QED  BY <2>0, <2>1, <3>1, <3>2
  <2>3. SUFFICES ASSUME Exists(s)', NEW k \in DOMAIN scopes'[s].records, k > m
                 PROVE  recs'[scopes'[s].records[k]].tokens = {}
    BY <2>1 DEF DoomRight
  <2>4. CASE s = sc
    <3>1. PICK j \in DOMAIN list : j # n /\ short[k] = list[j] /\ (j = k \/ j = k + 1)
      BY <1>7, <1>8, <2>3, <2>4
    <3>2. j > m
      <4>1. k > m /\ j \in Nat /\ (j = k \/ j = k + 1)
        BY <1>5, <2>3, <3>1
      <4>2. k \in Nat
        <5>1. short \in Seq(RecIds) /\ DOMAIN short = 1..Len(short) /\ Len(short) \in Nat
          BY <1>3, <1>5, RemovedPosition, LenProperties
        <5>2. k \in 1..Len(short)
          BY <1>8, <2>3, <2>4, <5>1
        <5>. QED  BY <5>1, <5>2
      <4>. QED  BY <2>2, <4>1, <4>2
    <3>3. recs[list[j]].tokens = {}
      BY <1>3, <1>4, <2>0, <2>1, <2>4, <3>1, <3>2 DEF DoomRight
    <3>4. list[j] # r /\ list[j] \in RecIds
      BY <1>5, <1>6, <3>1 DEF IsInjective
    <3>. QED  BY <1>8, <2>4, <3>1, <3>3, <3>4
  <2>5. CASE s # sc
    <3>1. scopes'[s] = scopes[s] /\ Exists(s) /\ s \in ScopeIds
      BY <1>8, <2>3, <2>5 DEF Exists
    <3>2. recs[scopes[s].records[k]].tokens = {}
      BY <2>0, <2>1, <2>3, <3>1 DEF DoomRight
    <3>3. Live(scopes[s].records[k]) /\ recs[scopes[s].records[k]].host = s
      BY <1>1, <2>3, <3>1 DEF ListsRight, ListRight
    <3>4. scopes[s].records[k] # r /\ scopes[s].records[k] \in RecIds
      BY <1>6, <2>5, <3>3 DEF Live
    <3>. QED  BY <1>8, <3>1, <3>2, <3>4
  <2>. QED  BY <2>4, <2>5
<1>15. \A w \in watchers \ watchers' : w.rec # NoRec =>
         /\ Live(w.rec) /\ w.tok \in recs[w.rec].tokens
         /\ Live(w.rec)' => recs'[w.rec].tokens = {}
  BY <1>4, <1>8, <1>10 DEF Live
<1>16. \A w \in watchers' : w.rec # NoRec /\ Live(w.rec) /\ w.tok \in recs[w.rec].tokens =>
         Live(w.rec)' /\ w.tok \in recs'[w.rec].tokens
  BY <1>8, <1>10 DEF Live
<1>. QED  BY <1>10, <1>11, <1>12, <1>13, <1>14, <1>15, <1>16, CancelSentinels

(* provide() tells watchers, and neither arms nor cancels them.            *)
LEMMA ProvideSentinels ==
  ASSUME TreeInv, TypeOK', SentinelInv, NEW s \in Services, NEW sc, Exists(sc),
         NEW rest \in Seq(Frame), ProvideService(s, sc, rest),
         Arms(rest) = Arms(stack), Dooms(rest) = Dooms(stack)
  PROVE  SentinelInv'
<1>1. TypeOK /\ sc \in ScopeIds
  BY ExistingScope DEF TreeInv
<1>2. /\ UNCHANGED <<recs, watchers>>
      /\ \A t \in ScopeIds : Exists(t)' = Exists(t)
      /\ \A t \in ScopeIds \ {sc} : scopes'[t] = scopes[t]
      /\ scopes'[sc].records = scopes[sc].records
  BY <1>1, ProvideKeeps DEF ProvideService
<1>3. Arms(stack') = Arms(rest) /\ Dooms(stack') = Dooms(rest)
  <2>1. CASE Appears(s, sc)
    <3>1. PICK x : x = FireWatchers(TRUE, Snapshot(s))
      OBVIOUS
    <3>2. x \in Frame
      <4>1. Snapshot(s) \in SUBSET Watcher
        BY <1>1 DEF Snapshot, TypeOK
      <4>. QED  BY <3>1, <4>1, FireType
    <3>3. x.op = "fire"
      BY <3>1 DEF FireWatchers, Call
    <3>4. stack' = <<x>> \o rest
      BY <2>1, <3>1 DEF ProvideService
    <3>. QED  BY <3>2, <3>3, <3>4, ArmsPushed
  <2>2. CASE ~Appears(s, sc)
    BY <2>2 DEF ProvideService
  <2>. QED  BY <2>1, <2>2
<1>4. \A t \in ScopeIds :
        /\ Exists(t) => Exists(t)' /\ scopes'[t].records = scopes[t].records
        /\ ~Exists(t) /\ Exists(t)' => scopes'[t].records = <<>>
  BY <1>2
<1>5. CallArms(rest)
  BY <1>2, <1>3, <1>4 DEF CallArms, Live
<1>. QED  BY <1>2, <1>5, CallSentinels

(* The calls of the host: no call waits, so nothing is in teardown.        *)
LEMMA HostCallsSentinels ==
  ASSUME TreeInv, TypeOK', SentinelInv, HostCalls
  PROVE  SentinelInv'
<1>1. TypeOK /\ ListsRight /\ stack = <<>> /\ Exists(Root) /\ <<>> \in Seq(Frame)
  BY DEF TreeInv, HostCalls, HostLoad, HostUnload, HostProvide, HostDestroy, Idle
<1>2. Arms(<<>>) = Arms(stack) /\ Dooms(<<>>) = Dooms(stack) /\ Dooms(stack) = {} /\ Arms(stack) = {}
  BY <1>1 DEF Arms, Dooms
<1>3. CASE \E p \in Plugins : HostLoad(p)
  <2>1. PICK p \in Plugins : AddRecord(Root, p, <<>>)
    BY <1>3 DEF HostLoad
  <2>. QED  BY <1>1, <1>2, <2>1, AddSentinels
<1>4. CASE \E p \in HostUnloads : HostUnload(p)
  <2>1. PICK p : Unload(Root, p, <<>>)
    BY <1>4 DEF HostUnload
  <2>2. CallArms(<<>>)
    BY <1>1, <2>1, UnloadArms
  <2>3. UNCHANGED watchers
    BY <2>1 DEF Unload
  <2>. QED  BY <1>2, <2>2, <2>3, CallSentinels
<1>5. CASE \E s \in Services : HostProvide(s)
  <2>1. PICK s \in Services : ProvideService(s, Root, <<>>)
    BY <1>5 DEF HostProvide
  <2>. QED  BY <1>1, <1>2, <2>1, ProvideSentinels
<1>6. CASE HostDestroy
  <2>1. PICK y : y = [Call("dtor", NoRec, Root) EXCEPT !.ix = Len(scopes[Root].records)]
    OBVIOUS
  <2>2. Root \in ScopeIds /\ scopes[Root] \in Scope /\ scopes \in [ScopeIds -> Scope \cup {Gone}]
    BY <1>1, ExistingScope DEF TypeOK
  <2>3. y \in Frame /\ y.op = "dtor" /\ y.scope = Root /\ y.ix = Len(scopes[Root].records)
    <3>1. Call("dtor", NoRec, Root) \in Frame
      BY <2>2, CallType DEF Ops
    <3>2. Len(scopes[Root].records) \in Nat
      BY <2>2 DEF Scope
    <3>. QED  BY <2>1, <3>1, <3>2 DEF Call, Frame
  <2>4. /\ UNCHANGED <<watchers, recs>> /\ scopes' = [scopes EXCEPT ![Root].alive = FALSE]
        /\ stack' = <<y>> \o <<>>
    BY <1>6, <2>1 DEF HostDestroy
  <2>5. /\ \A s \in ScopeIds : Exists(s)' = Exists(s)
        /\ \A s \in ScopeIds : Exists(s) => scopes'[s].records = scopes[s].records
    <3>1. PICK dead : dead = [scopes[Root] EXCEPT !.alive = FALSE]
      OBVIOUS
    <3>2. dead \in Scope /\ dead.records = scopes[Root].records
      BY <2>2, <3>1 DEF Scope
    <3>3. scopes' = [scopes EXCEPT ![Root] = dead]
      BY <2>4, <3>1
    <3>. QED  BY <1>1, <2>2, <3>2, <3>3, NullAssumption DEF Exists
  <2>6. Arms(stack') = Arms(<<>>) /\ Dooms(stack') = Dooms(<<>>) \cup {<<y.scope, y.ix>>}
    <3>1. y.op # "arm"
      BY <2>3
    <3>2. PICK q \in Seq(Frame) : q = <<>>
      BY <1>1
    <3>3. /\ y.op # "arm" => Arms(<<y>> \o q) = Arms(q)
          /\ y.op = "dtor" => Dooms(<<y>> \o q) = Dooms(q) \cup {<<y.scope, y.ix>>}
      BY <2>3, ArmsPushed
    <3>. QED  BY <2>3, <2>4, <3>1, <3>2, <3>3
  <2>7. \A d \in Dooms(stack') : d[2] = Len(scopes'[d[1]].records)
    BY <1>1, <1>2, <2>2, <2>3, <2>5, <2>6
  <2>8. CallArms(<<>>)
    BY <1>2, <2>4, <2>5, <2>6, <2>7 DEF CallArms, Live
  <2>. QED  BY <1>2, <2>4, <2>8, CallSentinels
<1>. QED  BY <1>3, <1>4, <1>5, <1>6 DEF HostCalls

(* A plugin's body, the watcher loops and the host's watchers.             *)
LEMMA CallersSentinels ==
  ASSUME TreeInv, TypeOK', SentinelInv,
         \/ \E s \in Services : ApplyProvide(s)
         \/ \E p \in Plugins : ApplyLoad(p) \/ ApplyEvict(p) \/ CallbackLoads(p) \/ CallbackUnloads(p)
         \/ ApplyReturns \/ ApplyThrows \/ StopRelease \/ FireNext \/ FireDone \/ CallbackReturns
  PROVE  SentinelInv'
<1>1. TypeOK /\ ListsRight /\ stack \in Seq(Frame)
  BY DEF TreeInv, TypeOK
<1>2. CASE \E s \in Services : ApplyProvide(s)
  <2>1. PICK s \in Services : ProvideService(s, Top.scope, stack) /\ Exists(Top.scope)
    BY <1>2 DEF ApplyProvide, Applying
  <2>. QED  BY <1>1, <2>1, ProvideSentinels
<1>3. CASE \E p \in Plugins : ApplyLoad(p)
  <2>1. PICK p \in Plugins : AddRecord(Top.scope, p, stack) /\ Exists(Top.scope) /\ Running("apply")
    BY <1>3 DEF ApplyLoad, Applying
  <2>2. Top.op = "apply"
    BY <1>1, <2>1, RunningStack
  <2>3. PICK sc \in ScopeIds : sc = Top.scope
    BY <2>1 DEF Exists
  <2>4. \A d \in Dooms(stack) : d[1] # sc
    BY <2>1, <2>2, <2>3, NotDoomedHere DEF WorksIn
  <2>. QED  BY <1>1, <2>1, <2>3, <2>4, AddSentinels
<1>4. CASE \E p \in Plugins : ApplyEvict(p)
  <2>1. PICK p : Unload(recs[Top.rec].host, p, stack) /\ Exists(recs[Top.rec].host)
    BY SMTT(40), <1>4 DEF ApplyEvict
  <2>2. CallArms(stack) /\ UNCHANGED watchers
    BY Zenon, <1>1, <2>1, UnloadArms DEF Unload
  <2>. QED  BY <2>2, CallSentinels
<1>5. CASE \E p \in Plugins : CallbackLoads(p)
  <2>1. PICK p \in Plugins : AddRecord(Root, p, Below) /\ Exists(Root) /\ Running("callback")
    BY <1>5 DEF CallbackLoads
  <2>2. Top.op = "callback"
    BY <1>1, <2>1, RunningStack
  <2>3. \A d \in Dooms(stack) : d[1] # Root
    BY <2>1, <2>2, NotDoomedHere, ContextAssumption DEF WorksIn
  <2>4. Below \in Seq(Frame) /\ Arms(Below) = Arms(stack) /\ Dooms(Below) = Dooms(stack)
    BY <1>1, <2>1, ArmsBelow
  <2>. QED  BY <1>1, <2>1, <2>3, <2>4, AddSentinels
<1>6. CASE \E p \in Plugins : CallbackUnloads(p)
  <2>1. PICK p : Unload(Root, p, Below) /\ Exists(Root) /\ Running("callback")
    BY <1>6 DEF CallbackUnloads
  <2>2. Below \in Seq(Frame) /\ Arms(Below) = Arms(stack) /\ Dooms(Below) = Dooms(stack)
    BY <1>1, <2>1, ArmsBelow
  <2>3. CallArms(Below) /\ UNCHANGED watchers
    BY <1>1, <2>1, <2>2, UnloadArms DEF Unload
  <2>. QED  BY <2>2, <2>3, CallSentinels
<1>7. CASE ApplyThrows
  <2>1. StopRecord(Top.rec, "Failed", Below) /\ Live(Top.rec) /\ Running("apply") /\ UNCHANGED watchers
    BY <1>7 DEF ApplyThrows
  <2>2. Below \in Seq(Frame) /\ Arms(Below) = Arms(stack) /\ Dooms(Below) = Dooms(stack)
    BY <1>1, <2>1, ArmsBelow
  <2>3. CallArms(Below)
    BY <1>1, <2>1, <2>2, StopArms
  <2>. QED  BY <2>1, <2>2, <2>3, CallSentinels
<1>8. CASE FireNext
  <2>1. PICK w \in Top.todo : CallWatcher(w, Top.val, Resume([Top EXCEPT !.todo = Top.todo \ {w}]))
    BY <1>8 DEF FireNext
  <2>2. Running("fire") /\ UNCHANGED watchers
    BY <1>8 DEF FireNext
  <2>3. Top \in Frame /\ Top.op = "fire"
    BY <1>1, <2>2, RunningStack
  <2>4. PICK g : g = [Top EXCEPT !.todo = Top.todo \ {w}]
    OBVIOUS
  <2>5. g \in Frame /\ g.op = "fire" /\ w \in Watcher /\ Top.val \in BOOLEAN
    BY <2>3, <2>4 DEF Frame
  <2>6. Resume(g) \in Seq(Frame) /\ Arms(Resume(g)) = Arms(stack) /\ Dooms(Resume(g)) = Dooms(stack)
    <3>1. Resume(g) \in Seq(Frame) /\ Arms(Resume(g)) = Arms(stack) /\ Dooms(Resume(g)) = Dooms(Below)
      BY <1>1, <2>2, <2>5, ArmsResumed
    <3>2. Dooms(Below) = Dooms(stack)
      BY <1>1, <2>2, ArmsBelow
    <3>. QED  BY <3>1, <3>2
  <2>7. CallArms(Resume(g))
    BY <1>1, <2>1, <2>4, <2>5, <2>6, CallWatcherArms
  <2>. QED  BY <2>2, <2>6, <2>7, CallSentinels
<1>9. CASE FireDone \/ CallbackReturns
  <2>1. PICK op \in {"fire", "callback"} : Running(op)
    BY <1>9 DEF FireDone, CallbackReturns
  <2>2. stack' = Below /\ UNCHANGED <<watchers, recs, scopes>>
    BY <1>9 DEF FireDone, CallbackReturns
  <2>3. Arms(Below) = Arms(stack) /\ Dooms(Below) = Dooms(stack)
    BY <1>1, <2>1, ArmsBelow
  <2>4. CallArms(Below)
    BY <2>2, ReturnArms DEF Return
  <2>. QED  BY <2>2, <2>3, <2>4, CallSentinels
<1>10. CASE ApplyReturns \/ StopRelease
  <2>1. PICK op \in {"apply", "stop"} : Running(op)
    BY <1>10 DEF ApplyReturns, StopRelease
  <2>2. PICK r : r = Top.rec
    OBVIOUS
  <2>3. stack' = Below /\ UNCHANGED <<watchers, scopes>> /\ Live(r)
    BY <1>10, <2>2 DEF ApplyReturns, StopRelease
  <2>4. r \in RecIds /\ recs[r] \in LoadRecord /\ recs \in [RecIds -> LoadRecord \cup {NoRec}]
    BY <1>1, <2>3, LiveRecord DEF TypeOK
  <2>5. PICK rec : /\ recs' = [recs EXCEPT ![r] = rec] /\ rec \in LoadRecord
                   /\ rec.tokens = recs[r].tokens /\ rec.plugin = recs[r].plugin
    <3>1. CASE ApplyReturns
      <4>1. PICK n : n = recs[r].inst + (IF Form[recs[r].plugin] = "class" THEN 1 ELSE 0)
        OBVIOUS
      <4>2. n \in Nat
        BY <2>4, <4>1 DEF LoadRecord
      <4>3. PICK rec : rec = [recs[r] EXCEPT !.inst = n]
        OBVIOUS
      <4>4. recs' = [recs EXCEPT ![r] = rec]
        BY <2>2, <2>4, <3>1, <4>1, <4>3 DEF ApplyReturns
      <4>5. rec \in LoadRecord /\ rec.tokens = recs[r].tokens /\ rec.plugin = recs[r].plugin
        BY <2>4, <4>2, <4>3 DEF LoadRecord
      <4>. QED  BY <4>4, <4>5
    <3>2. CASE StopRelease
      <4>1. recs' = [recs EXCEPT ![r] = Released(r)]
        BY <2>2, <3>2 DEF StopRelease
      <4>2. /\ Released(r) \in LoadRecord
            /\ Released(r).tokens = recs[r].tokens /\ Released(r).plugin = recs[r].plugin
        BY <2>4 DEF Released, LoadRecord
      <4>. QED  BY <4>1, <4>2
    <3>. QED  BY <1>10, <3>1, <3>2
  <2>6. \A q \in RecIds : (Live(q)' <=> Live(q))
          /\ (Live(q) => recs'[q].tokens = recs[q].tokens /\ recs'[q].plugin = recs[q].plugin)
    BY <2>3, <2>4, <2>5, NullAssumption DEF Live
  <2>7. Arms(Below) = Arms(stack) /\ Dooms(Below) = Dooms(stack)
    BY <1>1, <2>1, ArmsBelow
  <2>8. CallArms(Below)
    BY <2>3, <2>6 DEF CallArms, Exists
  <2>. QED  BY <2>3, <2>7, <2>8, CallSentinels
<1>. QED  BY <1>2, <1>3, <1>4, <1>5, <1>6, <1>7, <1>8, <1>9, <1>10

(* ~Context phase 1 stops a record; phase 4 revokes a service.             *)
LEMMA DtorCallsSentinels ==
  ASSUME TreeInv, TypeOK', SentinelInv, DtorStop \/ RevokeNext
  PROVE  SentinelInv'
<1>1. TypeOK /\ ListsRight /\ stack \in Seq(Frame)
  BY DEF TreeInv, TypeOK
<1>2. CASE DtorStop
  <2>1. PICK g, r : g = [Top EXCEPT !.val = TRUE] /\ r = scopes[Top.scope].records[Top.ix]
    OBVIOUS
  <2>2. StopRecord(r, "Disposed", Resume(g)) /\ Live(r) /\ Running("dtor") /\ UNCHANGED watchers
    BY <1>2, <2>1 DEF DtorStop
  <2>3. g \in Frame /\ g.op = "dtor" /\ g.scope = Top.scope /\ g.ix = Top.ix
    <3>1. Top \in Frame /\ Top.op = "dtor"
      BY <1>1, <2>2, RunningStack
    <3>. QED  BY <2>1, <3>1 DEF Frame
  <2>4. Resume(g) \in Seq(Frame) /\ Arms(Resume(g)) = Arms(stack) /\ Dooms(Resume(g)) = Dooms(stack)
    BY <1>1, <2>2, <2>3, ArmsResumed
  <2>5. CallArms(Resume(g))
    BY <1>1, <2>2, <2>4, StopArms
  <2>. QED  BY <2>2, <2>4, <2>5, CallSentinels
<1>3. CASE RevokeNext
  <2>1. Running("revoke") /\ Exists(Top.scope) /\ UNCHANGED <<watchers, recs, scopes>>
        /\ Top.ix \in DOMAIN scopes[Top.scope].provided
    BY <1>3 DEF RevokeNext
  <2>2. PICK g, s : g = Earlier(Top) /\ s = scopes[Top.scope].provided[Top.ix]
    OBVIOUS
  <2>3. g \in Frame /\ g.op = "revoke"
    <3>1. Top \in Frame /\ Top.op = "revoke"
      BY <1>1, <2>1, RunningStack
    <3>2. scopes[Top.scope].provided \in Seq(Services)
      BY <1>1, <2>1, ExistingScope DEF Scope
    <3>3. Top.ix \in 1..Len(scopes[Top.scope].provided)
      BY <2>1, <3>2
    <3>4. PICK m \in Nat : m = Top.ix - 1
      BY <3>2, <3>3
    <3>5. g = [Top EXCEPT !.ix = m, !.val = FALSE]
      BY <2>2, <3>4 DEF Earlier
    <3>. QED  BY <3>1, <3>5 DEF Frame
  <2>4. Resume(g) \in Seq(Frame) /\ Arms(Resume(g)) = Arms(stack) /\ Dooms(Resume(g)) = Dooms(stack)
    <3>1. Resume(g) \in Seq(Frame) /\ Arms(Resume(g)) = Arms(stack) /\ Dooms(Resume(g)) = Dooms(Below)
      BY <1>1, <2>1, <2>3, ArmsResumed
    <3>2. Dooms(Below) = Dooms(stack)
      BY <1>1, <2>1, ArmsBelow
    <3>. QED  BY <3>1, <3>2
  <2>5. Arms(stack') = Arms(Resume(g)) /\ Dooms(stack') = Dooms(Resume(g))
    <3>1. PICK x, q : x = FireWatchers(FALSE, Snapshot(s)) /\ q = Resume(g)
      OBVIOUS
    <3>2. CASE Disappears(s, Top.scope)
      <4>1. x \in Frame
        <5>1. Snapshot(s) \in SUBSET Watcher
          BY <1>1 DEF Snapshot, TypeOK
        <5>. QED  BY <3>1, <5>1, FireType
      <4>2. x.op = "fire"
        BY <3>1 DEF FireWatchers, Call
      <4>3. stack' = <<x>> \o q
        BY <1>3, <2>2, <3>1, <3>2 DEF RevokeNext
      <4>4. x.op # "arm" /\ x.op # "dtor" /\ q \in Seq(Frame)
        BY <2>4, <3>1, <4>2
      <4>5. Arms(<<x>> \o q) = Arms(q) /\ Dooms(<<x>> \o q) = Dooms(q)
        BY <4>1, <4>4, ArmsPushed
      <4>. QED  BY <3>1, <4>3, <4>5
    <3>3. CASE ~Disappears(s, Top.scope)
      <4>1. stack' = <<>> \o q
        BY <1>3, <2>2, <3>1, <3>3 DEF RevokeNext
      <4>. QED  BY <2>4, <3>1, <4>1
    <3>. QED  BY <3>2, <3>3
  <2>6. CallArms(Resume(g))
    BY <2>1, <2>5 DEF CallArms, Live, Exists
  <2>. QED  BY SMTT(40), <2>1, <2>4, <2>6, CallSentinels
<1>. QED  BY <1>2, <1>3

(* The scope that is gone listed no record any more.                       *)
LEMMA RevokeDoneSentinels ==
  ASSUME TreeInv, SentinelInv, RevokeDone
  PROVE  SentinelInv'
<1>1. /\ TypeOK /\ Running("revoke") /\ Exists(Top.scope) /\ UNCHANGED <<watchers, recs>>
      /\ stack' = Below /\ scopes \in [ScopeIds -> Scope \cup {Gone}]
  BY DEF TreeInv, TypeOK, RevokeDone
<1>2. PICK sc : sc = Top.scope
  OBVIOUS
<1>3. sc \in ScopeIds /\ scopes[sc].records = <<>>
  <2>1. Top \in RightFrames /\ Top.op = "revoke"
    BY <1>1, TopRight
  <2>. QED  BY <1>1, <1>2, <2>1 DEF RightFrames, TeardownRight, Exists
<1>4. /\ scopes'[sc] = Gone
      /\ \A s \in ScopeIds \ {sc} : scopes'[s] = scopes[s]
  BY <1>1, <1>2, <1>3 DEF RevokeDone
<1>5. Arms(stack') = Arms(stack) /\ Dooms(stack') = Dooms(stack)
  BY <1>1, ArmsBelow
<1>6. ASSUME NEW q \in RecIds, Doomed(q) PROVE Doomed(q)'
  <2>1. PICK d \in Dooms(stack) : Exists(d[1]) /\ q \in ToSet(scopes[d[1]].records)
    BY <1>6 DEF Doomed
  <2>2. PICK s : s = d[1]
    OBVIOUS
  <2>3. s # sc /\ s \in ScopeIds
    <3>1. ToSet(<<>>) = {}
      BY DEF ToSet
    <3>. QED  BY <1>3, <2>1, <2>2, <3>1 DEF Exists
  <2>4. scopes'[s] = scopes[s]
    BY <1>4, <2>3
  <2>5. Exists(d[1])' /\ q \in ToSet(scopes'[d[1]].records)
    BY <2>1, <2>2, <2>4 DEF Exists
  <2>. QED  BY <1>5, <2>1, <2>5 DEF Doomed
<1>7. ASSUME NEW d \in Dooms(stack') PROVE DoomRight(d)'
  <2>1. PICK s : s = d[1]
    OBVIOUS
  <2>2. SUFFICES ASSUME Exists(s)', NEW k \in DOMAIN scopes'[s].records, k > d[2]
                 PROVE  recs'[scopes'[s].records[k]].tokens = {}
    BY <2>1 DEF DoomRight
  <2>3. scopes'[s] = scopes[s] /\ Exists(s)
    BY <1>4, <2>2 DEF Exists
  <2>4. DoomRight(d)
    BY <1>5, <1>7 DEF SentinelInv
  <2>. QED  BY <1>1, <2>1, <2>2, <2>3, <2>4 DEF DoomRight
<1>8. \A q \in RecIds : (Live(q)' <=> Live(q))
        /\ (Live(q) => recs'[q].tokens = recs[q].tokens /\ recs'[q].plugin = recs[q].plugin)
  BY <1>1 DEF Live
<1>. QED  BY <1>1, <1>5, <1>6, <1>7, <1>8, SentinelSame

(* Only the host has watchers when a root scope is new.                    *)
LEMMA InitSentinels == Init => SentinelInv
<1>1. SUFFICES ASSUME Init PROVE SentinelInv
  OBVIOUS
<1>2. /\ \A w \in watchers : w.rec = NoRec
      /\ \A r : ~Live(r)
  BY <1>1, ContextAssumption DEF Init, Live
<1>3. Arms(stack) = {} /\ Dooms(stack) = {}
  BY <1>1 DEF Init, Arms, Dooms
<1>. QED  BY <1>2, <1>3 DEF SentinelInv, ArmsApart, TokensApart, TokensRight, SentinelsRight

(* SentinelInv is inductive: one lemma above for each group of actions.    *)
LEMMA StepSentinels == TreeInv /\ SentinelInv /\ [Next]_vars => SentinelInv'
<1>1. SUFFICES ASSUME TreeInv, SentinelInv, [Next]_vars PROVE SentinelInv'
  OBVIOUS
<1>2. TypeOK'
  BY <1>1, StepType DEF TreeInv
<1>3. CASE HostCalls
  BY <1>1, <1>2, <1>3, HostCallsSentinels
<1>4. CASE ThreadSteps
  <2>1. CASE ArmNext \/ ArmToken \/ ArmStarts
    BY <1>1, <1>2, <2>1, ArmNextSentinels, ArmTokenSentinels, ArmStartsSentinels
  <2>2. CASE DtorStop \/ DtorRelease \/ DtorClear \/ RevokeNext \/ RevokeDone
    BY <1>1, <1>2, <2>2, DtorCallsSentinels, DtorReleaseSentinels, DtorClearSentinels,
       RevokeDoneSentinels
  <2>3. CASE Erase
    BY <1>1, <2>3, EraseSentinels
  <2>4. CASE \/ \E s \in Services : ApplyProvide(s)
             \/ \E p \in Plugins : ApplyLoad(p) \/ ApplyEvict(p) \/ CallbackLoads(p) \/ CallbackUnloads(p)
             \/ ApplyReturns \/ ApplyThrows \/ StopRelease \/ FireNext \/ FireDone \/ CallbackReturns
    BY <1>1, <1>2, <2>4, CallersSentinels
  <2>. QED  BY <1>4, <2>1, <2>2, <2>3, <2>4 DEF ThreadSteps
<1>5. CASE Terminated \/ UNCHANGED vars
  <2>1. UNCHANGED <<watchers, recs, scopes, stack>>
    BY <1>5 DEF Terminated, vars
  <2>2. \A r \in RecIds : Doomed(r)' <=> Doomed(r)
    BY <2>1 DEF Doomed, Exists
  <2>3. \A d \in Dooms(stack') : DoomRight(d)'
    <3>1. ASSUME NEW d \in Dooms(stack') PROVE DoomRight(d)'
      <4>1. DoomRight(d)
        BY <1>1, <2>1, <3>1 DEF SentinelInv
      <4>. QED  BY <2>1, <4>1 DEF DoomRight, Exists
    <3>. QED  BY <3>1
  <2>. QED  BY <1>1, <2>1, <2>2, <2>3, SentinelSame DEF Live
<1>. QED  BY <1>1, <1>3, <1>4, <1>5 DEF Next

(* SentinelsExact: between two calls of the host the registry holds, of    *)
(* all sentinels that starts, stops, loads and unloads have registered and *)
(* cancelled, exactly those of the records that are loaded, one for each   *)
(* requirement, and each record has the tokens to cancel its own           *)
(* (armDependencyWatchers, unwatchAll).                                    *)
THEOREM SentinelsMatchRecords == Spec => []SentinelsExact
<1>1. Init => SentinelInv
  BY InitSentinels
<1>2. TreeInv /\ SentinelInv /\ [Next]_vars => SentinelInv'
  BY StepSentinels
<1>3. TreeInv /\ SentinelInv => SentinelsExact
  BY SentinelsBetweenCalls DEF TreeInv
<1>. QED  BY <1>1, <1>2, <1>3, TreeCorrect, PTL DEF Spec
=============================================================================
