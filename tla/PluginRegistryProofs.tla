------------------------- MODULE PluginRegistryProofs -------------------------
(***************************************************************************)
(* What a PluginRegistry finds, and what it and a product's configuration  *)
(* add to a Context, for every tree of manifests, every configuration,     *)
(* every failure and every order in which directories are listed.          *)
(*                                                                         *)
(* A scan is exact whatever the libraries are called. Loads are idempotent *)
(* and reported in full when a library's plugin has the name its manifest  *)
(* gives (otherwise both properties fail: the registry looks for the one   *)
(* name and adds a record with the other).                                 *)
(*                                                                         *)
(* That a load is idempotent rests on pluginState() telling whether a      *)
(* record exists: it answers Disposed also for a record that an unload()   *)
(* is about to forget, and no load runs meanwhile.                         *)
(*                                                                         *)
(* That a scan is exact rests on where it stands (Progress): which search  *)
(* path it is in, and that whatever this path offers and has not been      *)
(* found is reached from what is left of it.                               *)
(***************************************************************************)
EXTENDS PluginRegistry, CollectionLemmas

(* The definition in the library has the manifest's name.                  *)
NamesAgree == \A d \in Dirs : IsValid(Manifest[d]) => LibName[d] = Manifest[d].name

Record == [name : Names, state : {"Deferred", "Active", "Failed", "Disposed"}]
Place == [dir : Dirs, depth : 0..KMaxScanDepth]
Entries == {AppConfig[i] : i \in DOMAIN AppConfig}
Listed == {n \in Names : manifests[n] # NoDir}

Has(n) == \E i \in DOMAIN records : records[i].name = n
NoneDisposed == \A i \in DOMAIN records : records[i].state # "Disposed"

(* Only an unload() in progress has a record that is disposed of.          *)
DisposedRight ==
  \A i \in DOMAIN records : records[i].state = "Disposed" => job.op = "unload" /\ job.todo = <<i>>

Unique ==
  \A i, j \in DOMAIN records :
    records[i].name = records[j].name => i = j \/ records[i].name \in PassedBy

ManifestsRight ==
  \A n \in Names : manifests[n] # NoDir => manifests[n] \in Dirs /\ LibName[manifests[n]] = n

(* What each loop works through.                                           *)
JobRight ==
  /\ job = [op |-> job.op, todo |-> job.todo, waiting |-> job.waiting, registry |-> job.registry]
  /\ job.op # "appConfig" => job.waiting = NoDir
  /\ job.op = "loadAll" => job.todo \in Seq(Listed)
  /\ job.op = "appConfig" => job.todo \in Seq(Entries)
  /\ job.op = "unload" => \E i \in DOMAIN records : job.todo = <<i>>

(* The library that waits to be reported, and what has been reported.      *)
WaitingRight == job.waiting # NoDir => lastLoaded \in Names /\ Has(lastLoaded)

ReportRight ==
  job.op = "appConfig" =>
    /\ Len(loaded) + Len(skipped) + Len(job.todo) = Len(AppConfig)
    /\ \A i \in DOMAIN skipped : skipped[i].reason = skipped[i].name
    /\ \A i \in DOMAIN loaded : Has(loaded[i])

RegInv ==
  /\ TypeOK /\ DisposedRight /\ Unique /\ ManifestsRight
  /\ JobRight /\ WaitingRight /\ ReportRight

-----------------------------------------------------------------------------
(* A listing of a finite set is a sequence over it.                        *)
LEMMA ListingType ==
  ASSUME NEW S, IsFiniteSet(S), NEW q \in SetToSeqs(S)
  PROVE  q \in Seq(S)
<1>1. Cardinality(S) \in Nat
  BY FS_CardinalityType
<1>2. q \in [1..Cardinality(S) -> S]
  BY DEF SetToSeqs
<1>. QED  BY <1>1, <1>2, SeqDef

(* pluginState() tells whether there is a record, while none is being      *)
(* forgotten.                                                              *)
LEMMA RegisteredIsHas ==
  ASSUME TypeOK, NoneDisposed, NEW n
  PROVE  Registered(n) <=> Has(n)
<1>1. Ctx!Named(n) = {i \in DOMAIN records : records[i].name = n}
  BY DEF Ctx!Named
<1>2. CASE ~Has(n)
  BY <1>1, <1>2 DEF Has, Registered, Ctx!State
<1>3. CASE Has(n)
  <2>1. Ctx!Named(n) # {} /\ Ctx!Named(n) \subseteq DOMAIN records
    BY <1>1, <1>3 DEF Has
  <2>2. DOMAIN records \subseteq Nat
    BY DEF TypeOK
  <2>3. \E i \in Ctx!Named(n) : \A j \in Ctx!Named(n) : i <= j
    <3>. DEFINE T == Ctx!Named(n)
    <3>1. T # {} /\ T \subseteq Nat
      BY <2>1, <2>2
    <3>. HIDE DEF T
    <3>2. \E i \in T : \A j \in T : i <= j
      BY <3>1, LeastNumber
    <3>. QED  BY <3>2 DEF T
  <2>. DEFINE k == CHOOSE i \in Ctx!Named(n) : Ctx!IsFirst(i, n)
  <2>4. k \in Ctx!Named(n)
    BY <2>3 DEF Ctx!IsFirst
  <2>5. Ctx!State(n) = records[k].state
    BY <2>1 DEF Ctx!State
  <2>. HIDE DEF k
  <2>. QED  BY <1>3, <2>1, <2>4, <2>5 DEF Registered, NoneDisposed
<1>. QED  BY <1>2, <1>3

-----------------------------------------------------------------------------
(* A load, successful or not: the records stay well typed and unique, none *)
(* disappears, and what was loaded last, if anything, has one.             *)
Grown ==
  /\ records' \in Seq(Record) /\ Unique' /\ NoneDisposed'
  /\ \A m : Has(m) => Has(m)'
  /\ lastLoaded' \in Names \cup {NoName}
  /\ lastLoaded' = lastLoaded \/ (lastLoaded' \in Names /\ Has(lastLoaded)')

(* Adding a record for a name that has none, or may have several.          *)
LEMMA AddGrows ==
  ASSUME TypeOK, Unique, NoneDisposed, NEW n \in Names, NEW ok \in BOOLEAN,
         ok => ~Has(n) \/ n \in PassedBy, Add(n, ok)
  PROVE  Grown /\ (ok => Has(n)' /\ lastLoaded' = n)
<1>1. records \in Seq(Record) /\ lastLoaded \in Names \cup {NoName}
  BY DEF TypeOK, Record
<1>2. CASE ~ok
  <2>1. UNCHANGED <<records, lastLoaded>>
    BY <1>2 DEF Add
  <2>. QED  BY <1>1, <1>2, <2>1 DEF Grown, Unique, NoneDisposed, Has
<1>3. CASE ok
  <2>. DEFINE x == [name |-> n, state |-> "Deferred"]
              m == Len(records)
  <2>1. records' = Append(records, x) /\ lastLoaded' = n
    BY <1>3 DEF Add, Ctx!Load
  <2>2. x \in Record /\ x.name = n /\ x.state # "Disposed"
    BY DEF Record
  <2>. HIDE DEF x
  <2>3. /\ records' \in Seq(Record) /\ Len(records') = m + 1 /\ records'[m + 1] = x /\ m \in Nat
        /\ \A i \in 1..m : records'[i] = records[i]
    BY <1>1, <2>1, <2>2
  <2>4. DOMAIN records = 1..m /\ DOMAIN records' = 1..(m + 1)
    BY <1>1, <2>3
  <2>. HIDE DEF m
  <2>5. /\ m + 1 \in 1..(m + 1) /\ \A i \in 1..m : i \in 1..(m + 1)
        /\ \A i \in 1..(m + 1) : i = m + 1 \/ i \in 1..m
    BY <2>3
  <2>6. (\A k : Has(k) => Has(k)') /\ Has(n)'
    BY <2>2, <2>3, <2>4, <2>5 DEF Has
  <2>7. NoneDisposed'
    BY <2>2, <2>3, <2>4, <2>5 DEF NoneDisposed
  <2>8. Unique'
    <3>1. ASSUME NEW i \in 1..(m + 1), NEW j \in 1..(m + 1), records'[i].name = records'[j].name
          PROVE  i = j \/ records'[i].name \in PassedBy
      <4>1. CASE i \in 1..m /\ j \in 1..m
        BY <2>3, <2>4, <3>1, <4>1 DEF Unique
      <4>2. CASE i = m + 1 /\ j \in 1..m
        <5>1. records[j].name = n /\ records'[i].name = n
          BY <2>2, <2>3, <3>1, <4>2
        <5>. QED  BY <1>3, <2>4, <4>2, <5>1 DEF Has
      <4>3. CASE i \in 1..m /\ j = m + 1
        <5>1. records[i].name = n /\ records'[i].name = n
          BY <2>2, <2>3, <3>1, <4>3
        <5>. QED  BY <1>3, <2>4, <4>3, <5>1 DEF Has
      <4>. QED  BY <2>5, <4>1, <4>2, <4>3
    <3>. QED  BY <2>4, <3>1 DEF Unique, PassedBy
  <2>. QED  BY <2>1, <2>3, <2>6, <2>7, <2>8 DEF Grown
<1>. QED  BY <1>2, <1>3

(* So does a load through the registry, by manifest or by name, which      *)
(* leaves a record of that name unless it fails.                           *)
LEMMA LoadSingleGrows ==
  ASSUME TypeOK, Unique, NoneDisposed, ManifestsRight, NEW n \in Names, manifests[n] # NoDir,
         NEW ok \in BOOLEAN, LoadSingle(n, ok)
  PROVE  Grown /\ (ok => Has(n)')
<1>1. records \in Seq(Record) /\ lastLoaded \in Names \cup {NoName}
  BY DEF TypeOK, Record
<1>2. Registered(n) <=> Has(n)
  BY RegisteredIsHas
<1>3. CASE AlreadyRegistered(n)
  <2>1. UNCHANGED <<records, lastLoaded>> /\ Has(n)
    BY <1>2, <1>3 DEF LoadSingle, AlreadyRegistered
  <2>. QED  BY <1>1, <2>1 DEF Grown, Unique, NoneDisposed, Has
<1>4. CASE ~AlreadyRegistered(n)
  <2>1. LibName[manifests[n]] = n
    BY DEF ManifestsRight
  <2>2. Add(n, ok) /\ ~Has(n)
    BY <1>2, <1>4, <2>1 DEF LoadSingle, AlreadyRegistered
  <2>. QED  BY <2>2, AddGrows
<1>. QED  BY <1>3, <1>4

(* load() of a name adds at most a record of that name, and leaves an      *)
(* error if it fails.                                                      *)
LEMMA LoadByNameGrows ==
  ASSUME TypeOK, Unique, NoneDisposed, ManifestsRight, NEW n \in Names,
         NEW ok \in BOOLEAN, LoadByName(n, ok)
  PROVE  /\ Grown /\ (ok => Has(n)')
         /\ lastError' = IF ok THEN NoName ELSE n
<1>1. records \in Seq(Record) /\ lastLoaded \in Names \cup {NoName}
  BY DEF TypeOK, Record
<1>2. Registered(n) <=> Has(n)
  BY RegisteredIsHas
<1>3. lastError' = IF ok THEN NoName ELSE n
  BY DEF LoadByName, ErrorAfter
<1>4. CASE manifests[n] # NoDir
  <2>1. LoadSingle(n, ok)
    BY <1>4 DEF LoadByName
  <2>. QED  BY <1>3, <1>4, <2>1, LoadSingleGrows
<1>5. CASE manifests[n] = NoDir /\ Registered(n)
  <2>1. UNCHANGED <<records, lastLoaded>> /\ Has(n)
    BY <1>2, <1>5 DEF LoadByName
  <2>. QED  BY <1>1, <1>3, <2>1 DEF Grown, Unique, NoneDisposed, Has
<1>6. CASE manifests[n] = NoDir /\ ~Registered(n)
  <2>1. Add(n, ok) /\ ~Has(n)
    BY <1>2, <1>6 DEF LoadByName, LoadRegistered
  <2>. QED  BY <1>3, <2>1, AddGrows
<1>. QED  BY <1>4, <1>5, <1>6

-----------------------------------------------------------------------------
(* Steps                                                                   *)
Mentioned == Names \cup Dirs \cup {NoName}
Said == [name : Mentioned, reason : Mentioned]

(* The loops that run while nothing is being unloaded.                     *)
LEMMA NothingDisposed ==
  ASSUME RegInv, job.op # "unload"
  PROVE  NoneDisposed
BY DEF RegInv, DisposedRight, NoneDisposed

(* A step that leaves the records alone is one that may add some.          *)
LEMMA SameRecords ==
  ASSUME RegInv, job.op # "unload", UNCHANGED <<records, lastLoaded>>
  PROVE  Grown
<1>1. NoneDisposed
  BY NothingDisposed
<1>. QED  BY <1>1 DEF Grown, RegInv, TypeOK, Record, Unique, NoneDisposed, Has

(* The invariant after a step of a loop, from what the step may change.    *)
LEMMA KeptByLoop ==
  ASSUME RegInv, Grown, manifests' \in [Names -> Dirs \cup {NoDir}], ManifestsRight',
         lastError' \in Mentioned, JobRight',
         job'.op \in {"idle", "scan", "loadAll", "appConfig"},
         job'.op = "scan" => job'.todo \in Seq(Place),
         loaded' \in Seq(Names), skipped' \in Seq(Said), WaitingRight', ReportRight'
  PROVE  RegInv'
<1>1. TypeOK'
  BY DEF TypeOK, Grown, Record, Mentioned, Said, Place
<1>2. DisposedRight'
  BY DEF Grown, NoneDisposed, DisposedRight
<1>. QED  BY <1>1, <1>2 DEF RegInv, Grown

(* The types, by their names.                                              *)
LEMMA TypeNames ==
  ASSUME TypeOK
  PROVE  /\ records \in Seq(Record) /\ lastLoaded \in Names \cup {NoName}
         /\ manifests \in [Names -> Dirs \cup {NoDir}] /\ lastError \in Mentioned
         /\ job.op \in {"idle", "scan", "loadAll", "appConfig", "unload"}
         /\ job.op = "scan" => job.todo \in Seq(Place)
         /\ loaded \in Seq(Names) /\ skipped \in Seq(Said)
BY DEF TypeOK, Record, Mentioned, Said, Place

(* A job with other items, and with other fields.                          *)
LEMMA JobUpdates ==
  ASSUME NEW a, NEW b, NEW c, NEW d, NEW e
  PROVE  LET j == [op |-> a, todo |-> b, waiting |-> c, registry |-> d]
         IN  /\ [j EXCEPT !.todo = e] = [op |-> a, todo |-> e, waiting |-> c, registry |-> d]
             /\ [j EXCEPT !.waiting = e] = [op |-> a, todo |-> b, waiting |-> e, registry |-> d]
             /\ [j EXCEPT !.registry = e] = [op |-> a, todo |-> b, waiting |-> c, registry |-> e]
OBVIOUS

(* The next item of a loop.                                                *)
LEMMA NextItemFacts ==
  ASSUME JobRight
  PROVE  NextItem = [op |-> job.op, todo |-> Tail(job.todo), waiting |-> job.waiting,
                     registry |-> job.registry]
<1>1. PICK a, b, c, d : job = [op |-> a, todo |-> b, waiting |-> c, registry |-> d]
  BY DEF JobRight
<1>2. job.op = a /\ job.todo = b /\ job.waiting = c /\ job.registry = d
  BY <1>1
<1>3. PICK e : e = Tail(b)
  OBVIOUS
<1>4. [[op |-> a, todo |-> b, waiting |-> c, registry |-> d] EXCEPT !.todo = e]
        = [op |-> a, todo |-> e, waiting |-> c, registry |-> d]
  OBVIOUS
<1>5. NextItem = [job EXCEPT !.todo = Tail(b)]
  BY <1>2 DEF NextItem
<1>. QED  BY <1>1, <1>2, <1>3, <1>4, <1>5

(* A loop takes the first item and leaves the rest.                        *)
LEMMA ItemFacts ==
  ASSUME NEW S, job.todo \in Seq(S), job.todo # <<>>
  PROVE  /\ Item \in S /\ Tail(job.todo) \in Seq(S)
         /\ Len(job.todo) \in Nat /\ Len(Tail(job.todo)) = Len(job.todo) - 1
BY DEF Item

(* A loop that starts.                                                     *)
LEMMA JobFacts ==
  ASSUME NEW op, NEW todo
  PROVE  Job(op, todo) = [op |-> op, todo |-> todo, waiting |-> NoDir, registry |-> FALSE]
BY DEF Job

(* The entries of the configuration are well formed, and what they load    *)
(* without asking is in PassedBy.                                          *)
LEMMA EntryFacts ==
  ASSUME NEW e \in Entries
  PROVE  /\ e.kind \in {"name", "library", "empty"}
         /\ e.kind = "name" => e.name \in Names
         /\ e.kind = "library" => e.dir \in Dirs /\ LibName[e.dir] \in Names
         /\ EntryName(e) \in Mentioned
         /\ e.kind = "library" => LibName[e.dir] \in PassedBy
         /\ e.kind = "name" /\ e.name \in Factories => e.name \in PassedBy
<1>1. PICK i \in DOMAIN AppConfig : e = AppConfig[i]
  BY DEF Entries
<1>2. e \in Entry /\ (e.kind = "name" => e.name \in Names) /\ (e.kind = "library" => e.dir \in Dirs)
  <2>1. e \in Entry
    BY <1>1, PluginRegistryAssumption
  <2>2. /\ AppConfig[i].kind = "name" => AppConfig[i].name \in Names
        /\ AppConfig[i].kind = "library" => AppConfig[i].dir \in Dirs
    BY PluginRegistryAssumption
  <2>. QED  BY <1>1, <2>1, <2>2
<1>3. e.kind = "library" => LibName[e.dir] \in Names
  BY <1>2, PluginRegistryAssumption
<1>4. EntryName(e) \in Mentioned
  BY <1>2 DEF EntryName, Mentioned, Entry
<1>5. ASSUME e.kind = "library" PROVE LibName[e.dir] \in PassedBy
  <2>1. i \in {j \in Loading : AppConfig[j].kind = "library"}
    BY <1>1, <1>5 DEF Loading
  <2>. QED  BY <1>1, <2>1 DEF PassedBy
<1>6. ASSUME e.kind = "name", e.name \in Factories PROVE e.name \in PassedBy
  <2>1. i \in Loading
    BY <1>1, <1>6 DEF Loading
  <2>. QED  BY <1>1, <1>6, <2>1 DEF PassedBy
<1>7. e.kind \in {"name", "library", "empty"}
  BY <1>2 DEF Entry
<1>. QED  BY <1>2, <1>3, <1>4, <1>5, <1>6, <1>7

(* A step that starts or ends a loop, or scans, reports nothing.           *)
LEMMA ScanKeeps ==
  ASSUME RegInv, Scan \/ Clear \/ JobDone \/ LoadAll
  PROVE  RegInv'
<1>1. UNCHANGED <<records, lastLoaded, loaded, skipped>> /\ job.op # "unload"
  BY DEF Scan, Clear, JobDone, LoadAll, Idle, Job
<1>2. Grown /\ JobRight /\ TypeOK /\ ManifestsRight
  BY <1>1, SameRecords DEF RegInv
<1>3. /\ manifests \in [Names -> Dirs \cup {NoDir}] /\ lastError \in Mentioned
      /\ loaded' \in Seq(Names) /\ skipped' \in Seq(Said)
  BY <1>1, <1>2, TypeNames
<1>4. NoManifests \in [Names -> Dirs \cup {NoDir}] /\ \A n \in Names : NoManifests[n] = NoDir
  BY DEF NoManifests
<1>5. /\ manifests' \in [Names -> Dirs \cup {NoDir}] /\ ManifestsRight' /\ lastError' \in Mentioned
  <2>1. manifests' = manifests \/ manifests' = NoManifests
    BY DEF Scan, Clear, JobDone, LoadAll
  <2>2. lastError' = lastError \/ lastError' = NoName
    BY DEF Scan, Clear, JobDone, LoadAll
  <2>. QED  BY <1>2, <1>3, <1>4, <2>1, <2>2 DEF ManifestsRight, Mentioned
<1>6. CASE Clear \/ JobDone
  <2>1. job' = [op |-> "idle", todo |-> <<>>, waiting |-> NoDir, registry |-> FALSE]
    BY <1>6 DEF Clear, JobDone, Idle, Job
  <2>2. JobRight' /\ WaitingRight' /\ ReportRight' /\ job'.op = "idle"
    BY <2>1 DEF JobRight, WaitingRight, ReportRight
  <2>. QED  BY <1>2, <1>3, <1>5, <2>2, KeptByLoop
<1>7. CASE Scan
  <2>. DEFINE q == [i \in DOMAIN SearchPaths |-> [dir |-> SearchPaths[i], depth |-> 0]]
  <2>1. job' = [op |-> "scan", todo |-> q, waiting |-> NoDir, registry |-> FALSE]
    BY <1>7, JobFacts DEF Scan
  <2>2. q \in Seq(Place)
    <3>1. DOMAIN SearchPaths = 1..Len(SearchPaths) /\ Len(SearchPaths) \in Nat
          /\ \A i \in 1..Len(SearchPaths) : SearchPaths[i] \in Dirs
      BY PluginRegistryAssumption
    <3>2. 0 \in 0..KMaxScanDepth
      BY PluginRegistryAssumption
    <3>3. q \in [1..Len(SearchPaths) -> Place]
      BY <3>1, <3>2 DEF Place
    <3>. QED  BY <3>1, <3>3, SeqDef
  <2>. HIDE DEF q
  <2>3. JobRight' /\ WaitingRight' /\ ReportRight' /\ job'.op = "scan" /\ job'.todo = q
    BY <2>1 DEF JobRight, WaitingRight, ReportRight
  <2>. QED  BY <1>2, <1>3, <1>5, <2>2, <2>3, KeptByLoop
<1>8. CASE LoadAll
  <2>1. PICK order \in SetToSeqs(Listed) : job' = Job("loadAll", order)
    BY <1>8 DEF LoadAll, Listed
  <2>2. IsFiniteSet(Listed)
    BY PluginRegistryAssumption, FS_Subset DEF Listed
  <2>3. order \in Seq(Listed)
    BY <2>2, ListingType
  <2>4. job' = [op |-> "loadAll", todo |-> order, waiting |-> NoDir, registry |-> FALSE]
    BY <2>1, JobFacts
  <2>5. Listed' = Listed
    BY <1>8 DEF LoadAll, Listed
  <2>6. JobRight' /\ WaitingRight' /\ ReportRight' /\ job'.op = "loadAll"
    BY <2>3, <2>4, <2>5 DEF JobRight, WaitingRight, ReportRight
  <2>. QED  BY <1>2, <1>3, <1>5, <2>6, KeptByLoop
<1>. QED  BY <1>6, <1>7, <1>8

(* A directory with a manifest: the name leads to it if it is the first.   *)
LEMMA ReadManifestKeeps ==
  ASSUME RegInv, NamesAgree, ReadManifest
  PROVE  RegInv'
<1>. DEFINE m == Manifest[Item.dir]
<1>1. /\ job.op = "scan" /\ job.todo # <<>> /\ job' = NextItem
      /\ UNCHANGED <<records, lastLoaded, loaded, skipped>>
  BY DEF ReadManifest, Running
<1>2. Grown /\ JobRight /\ TypeOK /\ ManifestsRight
  BY <1>1, SameRecords DEF RegInv
<1>3. /\ manifests \in [Names -> Dirs \cup {NoDir}] /\ lastError \in Mentioned
      /\ loaded' \in Seq(Names) /\ skipped' \in Seq(Said) /\ job.todo \in Seq(Place)
  BY <1>1, <1>2, TypeNames
<1>4. Item \in Place /\ Tail(job.todo) \in Seq(Place)
  BY <1>1, <1>3, ItemFacts
<1>5. Item.dir \in Dirs /\ m \in ManifestFile
  BY <1>4, PluginRegistryAssumption DEF Place
<1>6. /\ job' = [op |-> "scan", todo |-> Tail(job.todo), waiting |-> NoDir, registry |-> job.registry]
  BY <1>1, <1>2, NextItemFacts DEF JobRight
<1>7. JobRight' /\ WaitingRight' /\ ReportRight' /\ job'.op = "scan" /\ job'.todo = Tail(job.todo)
  BY <1>6 DEF JobRight, WaitingRight, ReportRight
<1>8. lastError' \in Mentioned
  BY <1>3, <1>5 DEF ReadManifest, Mentioned
<1>9. manifests' \in [Names -> Dirs \cup {NoDir}] /\ ManifestsRight'
  <2>1. CASE manifests' = manifests
    BY <1>2, <1>3, <2>1 DEF ManifestsRight
  <2>2. CASE manifests' # manifests
    <3>1. IsValid(m) /\ manifests' = [manifests EXCEPT ![m.name] = Item.dir]
      BY <2>2 DEF ReadManifest
    <3>2. m.name \in Names
      BY <1>5, <3>1 DEF IsValid, ManifestFile
    <3>3. LibName[Item.dir] = m.name
      BY <1>5, <3>1 DEF NamesAgree
    <3>. HIDE DEF m
    <3>. QED  BY <1>2, <1>3, <1>5, <3>1, <3>2, <3>3 DEF ManifestsRight
  <2>. QED  BY <2>1, <2>2
<1>. QED  BY <1>2, <1>3, <1>4, <1>7, <1>8, <1>9, KeptByLoop

(* A directory without: its subdirectories come next, in any order.        *)
LEMMA DescendKeeps ==
  ASSUME RegInv, Descend
  PROVE  RegInv'
<1>1. /\ job.op = "scan" /\ job.todo # <<>>
      /\ UNCHANGED <<records, lastLoaded, loaded, skipped, manifests, lastError>>
  BY DEF Descend, Running
<1>2. Grown /\ JobRight /\ TypeOK /\ ManifestsRight
  BY <1>1, SameRecords DEF RegInv
<1>3. /\ manifests \in [Names -> Dirs \cup {NoDir}] /\ lastError \in Mentioned
      /\ loaded' \in Seq(Names) /\ skipped' \in Seq(Said) /\ job.todo \in Seq(Place)
  BY <1>1, <1>2, TypeNames
<1>4. Item \in Place /\ Tail(job.todo) \in Seq(Place)
  BY <1>1, <1>3, ItemFacts
<1>5. PICK q \in Seq(Place) : job' = [job EXCEPT !.todo = q]
  <2>1. CASE IsLeaf(Item.depth)
    BY <1>4, <2>1 DEF Descend, NextItem
  <2>2. CASE ~IsLeaf(Item.depth)
    <3>. DEFINE S == {[dir |-> d, depth |-> Item.depth + 1] : d \in Children[Item.dir]}
    <3>1. PICK list \in SetToSeqs(S) : job' = [job EXCEPT !.todo = list \o Tail(@)]
      BY <2>2 DEF Descend
    <3>2. Item.dir \in Dirs /\ Children[Item.dir] \in SUBSET Dirs /\ IsFiniteSet(Children[Item.dir])
      BY <1>4, PluginRegistryAssumption DEF Place
    <3>3. Item.depth + 1 \in 0..KMaxScanDepth
      BY <1>4, <2>2, PluginRegistryAssumption DEF Place, IsLeaf
    <3>4. S \subseteq Place
      BY <3>2, <3>3 DEF Place
    <3>5. IsFiniteSet(S)
      <4>. DEFINE C == Children[Item.dir]
                  f == [d \in C |-> [dir |-> d, depth |-> Item.depth + 1]]
      <4>1. IsFiniteSet(C) /\ f \in Surjection(C, S)
        BY <3>2 DEF Surjection
      <4>. HIDE DEF C, f, S
      <4>. QED  BY <4>1, FS_Surjection
    <3>. HIDE DEF S
    <3>6. list \in Seq(S)
      BY <3>5, ListingType
    <3>7. list \in Seq(Place)
      BY <3>4, <3>6
    <3>8. list \o Tail(job.todo) \in Seq(Place)
      BY <1>4, <3>7
    <3>. QED  BY <3>1, <3>8
  <2>. QED  BY <2>1, <2>2
<1>6. job' = [op |-> "scan", todo |-> q, waiting |-> NoDir, registry |-> job.registry]
  BY <1>1, <1>2, <1>5 DEF JobRight
<1>7. JobRight' /\ WaitingRight' /\ ReportRight' /\ job'.op = "scan" /\ job'.todo = q
  BY <1>6 DEF JobRight, WaitingRight, ReportRight
<1>8. ManifestsRight'
  BY <1>1, <1>2 DEF ManifestsRight
<1>. QED  BY <1>1, <1>2, <1>3, <1>5, <1>7, <1>8, KeptByLoop

(* A configuration starts, is worked through entry by entry, and its       *)
(* report grows with every entry.                                          *)
LEMMA LoadAppConfigKeeps ==
  ASSUME RegInv, LoadAppConfig
  PROVE  RegInv'
<1>1. /\ job.op # "unload" /\ loaded' = <<>> /\ skipped' = <<>>
      /\ UNCHANGED <<records, lastLoaded, manifests, lastError>>
  BY DEF LoadAppConfig, Idle, Job
<1>2. Grown /\ JobRight /\ TypeOK /\ ManifestsRight
  BY <1>1, SameRecords DEF RegInv
<1>3. manifests \in [Names -> Dirs \cup {NoDir}] /\ lastError \in Mentioned
  BY <1>2, TypeNames
<1>4. PICK given \in BOOLEAN : job' = [Job("appConfig", AppConfig) EXCEPT !.registry = given]
  BY DEF LoadAppConfig
<1>5. PICK todo : todo = AppConfig
  OBVIOUS
<1>6. [[op |-> "appConfig", todo |-> todo, waiting |-> NoDir, registry |-> FALSE]
         EXCEPT !.registry = given]
        = [op |-> "appConfig", todo |-> todo, waiting |-> NoDir, registry |-> given]
  OBVIOUS
<1>7. job' = [op |-> "appConfig", todo |-> todo, waiting |-> NoDir, registry |-> given]
  BY <1>4, <1>5, <1>6 DEF Job
<1>8. todo \in Seq(Entries) /\ Len(todo) \in Nat
  <2>1. /\ AppConfig \in Seq(Entry) /\ DOMAIN AppConfig = 1..Len(AppConfig) /\ Len(AppConfig) \in Nat
        /\ AppConfig = [i \in 1..Len(AppConfig) |-> AppConfig[i]]
    BY PluginRegistryAssumption
  <2>2. AppConfig \in [1..Len(AppConfig) -> Entries]
    BY <2>1 DEF Entries
  <2>. QED  BY <1>5, <2>1, <2>2, SeqDef
<1>9. JobRight' /\ WaitingRight' /\ job'.op = "appConfig" /\ job'.todo = todo
  BY <1>7, <1>8 DEF JobRight, WaitingRight, Entries
<1>10. ReportRight' /\ loaded' \in Seq(Names) /\ skipped' \in Seq(Said)
  BY <1>1, <1>5, <1>8, <1>9 DEF ReportRight
<1>11. ManifestsRight'
  BY <1>1, <1>2 DEF ManifestsRight
<1>. QED  BY <1>1, <1>2, <1>3, <1>9, <1>10, <1>11, KeptByLoop

(* The report with one more line.                                          *)
LEMMA ReportGrows ==
  ASSUME RegInv, job.op = "appConfig", Grown,
         \/ \E n \in Names : Has(n)' /\ Report(n)
         \/ \E n \in Mentioned : Skip(n, n)
  PROVE  /\ loaded' \in Seq(Names) /\ skipped' \in Seq(Said)
         /\ Len(loaded') + Len(skipped') = Len(loaded) + Len(skipped) + 1
         /\ Len(loaded) \in Nat /\ Len(skipped) \in Nat
         /\ \A i \in DOMAIN skipped' : skipped'[i].reason = skipped'[i].name
         /\ (\A i \in DOMAIN loaded : Has(loaded[i]))'
<1>1. /\ loaded \in Seq(Names) /\ skipped \in Seq(Said)
      /\ \A i \in DOMAIN skipped : skipped[i].reason = skipped[i].name
      /\ \A i \in DOMAIN loaded : Has(loaded[i])
  BY TypeNames DEF RegInv, ReportRight
<1>2. \A i \in DOMAIN loaded : \E k \in DOMAIN records' : records'[k].name = loaded[i]
  <2>1. \A m : Has(m) => \E k \in DOMAIN records' : records'[k].name = m
    BY DEF Grown, Has
  <2>. QED  BY <1>1, <2>1
<1>3. ASSUME NEW n \in Names, Has(n)', Report(n)
      PROVE  /\ loaded' \in Seq(Names) /\ Len(loaded') = Len(loaded) + 1 /\ skipped' = skipped
             /\ (\A i \in DOMAIN loaded : Has(loaded[i]))'
  <2>1. loaded' = Append(loaded, n) /\ skipped' = skipped
    BY <1>3 DEF Report
  <2>2. /\ loaded' \in Seq(Names) /\ Len(loaded') = Len(loaded) + 1 /\ Len(loaded) \in Nat
        /\ loaded'[Len(loaded) + 1] = n /\ \A i \in 1..Len(loaded) : loaded'[i] = loaded[i]
        /\ DOMAIN loaded = 1..Len(loaded) /\ DOMAIN loaded' = 1..(Len(loaded) + 1)
    BY <1>1, <2>1
  <2>3. \A i \in 1..(Len(loaded) + 1) : i = Len(loaded) + 1 \/ i \in 1..Len(loaded)
    BY <2>2
  <2>4. \A i \in DOMAIN loaded' : loaded'[i] = n \/ \E k \in DOMAIN loaded : loaded'[i] = loaded[k]
    BY <2>2, <2>3
  <2>5. (\A i \in DOMAIN loaded : Has(loaded[i]))'
    BY <1>2, <1>3, <2>4 DEF Has
  <2>. QED  BY <2>1, <2>2, <2>5
<1>4. ASSUME NEW n \in Mentioned, Skip(n, n)
      PROVE  /\ skipped' \in Seq(Said) /\ Len(skipped') = Len(skipped) + 1 /\ loaded' = loaded
             /\ \A i \in DOMAIN skipped' : skipped'[i].reason = skipped'[i].name
  <2>. DEFINE x == [name |-> n, reason |-> n]
  <2>1. skipped' = Append(skipped, x) /\ loaded' = loaded
    BY <1>4 DEF Skip
  <2>2. x \in Said /\ x.name = x.reason
    BY DEF Said
  <2>. HIDE DEF x
  <2>3. /\ skipped' \in Seq(Said) /\ Len(skipped') = Len(skipped) + 1 /\ Len(skipped) \in Nat
        /\ skipped'[Len(skipped) + 1] = x /\ \A i \in 1..Len(skipped) : skipped'[i] = skipped[i]
        /\ DOMAIN skipped = 1..Len(skipped) /\ DOMAIN skipped' = 1..(Len(skipped) + 1)
    BY <1>1, <2>1, <2>2
  <2>4. \A i \in 1..(Len(skipped) + 1) : i = Len(skipped) + 1 \/ i \in 1..Len(skipped)
    BY <2>3
  <2>. QED  BY <1>1, <2>1, <2>2, <2>3, <2>4
<1>5. Len(loaded) \in Nat /\ Len(skipped) \in Nat
  BY <1>1
<1>6. CASE \E n \in Names : Has(n)' /\ Report(n)
  <2>1. PICK n \in Names : Has(n)' /\ Report(n)
    BY <1>6
  <2>2. /\ loaded' \in Seq(Names) /\ Len(loaded') = Len(loaded) + 1 /\ skipped' = skipped
        /\ (\A i \in DOMAIN loaded : Has(loaded[i]))'
    BY <1>3, <2>1
  <2>3. \A i \in DOMAIN skipped' : skipped'[i].reason = skipped'[i].name
    BY <1>1, <2>2
  <2>4. Len(loaded') + Len(skipped') = Len(loaded) + Len(skipped) + 1
    BY <1>5, <2>2
  <2>. QED  BY <1>1, <1>5, <2>2, <2>3, <2>4
<1>7. CASE \E n \in Mentioned : Skip(n, n)
  <2>1. PICK n \in Mentioned : Skip(n, n)
    BY <1>7
  <2>2. /\ skipped' \in Seq(Said) /\ Len(skipped') = Len(skipped) + 1 /\ loaded' = loaded
        /\ \A i \in DOMAIN skipped' : skipped'[i].reason = skipped'[i].name
    BY <1>4, <2>1
  <2>3. (\A i \in DOMAIN loaded : Has(loaded[i]))'
    BY <1>2, <2>2 DEF Has
  <2>4. Len(loaded') + Len(skipped') = Len(loaded) + Len(skipped) + 1
    BY <1>5, <2>2
  <2>. QED  BY <1>1, <1>5, <2>2, <2>3, <2>4
<1>. QED  BY <1>6, <1>7

(* An entry is done with, and in the report.                               *)
LEMMA EntryDone ==
  ASSUME RegInv, Running("appConfig"), Grown, manifests' = manifests, lastError' \in Mentioned,
         NEW w, w = NoDir \/ w = job.waiting,
         job' = [op |-> "appConfig", todo |-> Tail(job.todo), waiting |-> w,
                 registry |-> job.registry],
         \/ \E n \in Names : Has(n)' /\ Report(n)
         \/ \E n \in Mentioned : Skip(n, n)
  PROVE  RegInv'
<1>1. /\ job.op = "appConfig" /\ job.todo # <<>> /\ JobRight /\ TypeOK /\ ManifestsRight
      /\ WaitingRight /\ ReportRight
  BY DEF Running, RegInv
<1>2. manifests' \in [Names -> Dirs \cup {NoDir}] /\ ManifestsRight'
  BY <1>1, TypeNames DEF ManifestsRight
<1>3. job.todo \in Seq(Entries)
  BY <1>1 DEF JobRight
<1>4. Tail(job.todo) \in Seq(Entries) /\ Len(Tail(job.todo)) = Len(job.todo) - 1 /\ Len(job.todo) \in Nat
  BY <1>1, <1>3, ItemFacts
<1>5. job'.op = "appConfig" /\ job'.todo = Tail(job.todo) /\ job'.waiting = w
  OBVIOUS
<1>6. JobRight'
  BY <1>4 DEF JobRight, Entries
<1>7. WaitingRight'
  BY <1>1, <1>5 DEF WaitingRight, Grown
<1>8. /\ loaded' \in Seq(Names) /\ skipped' \in Seq(Said)
      /\ Len(loaded') + Len(skipped') = Len(loaded) + Len(skipped) + 1
      /\ Len(loaded) \in Nat /\ Len(skipped) \in Nat
      /\ \A i \in DOMAIN skipped' : skipped'[i].reason = skipped'[i].name
      /\ (\A i \in DOMAIN loaded : Has(loaded[i]))'
  BY <1>1, ReportGrows
<1>9. Len(loaded') + Len(skipped') + Len(job'.todo) = Len(AppConfig)
  <2>1. Len(loaded) + Len(skipped) + Len(job.todo) = Len(AppConfig)
    BY <1>1 DEF ReportRight
  <2>2. Len(job'.todo) = Len(job.todo) - 1
    BY <1>4, <1>5
  <2>3. PICK x \in Nat, y \in Nat : x = Len(loaded') /\ y = Len(skipped')
    BY <1>8
  <2>4. PICK a \in Nat, b \in Nat, c \in Nat :
          a = Len(loaded) /\ b = Len(skipped) /\ c = Len(job.todo)
    BY <1>4, <1>8
  <2>5. x + y = a + b + 1 /\ a + b + c = Len(AppConfig)
    BY <1>8, <2>1, <2>3, <2>4
  <2>6. x + y + (c - 1) = Len(AppConfig)
    BY <2>5
  <2>. QED  BY <2>2, <2>3, <2>4, <2>6
<1>10. ReportRight'
  BY <1>8, <1>9 DEF ReportRight
<1>. QED  BY <1>2, <1>5, <1>6, <1>7, <1>8, <1>10, KeptByLoop

(* The entry at the head is well formed.                                   *)
LEMMA EntryAtHead ==
  ASSUME RegInv, Running("appConfig")
  PROVE  /\ Item \in Entries /\ TypeOK /\ Unique /\ NoneDisposed /\ ManifestsRight /\ JobRight
         /\ lastError \in Mentioned
         /\ NextItem = [op |-> "appConfig", todo |-> Tail(job.todo), waiting |-> job.waiting,
                        registry |-> job.registry]
<1>1. /\ job.op = "appConfig" /\ job.todo # <<>> /\ JobRight /\ TypeOK /\ ManifestsRight /\ Unique
  BY DEF Running, RegInv
<1>2. job.todo \in Seq(Entries)
  BY <1>1 DEF JobRight
<1>. QED  BY <1>1, <1>2, ItemFacts, NextItemFacts, NothingDisposed, TypeNames

(* An entry that is excluded,                                              *)
LEMMA SkipEntryKeeps ==
  ASSUME RegInv, SkipEntry
  PROVE  RegInv'
<1>1. /\ Running("appConfig") /\ UNCHANGED <<records, lastLoaded, manifests, lastError>>
      /\ Skip(EntryName(Item), EntryName(Item)) /\ job' = NextItem
  BY DEF SkipEntry
<1>2. Item \in Entries /\ lastError \in Mentioned
      /\ NextItem = [op |-> "appConfig", todo |-> Tail(job.todo), waiting |-> job.waiting,
                        registry |-> job.registry]
  BY <1>1, EntryAtHead
<1>3. Grown
  BY <1>1, SameRecords DEF Running
<1>4. EntryName(Item) \in Mentioned
  BY <1>2, EntryFacts
<1>5. \E n \in Mentioned : Skip(n, n)
  BY <1>1, <1>4
<1>. QED  BY <1>1, <1>2, <1>3, <1>5, EntryDone

(* one by name,                                                            *)
LEMMA ConfiguredNameKeeps ==
  ASSUME RegInv, ConfiguredName
  PROVE  RegInv'
<1>1. Running("appConfig") /\ Item.kind = "name" /\ manifests' = manifests /\ job' = NextItem
  BY DEF ConfiguredName
<1>2. /\ Item \in Entries /\ TypeOK /\ Unique /\ NoneDisposed /\ ManifestsRight
      /\ lastError \in Mentioned
      /\ NextItem = [op |-> "appConfig", todo |-> Tail(job.todo), waiting |-> job.waiting,
                        registry |-> job.registry]
  BY <1>1, EntryAtHead
<1>3. PICK n \in Names : Item.name = n /\ (n \in Factories => n \in PassedBy)
  BY <1>1, <1>2, EntryFacts
<1>4. PICK ok \in BOOLEAN :
        /\ IF job.registry THEN LoadByName(n, ok)
           ELSE LoadRegistered(n, ok) /\ UNCHANGED lastError
        /\ IF ok THEN Report(n) ELSE Skip(n, IF job.registry THEN lastError' ELSE n)
  BY <1>3 DEF ConfiguredName
<1>5. /\ Grown /\ (ok => Has(n)')
      /\ lastError' \in Mentioned /\ (job.registry /\ ~ok => lastError' = n)
  <2>1. CASE job.registry
    <3>1. LoadByName(n, ok)
      BY <1>4, <2>1
    <3>2. Grown /\ (ok => Has(n)') /\ lastError' = IF ok THEN NoName ELSE n
      BY <1>2, <3>1, LoadByNameGrows
    <3>. QED  BY <3>2 DEF Mentioned
  <2>2. CASE ~job.registry
    <3>1. (ok => n \in Factories) /\ Add(n, ok) /\ lastError' = lastError
      BY <1>4, <2>2 DEF LoadRegistered
    <3>2. Grown /\ (ok => Has(n)')
      BY <1>2, <1>3, <3>1, AddGrows
    <3>. QED  BY <1>2, <2>2, <3>1, <3>2
  <2>. QED  BY <2>1, <2>2
<1>6. CASE ok
  <2>1. \E k \in Names : Has(k)' /\ Report(k)
    BY <1>4, <1>5, <1>6
  <2>. QED  BY <1>1, <1>2, <1>5, <2>1, EntryDone
<1>7. CASE ~ok
  <2>1. n \in Mentioned /\ Skip(n, n)
    BY <1>4, <1>5, <1>7 DEF Mentioned
  <2>2. \E k \in Mentioned : Skip(k, k)
    BY <2>1
  <2>. QED  BY <1>1, <1>2, <1>5, <2>2, EntryDone
<1>. QED  BY <1>6, <1>7

(* one by path,                                                            *)
LEMMA ConfiguredLibraryKeeps ==
  ASSUME RegInv, ConfiguredLibrary
  PROVE  RegInv'
<1>1. /\ Running("appConfig") /\ Item.kind = "library"
      /\ manifests' = manifests /\ lastError' = lastError
  BY DEF ConfiguredLibrary
<1>2. /\ Item \in Entries /\ TypeOK /\ Unique /\ NoneDisposed /\ ManifestsRight
      /\ lastError \in Mentioned /\ JobRight
      /\ NextItem = [op |-> "appConfig", todo |-> Tail(job.todo), waiting |-> job.waiting,
                        registry |-> job.registry]
  BY <1>1, EntryAtHead
<1>3. PICK n \in Names : LibName[Item.dir] = n /\ n \in PassedBy
  BY <1>1, <1>2, EntryFacts
<1>4. EntryName(Item) \in Mentioned /\ manifests \in [Names -> Dirs \cup {NoDir}]
  BY <1>2, EntryFacts, TypeNames
<1>5. CASE /\ Add(n, TRUE) /\ job' = [job EXCEPT !.waiting = Item.dir]
           /\ UNCHANGED <<loaded, skipped>>
  <2>1. Grown /\ Has(n)' /\ lastLoaded' = n
    BY <1>2, <1>3, <1>5, AddGrows
  <2>2. job.op = "appConfig" /\ job.todo \in Seq(Entries) /\ ReportRight
    BY <1>1, <1>2 DEF Running, JobRight, RegInv
  <2>3. PICK b, c, d : job = [op |-> "appConfig", todo |-> b, waiting |-> c, registry |-> d]
    BY <1>2, <2>2 DEF JobRight
  <2>4. PICK e : e = Item.dir
    OBVIOUS
  <2>5. [[op |-> "appConfig", todo |-> b, waiting |-> c, registry |-> d] EXCEPT !.waiting = e]
          = [op |-> "appConfig", todo |-> b, waiting |-> e, registry |-> d]
    OBVIOUS
  <2>6. job' = [op |-> "appConfig", todo |-> b, waiting |-> e, registry |-> d] /\ job.todo = b
    BY <1>5, <2>3, <2>4, <2>5
  <2>7. job'.op = "appConfig" /\ job'.todo = b /\ b \in Seq(Entries)
    BY <2>2, <2>6
  <2>8. JobRight'
    BY <2>6, <2>7 DEF JobRight, Entries
  <2>9. WaitingRight'
    BY <2>1 DEF WaitingRight, Has
  <2>10. loaded' = loaded /\ skipped' = skipped /\ loaded \in Seq(Names) /\ skipped \in Seq(Said)
    BY <1>2, <1>5, TypeNames
  <2>11. \A i \in DOMAIN loaded : \E k \in DOMAIN records' : records'[k].name = loaded[i]
    <3>1. \A m : Has(m) => \E k \in DOMAIN records' : records'[k].name = m
      BY <2>1 DEF Grown, Has
    <3>. QED  BY <2>2, <3>1 DEF ReportRight
  <2>12. ReportRight'
    BY <2>2, <2>6, <2>7, <2>10, <2>11 DEF ReportRight, Has
  <2>13. ManifestsRight'
    BY <1>1, <1>2 DEF ManifestsRight
  <2>. QED  BY <1>1, <1>2, <1>4, <2>1, <2>7, <2>8, <2>9, <2>10, <2>12, <2>13, KeptByLoop
<1>6. CASE Add(n, FALSE) /\ Skip(EntryName(Item), EntryName(Item)) /\ job' = NextItem
  <2>1. Grown
    BY <1>2, <1>6, AddGrows
  <2>2. \E k \in Mentioned : Skip(k, k)
    BY <1>4, <1>6
  <2>. QED  BY <1>1, <1>2, <1>6, <2>1, <2>2, EntryDone
<1>. QED  BY <1>3, <1>5, <1>6 DEF ConfiguredLibrary

(* its report after the load,                                              *)
LEMMA ReportLibraryKeeps ==
  ASSUME RegInv, ReportLibrary
  PROVE  RegInv'
<1>1. /\ Running("appConfig") /\ job.waiting # NoDir /\ Report(lastLoaded)
      /\ UNCHANGED <<records, lastLoaded, manifests, lastError>>
      /\ job' = [NextItem EXCEPT !.waiting = NoDir]
  BY DEF ReportLibrary
<1>2. /\ lastError \in Mentioned
      /\ NextItem = [op |-> "appConfig", todo |-> Tail(job.todo), waiting |-> job.waiting,
                        registry |-> job.registry]
  BY <1>1, EntryAtHead
<1>3. PICK b, c, d : b = Tail(job.todo) /\ c = job.waiting /\ d = job.registry
  OBVIOUS
<1>4. [[op |-> "appConfig", todo |-> b, waiting |-> c, registry |-> d] EXCEPT !.waiting = NoDir]
        = [op |-> "appConfig", todo |-> b, waiting |-> NoDir, registry |-> d]
  OBVIOUS
<1>5. job' = [op |-> "appConfig", todo |-> Tail(job.todo), waiting |-> NoDir,
              registry |-> job.registry]
  BY <1>1, <1>2, <1>3, <1>4
<1>6. Grown
  BY <1>1, SameRecords DEF Running
<1>7. lastLoaded \in Names /\ Has(lastLoaded)'
  BY <1>1 DEF RegInv, WaitingRight, Has
<1>8. \E k \in Names : Has(k)' /\ Report(k)
  <2>1. lastLoaded' = lastLoaded
    BY <1>1
  <2>2. PICK k : k = lastLoaded
    OBVIOUS
  <2>. QED  BY <1>1, <1>7, <2>1, <2>2 DEF Has
<1>. QED  BY <1>1, <1>2, <1>5, <1>6, <1>8, EntryDone

(* A watcher of the host loads a plugin while a library's load runs.       *)
LEMMA NestedLoadKeeps ==
  ASSUME RegInv, NEW n \in Names, NestedLoad(n)
  PROVE  RegInv'
<1>1. /\ job.waiting # NoDir /\ Add(n, TRUE) /\ n \in PassedBy
      /\ UNCHANGED <<manifests, lastError, job, loaded, skipped>>
  BY DEF NestedLoad, PassedBy
<1>2. /\ TypeOK /\ Unique /\ ManifestsRight /\ JobRight /\ ReportRight
      /\ job.op = "appConfig"
  BY <1>1 DEF RegInv, JobRight
<1>3. NoneDisposed
  BY <1>2, NothingDisposed
<1>4. Grown /\ Has(n)' /\ lastLoaded' = n
  BY <1>1, <1>2, <1>3, AddGrows
<1>5. /\ manifests' \in [Names -> Dirs \cup {NoDir}] /\ lastError' \in Mentioned
      /\ loaded' \in Seq(Names) /\ skipped' \in Seq(Said) /\ job'.op = "appConfig"
  BY <1>1, <1>2, TypeNames
<1>6. JobRight' /\ ManifestsRight' /\ WaitingRight'
  <2>1. \A m : Has(m) => \E k \in DOMAIN records' : records'[k].name = m
    BY <1>4 DEF Grown, Has
  <2>. QED  BY <1>1, <1>2, <1>4 DEF JobRight, ManifestsRight, WaitingRight, Entries, Has
<1>7. ReportRight'
  <2>1. \A m : Has(m) => \E k \in DOMAIN records' : records'[k].name = m
    BY <1>4 DEF Grown, Has
  <2>2. \A i \in DOMAIN loaded : \E k \in DOMAIN records' : records'[k].name = loaded[i]
    BY <1>2, <2>1 DEF ReportRight
  <2>. QED  BY <1>1, <1>2, <2>2 DEF ReportRight, Has
<1>. QED  BY <1>4, <1>5, <1>6, <1>7, KeptByLoop

(* A plugin is loaded by name, or as one of all that have a manifest.      *)
LEMMA LoadKeeps ==
  ASSUME RegInv, NEW n \in Names, Load(n)
  PROVE  RegInv'
<1>1. job = Idle /\ UNCHANGED <<manifests, job, loaded, skipped>>
  BY DEF Load
<1>2. PICK ok \in BOOLEAN : LoadByName(n, ok)
  BY DEF Load
<1>3. job.op = "idle" /\ job.waiting = NoDir
  BY <1>1 DEF Idle, Job
<1>4. TypeOK /\ Unique /\ ManifestsRight /\ JobRight /\ NoneDisposed
  BY <1>3, NothingDisposed DEF RegInv
<1>5. Grown /\ lastError' = IF ok THEN NoName ELSE n
  BY <1>2, <1>4, LoadByNameGrows
<1>6. /\ manifests' \in [Names -> Dirs \cup {NoDir}] /\ lastError' \in Mentioned
      /\ loaded' \in Seq(Names) /\ skipped' \in Seq(Said) /\ job'.op = "idle"
  BY <1>1, <1>3, <1>4, <1>5, TypeNames DEF Mentioned
<1>7. JobRight' /\ ManifestsRight' /\ WaitingRight' /\ ReportRight'
  BY <1>1, <1>3, <1>4 DEF JobRight, ManifestsRight, WaitingRight, ReportRight
<1>. QED  BY <1>5, <1>6, <1>7, KeptByLoop

(* the next manifest of loadAll(),                                         *)
LEMMA LoadAllNextKeeps ==
  ASSUME RegInv, LoadAllNext
  PROVE  RegInv'
<1>1. /\ job.op = "loadAll" /\ job.todo # <<>> /\ job' = NextItem
      /\ UNCHANGED <<manifests, loaded, skipped>>
  BY DEF LoadAllNext, Running
<1>2. TypeOK /\ Unique /\ ManifestsRight /\ JobRight /\ NoneDisposed
  BY <1>1, NothingDisposed DEF RegInv
<1>3. job.todo \in Seq(Listed) /\ job.waiting = NoDir
  BY <1>1, <1>2 DEF JobRight
<1>4. Item \in Listed /\ Tail(job.todo) \in Seq(Listed)
  BY <1>1, <1>3, ItemFacts
<1>5. PICK n \in Listed : n = Item
  BY <1>4
<1>6. n \in Names /\ manifests[n] # NoDir
  BY DEF Listed
<1>7. PICK ok \in BOOLEAN : LoadSingle(n, ok) /\ lastError' = IF ok THEN lastError ELSE n
  BY <1>5 DEF LoadAllNext
<1>8. Grown
  BY <1>2, <1>6, <1>7, LoadSingleGrows
<1>9. /\ manifests' \in [Names -> Dirs \cup {NoDir}] /\ lastError' \in Mentioned
      /\ loaded' \in Seq(Names) /\ skipped' \in Seq(Said)
  BY <1>1, <1>2, <1>6, <1>7, TypeNames DEF Mentioned
<1>10. job' = [op |-> "loadAll", todo |-> Tail(job.todo), waiting |-> NoDir,
               registry |-> job.registry]
  BY <1>1, <1>2, <1>3, NextItemFacts
<1>11. Listed' = Listed
  BY <1>1 DEF Listed
<1>12. JobRight' /\ WaitingRight' /\ ReportRight' /\ job'.op = "loadAll"
  BY <1>4, <1>10, <1>11 DEF JobRight, WaitingRight, ReportRight
<1>13. ManifestsRight'
  BY <1>1, <1>2 DEF ManifestsRight
<1>. QED  BY <1>8, <1>9, <1>12, <1>13, KeptByLoop

-----------------------------------------------------------------------------
(* A record turns: it keeps its place and its name.                        *)
LEMMA TurnFacts ==
  ASSUME records \in Seq(Record), NEW i \in DOMAIN records,
         NEW st \in {"Deferred", "Active", "Failed", "Disposed"}, Ctx!Turn(i, st)
  PROVE  /\ records' \in Seq(Record) /\ DOMAIN records' = DOMAIN records
         /\ \A k \in DOMAIN records :
              /\ records'[k].name = records[k].name
              /\ records'[k].state = IF k = i THEN st ELSE records[k].state
<1>. DEFINE x == [name |-> records[i].name, state |-> st]
<1>1. records' = [records EXCEPT ![i].state = st]
  BY DEF Ctx!Turn
<1>2. records[i] \in Record /\ x \in Record /\ x.name = records[i].name /\ x.state = st
  <2>1. records[i] \in Record
    OBVIOUS
  <2>2. records[i].name \in Names
    BY <2>1 DEF Record
  <2>3. x \in Record
    BY <2>2 DEF Record
  <2>. QED  BY <2>1, <2>3
<1>3. [records[i] EXCEPT !.state = st] = x
  BY <1>2 DEF Record
<1>4. records' = [records EXCEPT ![i] = x]
  BY <1>1, <1>3
<1>. HIDE DEF x
<1>. QED  BY <1>2, <1>4

(* A record that turns, and only the one that is unloaded is disposed of.  *)
LEMMA TurnKeeps ==
  ASSUME RegInv, NEW i \in DOMAIN records, NEW st \in {"Deferred", "Active", "Failed", "Disposed"},
         Ctx!Turn(i, st) \/ (records' = records /\ st = "Disposed"),
         UNCHANGED <<lastLoaded, manifests, lastError, loaded, skipped>>,
         \/ st # "Disposed" /\ Ctx!Turn(i, st) /\ UNCHANGED job
         \/ st = "Disposed" /\ job = Idle /\ job' = Job("unload", <<i>>)
  PROVE  RegInv'
<1>1. TypeOK /\ Unique /\ ManifestsRight /\ JobRight /\ DisposedRight /\ WaitingRight /\ ReportRight
  BY DEF RegInv
<1>2. records \in Seq(Record) /\ i \in DOMAIN records
  BY <1>1, TypeNames
<1>3. /\ records' \in Seq(Record) /\ DOMAIN records' = DOMAIN records
      /\ \A k \in DOMAIN records : records'[k].name = records[k].name
  BY <1>2, TurnFacts
<1>4. /\ manifests' \in [Names -> Dirs \cup {NoDir}] /\ lastError' \in Mentioned
      /\ loaded' \in Seq(Names) /\ skipped' \in Seq(Said) /\ lastLoaded' \in Names \cup {NoName}
  BY <1>1, TypeNames
<1>5. Unique' /\ ManifestsRight' /\ \A m : Has(m) => \E k \in DOMAIN records' : records'[k].name = m
  BY <1>1, <1>3 DEF Unique, PassedBy, ManifestsRight, Has
<1>6. CASE st # "Disposed" /\ Ctx!Turn(i, st) /\ UNCHANGED job
  <2>1. TypeOK'
    BY <1>1, <1>3, <1>4, <1>6 DEF TypeOK, Record, Mentioned, Said
  <2>2. \A k \in DOMAIN records : records'[k].state = IF k = i THEN st ELSE records[k].state
    BY <1>2, <1>6, TurnFacts
  <2>3. DisposedRight'
    BY <1>1, <1>3, <1>6, <2>2 DEF DisposedRight
  <2>4. JobRight'
    BY <1>1, <1>3, <1>6 DEF JobRight, Entries, Listed
  <2>5. WaitingRight'
    BY <1>1, <1>5, <1>6 DEF WaitingRight, Has
  <2>6. ReportRight'
    <3>1. job.op = "appConfig" =>
             \A m \in DOMAIN loaded : \E k \in DOMAIN records' : records'[k].name = loaded[m]
      BY <1>1, <1>5 DEF ReportRight
    <3>. QED  BY <1>1, <1>6, <3>1 DEF ReportRight, Has
  <2>. QED  BY <1>5, <2>1, <2>3, <2>4, <2>5, <2>6 DEF RegInv
<1>7. CASE st = "Disposed" /\ job = Idle /\ job' = Job("unload", <<i>>)
  <2>1. job.op = "idle" /\ job' = [op |-> "unload", todo |-> <<i>>, waiting |-> NoDir, registry |-> FALSE]
    BY <1>7, JobFacts DEF Idle, Job
  <2>2. job'.op = "unload" /\ job'.todo = <<i>> /\ job'.waiting = NoDir
    BY <2>1
  <2>3. TypeOK'
    BY <1>3, <1>4, <2>2 DEF TypeOK, Record, Mentioned, Said
  <2>4. \A k \in DOMAIN records : k # i => records'[k].state = records[k].state
    <3>1. CASE records' = records
      BY <3>1
    <3>2. CASE Ctx!Turn(i, st)
      BY <1>2, <3>2, TurnFacts
    <3>. QED  BY <3>1, <3>2
  <2>5. DisposedRight'
    BY <1>1, <1>3, <2>1, <2>2, <2>4 DEF DisposedRight
  <2>6. JobRight' /\ WaitingRight' /\ ReportRight'
    BY <1>2, <1>3, <2>1, <2>2 DEF JobRight, WaitingRight, ReportRight
  <2>. QED  BY <1>5, <2>3, <2>5, <2>6 DEF RegInv
<1>. QED  BY <1>6, <1>7

(* An unload: the record is stopped, then forgotten, and with it the only  *)
(* one that is disposed of.                                                *)
LEMMA UnloadKeeps ==
  ASSUME RegInv, NEW n \in Names, Unload(n)
  PROVE  RegInv'
<1>1. job = Idle /\ UNCHANGED <<lastLoaded, manifests, lastError, loaded, skipped>>
  BY DEF Unload
<1>2. PICK i \in DOMAIN records :
        /\ IF Ctx!Stopped(i) THEN UNCHANGED records ELSE Ctx!Turn(i, "Disposed")
        /\ job' = Job("unload", <<i>>)
  BY DEF Unload
<1>3. Ctx!Turn(i, "Disposed") \/ records' = records
  BY <1>2
<1>. QED  BY <1>1, <1>2, <1>3, TurnKeeps

(* a record that turns by itself,                                          *)
LEMMA RecordTurnsKeeps ==
  ASSUME RegInv, RecordTurns
  PROVE  RegInv'
<1>1. UNCHANGED <<lastLoaded, manifests, lastError, job, loaded, skipped>>
  BY DEF RecordTurns
<1>2. PICK i \in DOMAIN records, st \in {"Deferred", "Active", "Failed"} : Ctx!Turn(i, st)
  BY DEF RecordTurns
<1>3. st \in {"Deferred", "Active", "Failed", "Disposed"} /\ st # "Disposed"
  OBVIOUS
<1>. QED  BY <1>1, <1>2, <1>3, TurnKeeps

(* and the end of an unload keep the invariant.                            *)
LEMMA UnloadDoneKeeps ==
  ASSUME RegInv, UnloadDone
  PROVE  RegInv'
<1>1. /\ job.op = "unload" /\ job' = Idle /\ records' = RemoveAt(records, Item)
      /\ UNCHANGED <<lastLoaded, manifests, lastError, loaded, skipped>>
  BY DEF UnloadDone, Running, Ctx!Forget, RemoveAt, Ctx!RemoveAt
<1>2. TypeOK /\ Unique /\ ManifestsRight /\ JobRight /\ DisposedRight
  BY DEF RegInv
<1>3. PICK k \in DOMAIN records : job.todo = <<k>>
  BY <1>1, <1>2 DEF JobRight
<1>4. Item = k /\ \A i \in DOMAIN records : records[i].state = "Disposed" => i = k
  BY <1>2, <1>3 DEF Item, DisposedRight
<1>5. /\ records \in Seq(Record) /\ manifests' \in [Names -> Dirs \cup {NoDir}]
      /\ lastError' \in Mentioned /\ loaded' \in Seq(Names) /\ skipped' \in Seq(Said)
      /\ lastLoaded' \in Names \cup {NoName}
  BY <1>1, <1>2, TypeNames
<1>6. PICK m \in Nat : m = Len(records) /\ DOMAIN records = 1..m /\ k \in 1..m
  BY <1>5
<1>7. /\ records' \in Seq(Record) /\ Len(records') = m - 1
      /\ \A i \in 1..(m - 1) : records'[i] = IF i < k THEN records[i] ELSE records[i + 1]
  BY <1>1, <1>4, <1>5, <1>6, RemovedPosition
<1>8. DOMAIN records' = 1..(m - 1)
  BY <1>7
<1>. DEFINE up(i) == IF i < k THEN i ELSE i + 1
<1>9. \A i \in 1..(m - 1) : up(i) \in 1..m /\ up(i) # k /\ records'[i] = records[up(i)]
  BY <1>6, <1>7
<1>10. \A i, j \in 1..(m - 1) : up(i) = up(j) => i = j
  BY <1>6
<1>. HIDE DEF up
<1>11. Unique' /\ NoneDisposed'
  <2>1. NoneDisposed'
    BY <1>4, <1>6, <1>8, <1>9 DEF NoneDisposed
  <2>2. ASSUME NEW i \in 1..(m - 1), NEW j \in 1..(m - 1), records'[i].name = records'[j].name
        PROVE  i = j \/ records'[i].name \in PassedBy
    <3>1. records[up(i)].name = records[up(j)].name
      BY <1>9, <2>2
    <3>2. up(i) = up(j) \/ records[up(i)].name \in PassedBy
      BY <1>2, <1>6, <1>9, <3>1 DEF Unique
    <3>. QED  BY <1>9, <1>10, <3>2
  <2>3. Unique'
    BY <1>8, <2>2 DEF Unique, PassedBy
  <2>. QED  BY <2>1, <2>3
<1>12. job' = [op |-> "idle", todo |-> <<>>, waiting |-> NoDir, registry |-> FALSE]
  BY <1>1 DEF Idle, Job
<1>13. job'.op = "idle" /\ JobRight' /\ WaitingRight' /\ ReportRight'
  BY <1>12 DEF JobRight, WaitingRight, ReportRight
<1>14. TypeOK'
  BY <1>5, <1>7, <1>13 DEF TypeOK, Record, Mentioned, Said
<1>15. DisposedRight' /\ ManifestsRight'
  BY <1>1, <1>2, <1>11 DEF DisposedRight, NoneDisposed, ManifestsRight
<1>. QED  BY <1>11, <1>13, <1>14, <1>15 DEF RegInv

-----------------------------------------------------------------------------
(* So does a new registry ...                                              *)
LEMMA InitHolds ==
  ASSUME Init
  PROVE  RegInv
<1>1. /\ records = <<>> /\ lastLoaded = NoName /\ lastError = NoName /\ loaded = <<>> /\ skipped = <<>>
      /\ manifests = [n \in Names |-> NoDir]
      /\ job = [op |-> "idle", todo |-> <<>>, waiting |-> NoDir, registry |-> FALSE]
  BY DEF Init, Ctx!Init, NoManifests, Idle, Job
<1>2. TypeOK /\ JobRight /\ WaitingRight /\ ReportRight
  BY <1>1 DEF TypeOK, JobRight, WaitingRight, ReportRight
<1>3. DisposedRight /\ Unique /\ ManifestsRight
  BY <1>1 DEF DisposedRight, Unique, ManifestsRight
<1>. QED  BY <1>2, <1>3 DEF RegInv

(* ... and every step ...                                                  *)
LEMMA StepKeeps ==
  ASSUME NamesAgree, RegInv, [Next]_vars
  PROVE  RegInv'
<1>1. CASE UNCHANGED vars
  BY <1>1 DEF vars, RegInv, TypeOK, DisposedRight, Unique, PassedBy, ManifestsRight, JobRight,
              Listed, Entries, WaitingRight, ReportRight, Has
<1>2. CASE Next
  BY <1>2, ScanKeeps, ReadManifestKeeps, DescendKeeps, LoadAllNextKeeps, LoadAppConfigKeeps,
     SkipEntryKeeps, ConfiguredNameKeeps, ConfiguredLibraryKeeps, ReportLibraryKeeps, LoadKeeps,
     UnloadKeeps, NestedLoadKeeps, UnloadDoneKeeps, RecordTurnsKeeps DEF Next
<1>. QED  BY <1>1, <1>2

(* ... so it always holds, if manifests name their libraries rightly.      *)
LEMMA RegistryInvariant ==
  ASSUME NamesAgree
  PROVE  Spec => []RegInv
<1>1. Init => RegInv
  BY InitHolds
<1>2. RegInv /\ [Next]_vars => RegInv'
  BY StepKeeps
<1>. QED  BY <1>1, <1>2, PTL DEF Spec

(* Whatever is scanned, loaded, configured and unloaded, a name that comes *)
(* in through the registry alone never has two records in the Context.     *)
THEOREM NeverTwice ==
  ASSUME NamesAgree
  PROVE  Spec => []OneRecordEach
<1>1. RegInv => OneRecordEach
  BY DEF RegInv, Unique, OneRecordEach
<1>2. Spec => []RegInv
  BY RegistryInvariant
<1>. QED  BY <1>1, <1>2, PTL

(* Every entry that loadAppConfig() has worked through is in its report,   *)
(* as skipped with a reason of its own or as loaded, and then its plugin   *)
(* has a record.                                                           *)
THEOREM NeverSilent ==
  ASSUME NamesAgree
  PROVE  Spec => []EntriesAccounted
<1>1. RegInv => EntriesAccounted
  <2>1. SUFFICES ASSUME RegInv, job.op = "appConfig" PROVE EntriesAccounted
    BY DEF EntriesAccounted
  <2>2. TypeOK /\ ReportRight /\ NoneDisposed
    BY <2>1, NothingDisposed DEF RegInv
  <2>3. \A n : Registered(n) <=> Has(n)
    BY <2>2, RegisteredIsHas
  <2>. QED  BY <2>1, <2>2, <2>3 DEF EntriesAccounted, ReportRight
<1>2. Spec => []RegInv
  BY RegistryInvariant
<1>. QED  BY <1>1, <1>2, PTL

-----------------------------------------------------------------------------
(* Scanning, whatever names the libraries have                             *)

(* Reach is a recursive function. Up to each number of levels there is one *)
(* with its equation ...                                                   *)
ReachStep(g, k) ==
  [d \in Dirs |->
     IF Manifest[d].text # "absent" \/ k = 0 THEN {d}
     ELSE {d} \cup UNION {g[k - 1][e] : e \in Children[d]}]

IsReach(g, m) == g = [k \in 0..m |-> ReachStep(g, k)]

(* Up to any depth, what a scan reaches is defined.                        *)
LEMMA ReachExists ==
  ASSUME NEW m \in Nat
  PROVE  \E g : IsReach(g, m)
<1>. DEFINE Bad == {k \in Nat : ~ \E g : IsReach(g, k)}
<1>1. Bad \subseteq Nat
  OBVIOUS
<1>2. 0 \notin Bad
  <2>. DEFINE g == [k \in 0..0 |-> [d \in Dirs |-> {d}]]
  <2>1. \A k \in 0..0 : ReachStep(g, k) = [d \in Dirs |-> {d}]
    BY DEF ReachStep
  <2>2. IsReach(g, 0)
    BY <2>1 DEF IsReach
  <2>. QED  BY <2>2
<1>3. ASSUME NEW n \in Nat, n \notin Bad PROVE n + 1 \notin Bad
  <2>1. PICK f : IsReach(f, n)
    BY <1>3
  <2>. DEFINE g == [k \in 0..(n + 1) |-> IF k = n + 1 THEN ReachStep(f, k) ELSE f[k]]
  <2>2. \A k \in 0..n : f[k] = ReachStep(f, k)
    BY <2>1 DEF IsReach
  <2>3. \A k \in 0..n : g[k] = f[k]
    OBVIOUS
  <2>4. g[n + 1] = ReachStep(f, n + 1)
    OBVIOUS
  <2>5. g = [k \in 0..(n + 1) |-> g[k]]
    OBVIOUS
  <2>. HIDE DEF g
  <2>6. \A k \in 0..(n + 1) : ReachStep(g, k) = ReachStep(f, k)
    <3>1. ASSUME NEW k \in 0..(n + 1), k # 0
          PROVE  ReachStep(g, k) = ReachStep(f, k)
      <4>1. k - 1 \in 0..n
        BY <3>1
      <4>2. g[k - 1] = f[k - 1]
        BY <2>3, <4>1
      <4>. QED  BY <4>2 DEF ReachStep
    <3>2. ReachStep(g, 0) = ReachStep(f, 0)
      BY DEF ReachStep
    <3>. QED  BY <3>1, <3>2
  <2>7. \A k \in 0..(n + 1) : g[k] = ReachStep(g, k)
    <3>1. \A k \in 0..(n + 1) : k = n + 1 \/ k \in 0..n
      OBVIOUS
    <3>. QED  BY <2>2, <2>3, <2>4, <2>6, <3>1
  <2>8. IsReach(g, n + 1)
    BY <2>5, <2>7 DEF IsReach
  <2>. QED  BY <2>8
<1>. HIDE DEF Bad
<1>4. Bad = {}
  BY <1>1, <1>2, <1>3, LeastStep
<1>. QED  BY <1>4 DEF Bad

(* ... so Reach has it.                                                    *)
LEMMA ReachUnfolds ==
  ASSUME NEW d \in Dirs, NEW k \in 0..KMaxScanDepth
  PROVE  Reach[k][d] = IF Manifest[d].text # "absent" \/ k = 0 THEN {d}
                       ELSE {d} \cup UNION {Reach[k - 1][e] : e \in Children[d]}
<1>. DEFINE r == CHOOSE g : IsReach(g, KMaxScanDepth)
<1>1. \E g : IsReach(g, KMaxScanDepth)
  BY ReachExists, PluginRegistryAssumption
<1>2. IsReach(r, KMaxScanDepth)
  BY <1>1
<1>3. Reach = r
  BY DEF Reach, IsReach, ReachStep
<1>. HIDE DEF r
<1>4. Reach[k] = ReachStep(Reach, k)
  BY <1>2, <1>3 DEF IsReach
<1>. QED  BY <1>4 DEF ReachStep

(* A listing of a finite set misses no element.                            *)
LEMMA ListingOnto ==
  ASSUME NEW S, IsFiniteSet(S), NEW q \in SetToSeqs(S)
  PROVE  q \in Seq(S) /\ Len(q) \in Nat /\ \A x \in S : \E j \in 1..Len(q) : q[j] = x
<1>. DEFINE c == Cardinality(S)
<1>1. c \in Nat
  BY FS_CardinalityType
<1>2. q \in [1..c -> S] /\ \A i, j \in 1..c : i # j => q[i] # q[j]
  BY DEF SetToSeqs
<1>3. q \in Seq(S) /\ Len(q) = c
  BY <1>1, <1>2, SeqDef
<1>4. q \in Injection(1..c, S)
  BY <1>2 DEF Injection, IsInjective
<1>5. Cardinality(1..c) = c
  BY <1>1, FS_Interval
<1>6. q \in Surjection(1..c, S)
  BY <1>4, <1>5, FS_Injection
<1>. QED  BY <1>1, <1>3, <1>6 DEF Surjection

-----------------------------------------------------------------------------
Paths == Len(SearchPaths)

(* What search path i offers for a name, and what an item still reaches.   *)
Offer(i, n) == {d \in Reach[KMaxScanDepth][SearchPaths[i]] : Offers(d, n)}
ReachFrom(x) == Reach[KMaxScanDepth - x.depth][x.dir]

(* Search path p is being worked through: f items of `todo` come from it,  *)
(* the paths after it follow. A name has been found where the first path   *)
(* that offers it does, or the paths before p do not offer it, and what p  *)
(* offers is still to come.                                                *)
Progress(p, f, todo, found) ==
  /\ p \in 0..Paths /\ f \in Nat
  /\ Len(todo) = f + (Paths - p)
  /\ \A j \in 1..(Paths - p) : todo[f + j] = [dir |-> SearchPaths[p + j], depth |-> 0]
  /\ \A j \in 1..f : p # 0 /\ ReachFrom(todo[j]) \subseteq Reach[KMaxScanDepth][SearchPaths[p]]
  /\ \A n \in Names :
       found[n] # NoDir =>
         \E i \in 1..p : found[n] \in Offer(i, n) /\ \A h \in 1..(i - 1) : Offer(h, n) = {}
  /\ \A n \in Names :
       found[n] = NoDir =>
         /\ \A i \in 1..(p - 1) : Offer(i, n) = {}
         /\ p # 0 => \A d \in Offer(p, n) : \E j \in 1..f : d \in ReachFrom(todo[j])

(* The types of what Progress counts.                                      *)
LEMMA PathFacts ==
  /\ Paths \in Nat /\ DOMAIN SearchPaths = 1..Paths /\ KMaxScanDepth \in Nat
  /\ \A i \in 1..Paths : SearchPaths[i] \in Dirs
BY PluginRegistryAssumption DEF Paths

(* When nothing of a path is left, the next one begins.                    *)
LEMMA NextPath ==
  ASSUME NEW p, NEW todo, NEW found, Progress(p, 0, todo, found), p # Paths
  PROVE  Progress(p + 1, 1, todo, found)
<1>1. p \in Nat /\ p + 1 \in 1..Paths /\ p + 1 \in 0..Paths /\ Paths \in Nat /\ Paths - p >= 1
  BY PathFacts DEF Progress
<1>2. Len(todo) = 1 + (Paths - (p + 1))
  BY <1>1 DEF Progress
<1>3. \A j \in 1..(Paths - p) : todo[j] = [dir |-> SearchPaths[p + j], depth |-> 0]
  <2>1. \A j \in 1..(Paths - p) : 0 + j = j
    OBVIOUS
  <2>. QED  BY <2>1 DEF Progress
<1>4. ASSUME NEW j \in 1..(Paths - (p + 1))
      PROVE  todo[1 + j] = [dir |-> SearchPaths[(p + 1) + j], depth |-> 0]
  <2>1. 1 + j \in 1..(Paths - p) /\ p + (1 + j) = (p + 1) + j
    BY <1>1
  <2>. QED  BY <1>3, <2>1
<1>5. ReachFrom(todo[1]) = Reach[KMaxScanDepth][SearchPaths[p + 1]]
  <2>1. 1 \in 1..(Paths - p)
    BY <1>1
  <2>2. todo[1] = [dir |-> SearchPaths[p + 1], depth |-> 0]
    BY <1>3, <2>1
  <2>3. todo[1].dir = SearchPaths[p + 1] /\ todo[1].depth = 0
    BY <2>2
  <2>4. KMaxScanDepth - 0 = KMaxScanDepth
    BY PathFacts
  <2>. QED  BY <2>3, <2>4 DEF ReachFrom
<1>6. \A j \in 1..1 : p + 1 # 0 /\ ReachFrom(todo[j]) \subseteq Reach[KMaxScanDepth][SearchPaths[p + 1]]
  BY <1>1, <1>5
<1>7. ASSUME NEW n \in Names, found[n] # NoDir
      PROVE  \E i \in 1..(p + 1) : found[n] \in Offer(i, n) /\ \A h \in 1..(i - 1) : Offer(h, n) = {}
  <2>1. PICK i \in 1..p : found[n] \in Offer(i, n) /\ \A h \in 1..(i - 1) : Offer(h, n) = {}
    BY <1>7 DEF Progress
  <2>2. i \in 1..(p + 1)
    BY <1>1
  <2>. QED  BY <2>1, <2>2
<1>8. ASSUME NEW n \in Names, found[n] = NoDir
      PROVE  /\ \A i \in 1..((p + 1) - 1) : Offer(i, n) = {}
             /\ \A d \in Offer(p + 1, n) : \E j \in 1..1 : d \in ReachFrom(todo[j])
  <2>1. \A i \in 1..(p - 1) : Offer(i, n) = {}
    BY <1>8 DEF Progress
  <2>2. p # 0 => \A d \in Offer(p, n) : FALSE
    BY <1>8 DEF Progress
  <2>3. \A i \in 1..((p + 1) - 1) : i \in 1..(p - 1) \/ (i = p /\ p # 0)
    BY <1>1
  <2>4. \A i \in 1..((p + 1) - 1) : Offer(i, n) = {}
    BY <2>1, <2>2, <2>3
  <2>5. \A d \in Offer(p + 1, n) : d \in ReachFrom(todo[1])
    BY <1>5 DEF Offer
  <2>. QED  BY <2>4, <2>5
<1>. QED  BY <1>1, <1>2, <1>4, <1>6, <1>7, <1>8 DEF Progress

(* So the head of a scan that is not over comes from the path of its       *)
(* progress.                                                               *)
LEMMA AtHead ==
  ASSUME NEW todo, Len(todo) # 0, NEW found, \E p, f : Progress(p, f, todo, found)
  PROVE  \E p, f : f # 0 /\ p # 0 /\ Progress(p, f, todo, found)
<1>1. PICK p, f : Progress(p, f, todo, found)
  OBVIOUS
<1>2. CASE f # 0
  <2>1. f \in Nat /\ 1 \in 1..f
    BY <1>1, <1>2 DEF Progress
  <2>2. p # 0
    BY <1>1, <2>1 DEF Progress
  <2>. QED  BY <1>1, <1>2, <2>2
<1>3. CASE f = 0
  <2>1. p \in Nat /\ p # Paths
    BY <1>1, <1>3, PathFacts DEF Progress
  <2>2. Progress(p + 1, 1, todo, found)
    BY <1>1, <1>3, <2>1, NextPath
  <2>3. p + 1 # 0
    BY <2>1
  <2>. QED  BY <2>2, <2>3
<1>. QED  BY <1>2, <1>3

(* A scan that is over has been through every path.                        *)
LEMMA AtEnd ==
  ASSUME NEW found, \E p, f : Progress(p, f, <<>>, found), NEW n \in Names
  PROVE  /\ found[n] # NoDir => \E i \in 1..Paths : found[n] \in Offer(i, n)
                                                     /\ \A h \in 1..(i - 1) : Offer(h, n) = {}
         /\ found[n] = NoDir => \A i \in 1..Paths : Offer(i, n) = {}
<1>1. PICK p, f : Progress(p, f, <<>>, found)
  OBVIOUS
<1>2. p = Paths /\ f = 0 /\ Paths \in Nat
  BY <1>1, PathFacts DEF Progress
<1>3. ASSUME found[n] = NoDir PROVE \A i \in 1..Paths : Offer(i, n) = {}
  <2>1. \A i \in 1..(p - 1) : Offer(i, n) = {}
    BY <1>1, <1>3 DEF Progress
  <2>2. p # 0 => \A d \in Offer(p, n) : \E j \in 1..f : d \in ReachFrom(<<>>[j])
    BY <1>1, <1>3 DEF Progress
  <2>3. p # 0 => Offer(p, n) = {}
    BY <1>2, <2>2
  <2>4. \A i \in 1..Paths : i \in 1..(p - 1) \/ (i = p /\ p # 0)
    BY <1>2
  <2>. QED  BY <2>1, <2>3, <2>4
<1>. QED  BY <1>1, <1>2, <1>3 DEF Progress

(* The head is replaced by what it leads to; the names it offers are found *)
(* or still to be reached.                                                 *)
LEMMA HeadReplaced ==
  ASSUME NEW todo \in Seq(Place), todo # <<>>, NEW found, NEW found_2, NEW list \in Seq(Place),
         \E p, f : Progress(p, f, todo, found),
         \A j \in 1..Len(list) : ReachFrom(list[j]) \subseteq ReachFrom(Head(todo)),
         \A n \in Names :
           \/ found_2[n] = found[n]
           \/ /\ found[n] = NoDir
              /\ found_2[n] \in ReachFrom(Head(todo)) /\ Offers(found_2[n], n),
         \A n \in Names : found_2[n] = NoDir =>
           \A d \in ReachFrom(Head(todo)) :
             Offers(d, n) => \E j \in 1..Len(list) : d \in ReachFrom(list[j])
  PROVE  \E p, f : Progress(p, f, list \o Tail(todo), found_2)
<1>1. Len(todo) \in Nat /\ Len(todo) # 0 /\ Head(todo) = todo[1] /\ Tail(todo) \in Seq(Place)
      /\ Len(Tail(todo)) = Len(todo) - 1 /\ Len(list) \in Nat
  OBVIOUS
<1>2. PICK p, f : f # 0 /\ p # 0 /\ Progress(p, f, todo, found)
  BY <1>1, AtHead
<1>. DEFINE l == Len(list)
            new == list \o Tail(todo)
            g == (f - 1) + l
<1>3. /\ p \in 1..Paths /\ p \in 0..Paths /\ Paths \in Nat /\ f \in Nat /\ f - 1 \in Nat
      /\ Len(todo) = f + (Paths - p) /\ l \in Nat /\ g \in Nat
  BY <1>1, <1>2, PathFacts DEF Progress
<1>4. Len(new) = g + (Paths - p)
  BY <1>1, <1>3
<1>5. /\ \A j \in 1..l : new[j] = list[j]
      /\ \A j \in 2..Len(todo) : new[(l - 1) + j] = todo[j]
  <2>1. \A j \in 1..l : new[j] = list[j]
    OBVIOUS
  <2>2. ASSUME NEW j \in 2..Len(todo) PROVE new[(l - 1) + j] = todo[j]
    <3>1. (l - 1) + j \in 1..(l + Len(Tail(todo))) /\ (l - 1) + j > l /\ ((l - 1) + j) - l = j - 1
      BY <1>1, <1>3
    <3>2. new[(l - 1) + j] = Tail(todo)[j - 1]
      BY <1>1, <3>1
    <3>3. j - 1 \in 1..(Len(todo) - 1) /\ (j - 1) + 1 = j
      BY <1>1
    <3>4. Tail(todo)[j - 1] = todo[j]
      BY <1>1, <3>3
    <3>. QED  BY <3>2, <3>4
  <2>. QED  BY <2>1, <2>2
<1>. HIDE DEF new
<1>6. ASSUME NEW j \in 1..(Paths - p) PROVE new[g + j] = [dir |-> SearchPaths[p + j], depth |-> 0]
  <2>1. f + j \in 2..Len(todo) /\ (l - 1) + (f + j) = g + j
    BY <1>2, <1>3
  <2>2. todo[f + j] = [dir |-> SearchPaths[p + j], depth |-> 0]
    BY <1>2 DEF Progress
  <2>. QED  BY <1>5, <2>1, <2>2
<1>7. \A j \in 1..f : ReachFrom(todo[j]) \subseteq Reach[KMaxScanDepth][SearchPaths[p]]
  BY <1>2 DEF Progress
<1>8. ReachFrom(todo[1]) \subseteq Reach[KMaxScanDepth][SearchPaths[p]]
  BY <1>2, <1>3, <1>7
<1>9. ASSUME NEW j \in 1..g PROVE ReachFrom(new[j]) \subseteq Reach[KMaxScanDepth][SearchPaths[p]]
  <2>1. CASE j \in 1..l
    BY <1>1, <1>5, <1>8, <2>1
  <2>2. CASE j \notin 1..l
    <3>. DEFINE k == (j - l) + 1
    <3>1. k \in 2..Len(todo) /\ k \in 1..f /\ (l - 1) + k = j
      BY <1>3, <2>2
    <3>2. new[j] = todo[k]
      BY <1>5, <3>1
    <3>. QED  BY <1>7, <3>1, <3>2
  <2>. QED  BY <2>1, <2>2
<1>10. ASSUME NEW n \in Names, found_2[n] # NoDir
       PROVE  \E i \in 1..p : found_2[n] \in Offer(i, n) /\ \A h \in 1..(i - 1) : Offer(h, n) = {}
  <2>1. CASE found_2[n] = found[n]
    BY <1>2, <1>10, <2>1 DEF Progress
  <2>2. CASE found[n] = NoDir /\ found_2[n] \in ReachFrom(todo[1]) /\ Offers(found_2[n], n)
    <3>1. found_2[n] \in Offer(p, n)
      BY <1>8, <2>2 DEF Offer
    <3>2. \A h \in 1..(p - 1) : Offer(h, n) = {}
      BY <1>2, <2>2 DEF Progress
    <3>. QED  BY <1>3, <3>1, <3>2
  <2>. QED  BY <1>1, <2>1, <2>2
<1>11. ASSUME NEW n \in Names, found_2[n] = NoDir
       PROVE  /\ \A i \in 1..(p - 1) : Offer(i, n) = {}
              /\ \A d \in Offer(p, n) : \E j \in 1..g : d \in ReachFrom(new[j])
  <2>1. found[n] = NoDir
    BY <1>11
  <2>2. \A i \in 1..(p - 1) : Offer(i, n) = {}
    BY <1>2, <2>1 DEF Progress
  <2>3. ASSUME NEW d \in Offer(p, n) PROVE \E j \in 1..g : d \in ReachFrom(new[j])
    <3>1. PICK j \in 1..f : d \in ReachFrom(todo[j])
      BY <1>2, <2>1 DEF Progress
    <3>2. CASE j = 1
      <4>1. Offers(d, n)
        BY DEF Offer
      <4>2. PICK k \in 1..l : d \in ReachFrom(list[k])
        BY <1>1, <1>11, <3>1, <3>2, <4>1
      <4>3. k \in 1..g /\ new[k] = list[k]
        BY <1>3, <1>5
      <4>. QED  BY <4>2, <4>3
    <3>3. CASE j # 1
      <4>1. j \in 2..Len(todo) /\ (l - 1) + j \in 1..g
        BY <1>3, <3>3
      <4>2. new[(l - 1) + j] = todo[j]
        BY <1>5, <4>1
      <4>. QED  BY <3>1, <4>1, <4>2
    <3>. QED  BY <3>2, <3>3
  <2>. QED  BY <2>2, <2>3
<1>12. Progress(p, g, new, found_2)
  <2>. HIDE DEF g
  <2>. QED  BY <1>2, <1>3, <1>4, <1>6, <1>9, <1>10, <1>11 DEF Progress
<1>. QED  BY <1>12 DEF new

(* A job with other items.                                                 *)
LEMMA OtherItems ==
  ASSUME NEW e,
         job = [op |-> job.op, todo |-> job.todo, waiting |-> job.waiting, registry |-> job.registry]
  PROVE  [job EXCEPT !.todo = e] = [op |-> job.op, todo |-> e, waiting |-> job.waiting,
                                    registry |-> job.registry]
<1>1. PICK a, b, c, d : job = [op |-> a, todo |-> b, waiting |-> c, registry |-> d]
  OBVIOUS
<1>2. job.op = a /\ job.todo = b /\ job.waiting = c /\ job.registry = d
  BY <1>1
<1>. QED  BY <1>1, <1>2

(* The scan in progress.                                                   *)
Searching ==
  /\ manifests \in [Names -> Dirs \cup {NoDir}]
  /\ job = [op |-> job.op, todo |-> job.todo, waiting |-> job.waiting, registry |-> job.registry]
  /\ job.op = "scan" => /\ job.todo \in Seq(Place)
                        /\ \E p, f : Progress(p, f, job.todo, manifests)

(* A scan begins before the first path.                                    *)
LEMMA ScanSearches ==
  ASSUME Scan
  PROVE  Searching'
<1>. DEFINE q == [i \in DOMAIN SearchPaths |-> [dir |-> SearchPaths[i], depth |-> 0]]
<1>1. job' = [op |-> "scan", todo |-> q, waiting |-> NoDir, registry |-> FALSE] /\ manifests' = NoManifests
  BY DEF Scan, Job
<1>2. /\ \A i \in 1..Paths : q[i] = [dir |-> SearchPaths[i], depth |-> 0]
      /\ q \in Seq(Place) /\ Len(q) = Paths
  <2>1. q \in [1..Paths -> Place]
    BY PathFacts DEF Place
  <2>. QED  BY <2>1, PathFacts, SeqDef
<1>3. NoManifests \in [Names -> Dirs \cup {NoDir}] /\ \A n \in Names : NoManifests[n] = NoDir
  BY DEF NoManifests
<1>. HIDE DEF q
<1>4. Progress(0, 0, q, NoManifests)
  <2>1. 0 \in 0..Paths /\ 0 \in Nat /\ Len(q) = 0 + (Paths - 0) /\ Paths - 0 = Paths
    BY <1>2, PathFacts
  <2>2. \A j \in 1..(Paths - 0) : q[0 + j] = [dir |-> SearchPaths[0 + j], depth |-> 0]
    <3>1. \A j \in 1..Paths : 0 + j = j
      OBVIOUS
    <3>. QED  BY <1>2, <2>1, <3>1
  <2>3. \A i \in 1..(0 - 1) : FALSE
    OBVIOUS
  <2>4. \A j \in 1..0 : FALSE
    OBVIOUS
  <2>. QED  BY <1>3, <2>1, <2>2, <2>3, <2>4 DEF Progress
<1>5. job'.op = "scan" /\ job'.todo = q
  BY <1>1
<1>6. \E p, f : Progress(p, f, job'.todo, manifests')
  BY <1>1, <1>4, <1>5
<1>. QED  BY <1>1, <1>2, <1>3, <1>5, <1>6 DEF Searching

(* The item of a step of the scan.                                         *)
LEMMA SearchItem ==
  ASSUME Searching, Running("scan")
  PROVE  /\ job.op = "scan" /\ job.todo \in Seq(Place) /\ job.todo # <<>> /\ Item = Head(job.todo)
         /\ Tail(job.todo) \in Seq(Place) /\ \E p, f : Progress(p, f, job.todo, manifests)
         /\ Item.dir \in Dirs /\ Item.depth \in 0..KMaxScanDepth
         /\ Manifest[Item.dir] \in ManifestFile
         /\ Children[Item.dir] \subseteq Dirs /\ IsFiniteSet(Children[Item.dir])
<1>1. job.op = "scan" /\ job.todo \in Seq(Place) /\ job.todo # <<>> /\ Item = Head(job.todo)
  BY DEF Searching, Running, Item
<1>2. Item \in Place /\ Tail(job.todo) \in Seq(Place)
  BY <1>1
<1>3. Item.dir \in Dirs /\ Item.depth \in 0..KMaxScanDepth
  BY <1>2 DEF Place
<1>. QED  BY <1>1, <1>2, <1>3, PluginRegistryAssumption DEF Searching

(* What an item still reaches.                                             *)
LEMMA ReachFromUnfolds ==
  ASSUME NEW x \in Place
  PROVE  ReachFrom(x) =
           IF Manifest[x.dir].text # "absent" \/ IsLeaf(x.depth) THEN {x.dir}
           ELSE {x.dir} \cup UNION {Reach[(KMaxScanDepth - x.depth) - 1][e] : e \in Children[x.dir]}
<1>1. x.dir \in Dirs /\ x.depth \in 0..KMaxScanDepth /\ KMaxScanDepth \in Nat
  BY PathFacts DEF Place
<1>2. KMaxScanDepth - x.depth \in 0..KMaxScanDepth
      /\ (KMaxScanDepth - x.depth = 0 <=> x.depth = KMaxScanDepth)
  BY <1>1
<1>. QED  BY <1>1, <1>2, ReachUnfolds DEF ReachFrom, IsLeaf

(* The scan after a step that replaces the head.                           *)
LEMMA SearchContinues ==
  ASSUME Searching, NEW list \in Seq(Place), Tail(job.todo) \in Seq(Place),
         manifests' \in [Names -> Dirs \cup {NoDir}],
         job' = [job EXCEPT !.todo = list \o Tail(job.todo)],
         \E p, f : Progress(p, f, list \o Tail(job.todo), manifests')
  PROVE  Searching'
<1>1. job' = [op |-> job.op, todo |-> list \o Tail(job.todo), waiting |-> job.waiting,
              registry |-> job.registry]
  BY OtherItems DEF Searching
<1>2. job'.todo = list \o Tail(job.todo) /\ job'.op = job.op /\ job'.waiting = job.waiting
      /\ job'.registry = job.registry
  BY <1>1
<1>3. list \o Tail(job.todo) \in Seq(Place)
  OBVIOUS
<1>. QED  BY <1>1, <1>2, <1>3 DEF Searching

(* A manifest is read: the name it gives is found, unless it is a          *)
(* duplicate, and nothing else was on offer here.                          *)
LEMMA ReadManifestSearches ==
  ASSUME Searching, ReadManifest
  PROVE  Searching'
<1>. DEFINE m == Manifest[Item.dir]
<1>1. Running("scan") /\ m.text # "absent" /\ job' = [job EXCEPT !.todo = Tail(job.todo)]
  BY DEF ReadManifest, NextItem
<1>2. /\ job.todo \in Seq(Place) /\ job.todo # <<>> /\ Item = Head(job.todo)
      /\ Tail(job.todo) \in Seq(Place) /\ \E p, f : Progress(p, f, job.todo, manifests)
      /\ Item.dir \in Dirs /\ m \in ManifestFile
  BY <1>1, SearchItem
<1>3. Item \in Place
  BY <1>2
<1>4. ReachFrom(Item) = {Item.dir}
  BY <1>1, <1>3, ReachFromUnfolds
<1>5. \A n \in Names : Offers(Item.dir, n) => IsValid(m) /\ m.name = n
  <2>1. SUFFICES ASSUME NEW n \in Names, Offers(Item.dir, n) PROVE IsValid(m) /\ m.name = n
    OBVIOUS
  <2>2. m = [text |-> "object", name |-> n, entry |-> "inside", abi |-> TRUE]
    BY <2>1 DEF Offers
  <2>3. n # NoName
    BY PluginRegistryAssumption
  <2>. QED  BY <2>2, <2>3 DEF IsValid
<1>6. IsValid(m) => m.name \in Names /\ Offers(Item.dir, m.name)
  <2>1. SUFFICES ASSUME IsValid(m) PROVE m.name \in Names /\ Offers(Item.dir, m.name)
    OBVIOUS
  <2>2. m = [text |-> m.text, name |-> m.name, entry |-> m.entry, abi |-> m.abi]
        /\ m.name \in Names \cup {NoName} /\ m.abi \in BOOLEAN
    BY <1>2 DEF ManifestFile
  <2>. HIDE DEF m
  <2>3. m = [text |-> "object", name |-> m.name, entry |-> "inside", abi |-> TRUE]
    BY <2>1, <2>2 DEF IsValid
  <2>. QED  BY <2>1, <2>2, <2>3 DEF IsValid, Offers, m
<1>7. manifests \in [Names -> Dirs \cup {NoDir}] /\ NoDir \notin Dirs
  BY PluginRegistryAssumption DEF Searching
<1>8. /\ manifests' \in [Names -> Dirs \cup {NoDir}]
      /\ \A n \in Names :
           \/ manifests'[n] = manifests[n]
           \/ manifests[n] = NoDir /\ manifests'[n] = Item.dir /\ Offers(Item.dir, n)
      /\ \A n \in Names : manifests'[n] = NoDir => ~Offers(Item.dir, n)
  <2>1. CASE ~IsValid(m)
    <3>1. manifests' = manifests
      BY <2>1 DEF ReadManifest
    <3>. QED  BY <1>5, <1>7, <2>1, <3>1
  <2>2. CASE IsValid(m) /\ manifests[m.name] # NoDir
    <3>1. manifests' = manifests
      BY <2>2 DEF ReadManifest, Duplicate
    <3>. QED  BY <1>5, <1>7, <2>2, <3>1
  <2>3. CASE IsValid(m) /\ manifests[m.name] = NoDir
    <3>1. manifests' = [manifests EXCEPT ![m.name] = Item.dir]
      BY <2>3 DEF ReadManifest, Duplicate
    <3>. HIDE DEF m
    <3>2. \A n \in Names : manifests'[n] = IF n = m.name THEN Item.dir ELSE manifests[n]
      BY <1>7, <3>1
    <3>3. manifests' \in [Names -> Dirs \cup {NoDir}]
      BY <1>2, <1>7, <3>1
    <3>. QED  BY <1>2, <1>5, <1>6, <1>7, <2>3, <3>2, <3>3
  <2>. QED  BY <2>1, <2>2, <2>3
<1>. HIDE DEF m
<1>9. <<>> \in Seq(Place) /\ \A j \in 1..Len(<<>>) : FALSE
  OBVIOUS
<1>10. \E p, f : Progress(p, f, <<>> \o Tail(job.todo), manifests')
  <2>. DEFINE none == <<>>
  <2>1. none \in Seq(Place) /\ \A j \in 1..Len(none) : ReachFrom(none[j]) \subseteq ReachFrom(Head(job.todo))
    BY <1>9
  <2>2. \A n \in Names : \/ manifests'[n] = manifests[n]
                         \/ /\ manifests[n] = NoDir
                            /\ manifests'[n] \in ReachFrom(Head(job.todo)) /\ Offers(manifests'[n], n)
    BY <1>2, <1>4, <1>8
  <2>3. \A n \in Names : manifests'[n] = NoDir =>
           \A d \in ReachFrom(Head(job.todo)) :
             Offers(d, n) => \E j \in 1..Len(none) : d \in ReachFrom(none[j])
    BY <1>2, <1>4, <1>8
  <2>. HIDE DEF none
  <2>4. \E p, f : Progress(p, f, none \o Tail(job.todo), manifests')
    BY <1>2, <2>1, <2>2, <2>3, HeadReplaced
  <2>. QED  BY <2>4 DEF none
<1>11. <<>> \o Tail(job.todo) = Tail(job.todo)
  BY <1>2
<1>. QED  BY <1>1, <1>2, <1>8, <1>9, <1>10, <1>11, SearchContinues

(* A directory without: what it leads to comes next, and it offers nothing *)
(* itself.                                                                 *)
LEMMA DescendSearches ==
  ASSUME Searching, Descend
  PROVE  Searching'
<1>1. Running("scan") /\ Manifest[Item.dir].text = "absent" /\ manifests' = manifests
  BY DEF Descend
<1>2. /\ job.todo \in Seq(Place) /\ job.todo # <<>> /\ Item = Head(job.todo)
      /\ Tail(job.todo) \in Seq(Place) /\ \E p, f : Progress(p, f, job.todo, manifests)
      /\ Item.dir \in Dirs /\ Item.depth \in 0..KMaxScanDepth
      /\ Children[Item.dir] \subseteq Dirs /\ IsFiniteSet(Children[Item.dir])
  BY <1>1, SearchItem
<1>3. Item \in Place
  BY <1>2
<1>4. \A n : ~Offers(Item.dir, n)
  BY <1>1 DEF Offers
<1>5. manifests \in [Names -> Dirs \cup {NoDir}] /\ KMaxScanDepth \in Nat
  BY PathFacts DEF Searching
<1>6. PICK list \in Seq(Place) :
        /\ job' = [job EXCEPT !.todo = list \o Tail(job.todo)]
        /\ \A j \in 1..Len(list) : ReachFrom(list[j]) \subseteq ReachFrom(Item)
        /\ \A d \in ReachFrom(Item) : d = Item.dir \/ \E j \in 1..Len(list) : d \in ReachFrom(list[j])
  <2>1. CASE IsLeaf(Item.depth)
    <3>1. ReachFrom(Item) = {Item.dir}
      BY <1>3, <2>1, ReachFromUnfolds
    <3>2. job' = [job EXCEPT !.todo = <<>> \o Tail(job.todo)]
      BY <1>2, <2>1 DEF Descend, NextItem
    <3>3. <<>> \in Seq(Place) /\ \A j \in 1..Len(<<>>) : FALSE
      OBVIOUS
    <3>. QED  BY <3>1, <3>2, <3>3
  <2>2. CASE ~IsLeaf(Item.depth)
    <3>. DEFINE C == Children[Item.dir]
                f == [d \in C |-> [dir |-> d, depth |-> Item.depth + 1]]
                S == {[dir |-> d, depth |-> Item.depth + 1] : d \in C}
    <3>1. PICK list \in SetToSeqs(S) : job' = [job EXCEPT !.todo = list \o Tail(job.todo)]
      BY <2>2 DEF Descend
    <3>2. Item.depth + 1 \in 0..KMaxScanDepth
          /\ KMaxScanDepth - (Item.depth + 1) = (KMaxScanDepth - Item.depth) - 1
      BY <1>2, <1>5, <2>2 DEF IsLeaf
    <3>3. S \subseteq Place
      BY <1>2, <3>2 DEF Place
    <3>4. IsFiniteSet(C) /\ f \in Surjection(C, S)
      BY <1>2 DEF Surjection
    <3>5. \A d \in C : [dir |-> d, depth |-> Item.depth + 1] \in S
                       /\ ReachFrom([dir |-> d, depth |-> Item.depth + 1])
                            = Reach[(KMaxScanDepth - Item.depth) - 1][d]
      BY <3>2 DEF ReachFrom
    <3>6. \A x \in S : \E d \in C : x = [dir |-> d, depth |-> Item.depth + 1]
      OBVIOUS
    <3>7. ReachFrom(Item) =
            {Item.dir} \cup UNION {Reach[(KMaxScanDepth - Item.depth) - 1][e] : e \in C}
      BY <1>1, <1>3, <2>2, ReachFromUnfolds
    <3>. HIDE DEF C, S, f
    <3>8. IsFiniteSet(S)
      BY <3>4, FS_Surjection
    <3>9. list \in Seq(S) /\ Len(list) \in Nat /\ \A x \in S : \E j \in 1..Len(list) : list[j] = x
      BY <3>8, ListingOnto
    <3>10. \A x \in S : ReachFrom(x) \subseteq ReachFrom(Item)
      BY <3>5, <3>6, <3>7
    <3>11. \A j \in 1..Len(list) : ReachFrom(list[j]) \subseteq ReachFrom(Item)
      BY <3>9, <3>10
    <3>12. ASSUME NEW d \in ReachFrom(Item), d # Item.dir
           PROVE  \E j \in 1..Len(list) : d \in ReachFrom(list[j])
      <4>1. PICK e \in C : d \in Reach[(KMaxScanDepth - Item.depth) - 1][e]
        BY <3>7, <3>12
      <4>2. PICK x \in S : d \in ReachFrom(x)
        BY <3>5, <4>1
      <4>. QED  BY <3>9, <4>2
    <3>13. list \in Seq(Place)
      BY <3>3, <3>9
    <3>. QED  BY <3>1, <3>11, <3>12, <3>13
  <2>. QED  BY <2>1, <2>2
<1>7. \A n \in Names : manifests'[n] = NoDir =>
        \A d \in ReachFrom(Head(job.todo)) :
          Offers(d, n) => \E j \in 1..Len(list) : d \in ReachFrom(list[j])
  BY <1>2, <1>4, <1>6
<1>8. \E p, f : Progress(p, f, list \o Tail(job.todo), manifests')
  <2>1. \A j \in 1..Len(list) : ReachFrom(list[j]) \subseteq ReachFrom(Head(job.todo))
    BY <1>2, <1>6
  <2>2. \A n \in Names : manifests'[n] = manifests[n]
    BY <1>1
  <2>. QED  BY <1>2, <1>7, <2>1, <2>2, HeadReplaced
<1>. QED  BY <1>1, <1>2, <1>5, <1>6, <1>8, SearchContinues

(* Nothing has been found at first.                                        *)
LEMMA SearchInit ==
  ASSUME Init
  PROVE  Searching
<1>1. manifests = [n \in Names |-> NoDir]
      /\ job = [op |-> "idle", todo |-> <<>>, waiting |-> NoDir, registry |-> FALSE]
  BY DEF Init, NoManifests, Idle, Job
<1>. QED  BY <1>1 DEF Searching

(* Every other step leaves the scan alone, ends it, or belongs to another  *)
(* loop.                                                                   *)
LEMMA OthersSearch ==
  ASSUME Searching, Next, ~Scan, ~ReadManifest, ~Descend
  PROVE  Searching'
<1>. DEFINE Shape(j) == j = [op |-> j.op, todo |-> j.todo, waiting |-> j.waiting, registry |-> j.registry]
            Elsewhere == /\ manifests' \in [Names -> Dirs \cup {NoDir}] /\ Shape(job') /\ job'.op # "scan"
<1>1. Elsewhere => Searching'
  BY DEF Searching
<1>2. UNCHANGED <<manifests, job>> => Searching'
  BY DEF Searching
<1>3. manifests \in [Names -> Dirs \cup {NoDir}] /\ NoManifests \in [Names -> Dirs \cup {NoDir}]
      /\ Shape(job)
  BY DEF Searching, NoManifests
<1>4. \A op, todo : Job(op, todo) = [op |-> op, todo |-> todo, waiting |-> NoDir, registry |-> FALSE]
  BY DEF Job
<1>5. Idle = [op |-> "idle", todo |-> <<>>, waiting |-> NoDir, registry |-> FALSE]
  BY <1>4 DEF Idle
<1>6. NextItem = [op |-> job.op, todo |-> Tail(job.todo), waiting |-> job.waiting,
                  registry |-> job.registry]
  BY <1>3, OtherItems DEF NextItem
<1>7. \A w : [NextItem EXCEPT !.waiting = w]
               = [op |-> job.op, todo |-> Tail(job.todo), waiting |-> w, registry |-> job.registry]
  <2>1. PICK a, b, c, d : NextItem = [op |-> a, todo |-> b, waiting |-> c, registry |-> d]
                          /\ a = job.op /\ b = Tail(job.todo) /\ d = job.registry
    BY <1>6
  <2>2. \A w : [[op |-> a, todo |-> b, waiting |-> c, registry |-> d] EXCEPT !.waiting = w]
                 = [op |-> a, todo |-> b, waiting |-> w, registry |-> d]
    OBVIOUS
  <2>. QED  BY <2>1, <2>2
<1>8. \A w : [job EXCEPT !.waiting = w]
               = [op |-> job.op, todo |-> job.todo, waiting |-> w, registry |-> job.registry]
  <2>1. PICK a, b, c, d : job = [op |-> a, todo |-> b, waiting |-> c, registry |-> d]
    BY <1>3
  <2>2. job.op = a /\ job.todo = b /\ job.waiting = c /\ job.registry = d
    BY <2>1
  <2>. QED  BY <2>1, <2>2
<1>9. CASE Clear
  BY <1>1, <1>3, <1>5, <1>9 DEF Clear
<1>10. CASE JobDone
  BY <1>1, <1>3, <1>5, <1>10 DEF JobDone
<1>11. CASE LoadAll
  <2>1. PICK order : job' = [op |-> "loadAll", todo |-> order, waiting |-> NoDir, registry |-> FALSE]
    BY <1>4, <1>11 DEF LoadAll
  <2>2. manifests' = manifests
    BY <1>11 DEF LoadAll
  <2>. QED  BY <1>1, <1>3, <2>1, <2>2
<1>12. CASE LoadAppConfig
  <2>1. PICK given : job' = [Job("appConfig", AppConfig) EXCEPT !.registry = given]
    BY <1>12 DEF LoadAppConfig
  <2>2. job' = [op |-> "appConfig", todo |-> AppConfig, waiting |-> NoDir, registry |-> given]
    BY <1>4, <2>1
  <2>3. manifests' = manifests
    BY <1>12 DEF LoadAppConfig
  <2>. QED  BY <1>1, <1>3, <2>2, <2>3
<1>13. CASE LoadAllNext \/ SkipEntry \/ ConfiguredName
  <2>1. job.op # "scan" /\ job' = NextItem /\ manifests' = manifests
    BY <1>13 DEF LoadAllNext, SkipEntry, ConfiguredName, Running
  <2>. QED  BY <1>1, <1>3, <1>6, <2>1
<1>14. CASE ConfiguredLibrary \/ ReportLibrary
  <2>1. job.op # "scan" /\ manifests' = manifests
    BY <1>14 DEF ConfiguredLibrary, ReportLibrary, Running
  <2>2. \/ job' = NextItem
        \/ \E w : job' = [job EXCEPT !.waiting = w]
        \/ \E w : job' = [NextItem EXCEPT !.waiting = w]
    BY <1>14 DEF ConfiguredLibrary, ReportLibrary
  <2>. QED  BY <1>1, <1>3, <1>6, <1>7, <1>8, <2>1, <2>2
<1>15. ASSUME NEW n \in Names, Unload(n) PROVE Searching'
  <2>1. PICK i : job' = [op |-> "unload", todo |-> <<i>>, waiting |-> NoDir, registry |-> FALSE]
    BY <1>4, <1>15 DEF Unload
  <2>2. manifests' = manifests
    BY <1>15 DEF Unload
  <2>. QED  BY <1>1, <1>3, <2>1, <2>2
<1>16. CASE UnloadDone
  BY <1>1, <1>3, <1>5, <1>16 DEF UnloadDone
<1>17. CASE RecordTurns \/ \E n \in Names : Load(n) \/ NestedLoad(n)
  BY <1>2, <1>17 DEF RecordTurns, Load, NestedLoad
<1>. QED  BY <1>9, <1>10, <1>11, <1>12, <1>13, <1>14, <1>15, <1>16, <1>17 DEF Next

(* After a scan every name has the manifest that the first search path to  *)
(* offer one offers, and no name is missed, in whatever order directories  *)
(* are listed, for every tree of directories, however search paths overlap.*)
THEOREM ScansExactly == Spec => []ScanExact
<1>1. Init => Searching
  BY SearchInit
<1>2. Searching /\ [Next]_vars => Searching'
  <2>1. Searching /\ UNCHANGED vars => Searching'
    BY DEF Searching, vars
  <2>. QED  BY <2>1, ScanSearches, ReadManifestSearches, DescendSearches, OthersSearch
<1>3. Searching => ScanExact
  <2>1. SUFFICES ASSUME Searching, job.op = "scan", job.todo = <<>>, NEW n \in Names
                 PROVE  LET offer(i) == {d \in Reach[KMaxScanDepth][SearchPaths[i]] : Offers(d, n)}
                            paths == {i \in DOMAIN SearchPaths : offer(i) # {}} IN
                        IF paths = {} THEN manifests[n] = NoDir ELSE manifests[n] \in offer(Min(paths))
    BY DEF ScanExact
  <2>. DEFINE paths == {i \in DOMAIN SearchPaths : Offer(i, n) # {}}
  <2>2. \E p, f : Progress(p, f, <<>>, manifests)
    BY <2>1 DEF Searching
  <2>3. /\ manifests[n] # NoDir => \E i \in 1..Paths : manifests[n] \in Offer(i, n)
                                                       /\ \A h \in 1..(i - 1) : Offer(h, n) = {}
        /\ manifests[n] = NoDir => \A i \in 1..Paths : Offer(i, n) = {}
    BY <2>2, AtEnd
  <2>4. ASSUME manifests[n] # NoDir PROVE paths # {} /\ manifests[n] \in Offer(Min(paths), n)
    <3>1. PICK i \in 1..Paths : manifests[n] \in Offer(i, n) /\ \A h \in 1..(i - 1) : Offer(h, n) = {}
      BY <2>3, <2>4
    <3>2. i \in paths /\ i \in Nat /\ paths \subseteq 1..Paths
      BY <3>1, PathFacts
    <3>3. \A j \in paths : i <= j
      BY <3>1, <3>2
    <3>. HIDE DEF paths
    <3>4. ASSUME NEW x \in paths, \A y \in paths : x <= y PROVE x = i
      <4>1. x \in Nat /\ x <= i /\ i <= x
        BY <3>2, <3>3, <3>4, PathFacts
      <4>. QED  BY <3>2, <4>1
    <3>5. Min(paths) = i
      BY <3>2, <3>3, <3>4, Zenon DEF Min
    <3>. QED  BY <3>1, <3>2, <3>5
  <2>5. manifests[n] = NoDir => paths = {}
    BY <2>3, PathFacts
  <2>6. IF paths = {} THEN manifests[n] = NoDir ELSE manifests[n] \in Offer(Min(paths), n)
    BY <2>4, <2>5
  <2>. QED  BY <2>6 DEF Offer
<1>. QED  BY <1>1, <1>2, <1>3, PTL DEF Spec
=============================================================================
