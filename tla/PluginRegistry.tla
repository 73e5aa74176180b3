--------------------------- MODULE PluginRegistry ---------------------------
(***************************************************************************)
(* How plugins get into a Context: the PluginRegistry                      *)
(* (PluginRegistry.cpp), which scans directories for manifests and loads   *)
(* what they name, and Context::loadAppConfig(), which works through the   *)
(* product's list of plugins. The Context is the list of records that      *)
(* PluginRecords promises; its records turn at any time, because every     *)
(* load can start or stop others.                                          *)
(*                                                                         *)
(* scan(), loadAll() and loadAppConfig() are loops on the host thread, one *)
(* step for each directory, manifest or entry. The file system is          *)
(* external: a tree of directories that is listed in any order, and        *)
(* libraries that may fail to load. Versions and options are left out.     *)
(***************************************************************************)
EXTENDS Naturals, SequencesExt, FiniteSetsExt

CONSTANTS
  Names, NoName,  (* plugin names, and the missing one                     *)
  Dirs, NoDir,    (* directories                                           *)
  SearchPaths,    (* m_searchPaths, in the order they were added           *)
  Children,       (* directory -> its subdirectories                       *)
  Manifest,       (* directory -> its manifest.json                        *)
  LibName,        (* directory -> the name the library of its manifest has *)
  KMaxScanDepth,
  Factories,      (* names given to registerFactory()                         *)
  AppConfig,      (* the entries of the product's configuration               *)
  NestedLoads,    (* plugins a watcher of the host may load during a load     *)
  MaxRecords      (* bound: records in the Context; loadAppConfig() is called *)
                  (* only when all it may load stays within                   *)

(* Does the file exist and parse, which name does it give, does its entry  *)
(* lead to a file inside the directory, and is its ABI version positive?   *)
ManifestFile ==
  [text : {"absent", "unreadable", "malformed", "object"}, name : Names \cup {NoName},
   entry : {"inside", "outside", "missing"}, abi : BOOLEAN]

(* A bare name, a library given by the directory it is in, or no name at   *)
(* all; `cond` says that the entry has an "if".                            *)
Entry == [kind : {"name", "library", "empty"}, name : Names \cup {NoName},
          dir : Dirs \cup {NoDir}, cond : BOOLEAN]

ASSUME PluginRegistryAssumption ==
  /\ NoName \notin Names /\ NoDir \notin Dirs
  /\ SearchPaths \in Seq(Dirs)
  /\ Children \in [Dirs -> SUBSET Dirs]
  /\ Manifest \in [Dirs -> ManifestFile]
  /\ LibName \in [Dirs -> Names]
  /\ KMaxScanDepth \in Nat /\ Factories \subseteq Names /\ NestedLoads \subseteq Names
  /\ AppConfig \in Seq(Entry) /\ MaxRecords \in Nat
  /\ \A i \in DOMAIN AppConfig :
       (AppConfig[i].kind = "name" => AppConfig[i].name \in Names) /\
       (AppConfig[i].kind = "library" => AppConfig[i].dir \in Dirs)
  /\ IsFiniteSet(Names) /\ \A d \in Dirs : IsFiniteSet(Children[d])

VARIABLES
  records,        (* the Context: see PluginRecords                           *)
  lastLoaded,     (* Context::m_lastLoadedName                                *)
  manifests,      (* m_manifests: the directory whose manifest has each name  *)
  lastError,      (* m_lastError: the name or directory it is about           *)
  job,            (* the loop in progress                                     *)
  loaded, skipped (* loadAppConfig's report: names, and names with the reason *)

vars == <<records, lastLoaded, manifests, lastError, job, loaded, skipped>>

Ctx == INSTANCE PluginRecords

(* `todo` holds directories with their depth, names or entries; `waiting`  *)
(* is the library a loadAppConfig() entry has loaded and not yet reported, *)
(* and `registry` says whether the call was given a PluginRegistry.        *)
Job(op, todo) == [op |-> op, todo |-> todo, waiting |-> NoDir, registry |-> FALSE]
Idle == Job("idle", <<>>)
NoManifests == [n \in Names |-> NoDir]

TypeOK ==
  /\ records \in Seq([name : Names, state : {"Deferred", "Active", "Failed", "Disposed"}])
  /\ lastLoaded \in Names \cup {NoName}
  /\ manifests \in [Names -> Dirs \cup {NoDir}]
  /\ lastError \in Names \cup Dirs \cup {NoName}
  /\ job.op \in {"idle", "scan", "loadAll", "appConfig", "unload"}
  /\ job.op = "scan" => job.todo \in Seq([dir : Dirs, depth : 0..KMaxScanDepth])
  /\ loaded \in Seq(Names)
  /\ skipped \in Seq([name : Names \cup Dirs \cup {NoName}, reason : Names \cup Dirs \cup {NoName}])

Init ==
  /\ Ctx!Init
  /\ lastLoaded = NoName /\ manifests = NoManifests /\ lastError = NoName
  /\ job = Idle /\ loaded = <<>> /\ skipped = <<>>

Running(op) == job.op = op /\ job.todo # <<>>
Item == Head(job.todo)
NextItem == [job EXCEPT !.todo = Tail(@)]

-----------------------------------------------------------------------------
(* Scanning                                                                *)

Scan ==
  /\ job = Idle
  /\ manifests' = NoManifests /\ lastError' = NoName
  /\ job' = Job("scan", [i \in DOMAIN SearchPaths |-> [dir |-> SearchPaths[i], depth |-> 0]])
  /\ UNCHANGED <<records, lastLoaded, loaded, skipped>>

(* parseManifestJson() and isValid(): a name, an entry inside the plugin's *)
(* directory, an ABI version.                                              *)
IsValid(m) == m.text = "object" /\ m.name # NoName /\ m.entry = "inside" /\ m.abi

(* One scanDirectory(). A directory with a manifest file, good or bad, is  *)
(* not searched further; of two manifests with one name the first is kept. *)
Duplicate_Replaces(n) == FALSE
Duplicate(n) == manifests[n] # NoDir

ReadManifest ==
  /\ Running("scan")
  /\ LET m == Manifest[Item.dir] IN
     /\ m.text # "absent"
     /\ IF ~IsValid(m)
        THEN lastError' = Item.dir /\ UNCHANGED manifests
        ELSE /\ manifests' = IF Duplicate(m.name) THEN manifests
                             ELSE [manifests EXCEPT ![m.name] = Item.dir]
             /\ UNCHANGED lastError
  /\ job' = NextItem
  /\ UNCHANGED <<records, lastLoaded, loaded, skipped>>

IsLeaf(depth) == depth = KMaxScanDepth

Descend ==
  /\ Running("scan")
  /\ Manifest[Item.dir].text = "absent"
  /\ IF IsLeaf(Item.depth) THEN job' = NextItem
     ELSE \E list \in SetToSeqs({[dir |-> d, depth |-> Item.depth + 1] : d \in Children[Item.dir]}) :
            job' = [job EXCEPT !.todo = list \o Tail(@)]
  /\ UNCHANGED <<records, lastLoaded, manifests, lastError, loaded, skipped>>

Clear ==
  /\ job = Idle
  /\ manifests' = NoManifests
  /\ UNCHANGED <<records, lastLoaded, lastError, job, loaded, skipped>>

-----------------------------------------------------------------------------
(* Loading one plugin; `ok` is what the call returns.                      *)

Registered(n) == Ctx!State(n) # "Disposed"

(* pluginFromLibrary() and loadRegistered(): a record, unless there is no  *)
(* library, no entry point, another ABI or no factory.                     *)
Add(n, ok) ==
  IF ok THEN Len(records) < MaxRecords /\ Ctx!Load(n) /\ lastLoaded' = n
  ELSE UNCHANGED <<records, lastLoaded>>

LoadRegistered(n, ok) == ok = (n \in Factories) /\ Add(n, ok)

(* loadSingle(): idempotent by the manifest's name; the library brings its *)
(* own.                                                                    *)
AlreadyRegistered_Active(n) == Ctx!State(n) = "Active"
AlreadyRegistered(n) == Registered(n)

LoadSingle(n, ok) ==
  IF AlreadyRegistered(n) THEN ok /\ UNCHANGED <<records, lastLoaded>>
  ELSE Add(LibName[manifests[n]], ok)

ErrorAfter_Kept(n, ok) == IF ok THEN NoName ELSE lastError
ErrorAfter(n, ok) == IF ok THEN NoName ELSE n

(* load(): the manifest first, else the factory.                           *)
LoadByName(n, ok) ==
  /\ IF manifests[n] # NoDir THEN LoadSingle(n, ok)
     ELSE IF Registered(n) THEN ok /\ UNCHANGED <<records, lastLoaded>>
     ELSE LoadRegistered(n, ok)
  /\ lastError' = ErrorAfter(n, ok)

Load(n) ==
  /\ job = Idle
  /\ \E ok \in BOOLEAN : LoadByName(n, ok)
  /\ UNCHANGED <<manifests, job, loaded, skipped>>

LoadAll ==
  /\ job = Idle
  /\ lastError' = NoName
  /\ \E order \in SetToSeqs({n \in Names : manifests[n] # NoDir}) : job' = Job("loadAll", order)
  /\ UNCHANGED <<records, lastLoaded, manifests, loaded, skipped>>

LoadAllNext ==
  /\ Running("loadAll")
  /\ \E ok \in BOOLEAN :
       /\ LoadSingle(Item, ok)
       /\ lastError' = IF ok THEN lastError ELSE Item
  /\ job' = NextItem
  /\ UNCHANGED <<manifests, loaded, skipped>>

-----------------------------------------------------------------------------
(* loadAppConfig()                                                         *)

Loading == {i \in DOMAIN AppConfig : AppConfig[i].kind # "empty"}

LoadAppConfig ==
  /\ job = Idle /\ Len(records) + Cardinality(Loading) <= MaxRecords
  /\ \E given \in BOOLEAN :
       job' = [Job("appConfig", AppConfig) EXCEPT !.registry = given]
  /\ loaded' = <<>> /\ skipped' = <<>>
  /\ UNCHANGED <<records, lastLoaded, manifests, lastError>>

Report(n) == loaded' = Append(loaded, n) /\ UNCHANGED skipped
Skip(n, reason) ==
  skipped' = Append(skipped, [name |-> n, reason |-> reason]) /\ UNCHANGED loaded

(* What an entry is called in the report.                                  *)
EntryName(entry) == IF entry.kind = "library" THEN entry.dir ELSE entry.name

(* No name, or an "if" that does not hold now.                             *)
SkipEntry ==
  /\ Running("appConfig") /\ job.waiting = NoDir
  /\ Item.kind = "empty" \/ Item.cond
  /\ Skip(EntryName(Item), EntryName(Item))
  /\ job' = NextItem
  /\ UNCHANGED <<records, lastLoaded, manifests, lastError>>

ConfiguredName ==
  /\ Running("appConfig") /\ Item.kind = "name"
  /\ \E ok \in BOOLEAN :
       /\ IF job.registry THEN LoadByName(Item.name, ok)
          ELSE LoadRegistered(Item.name, ok) /\ UNCHANGED lastError
       /\ IF ok THEN Report(Item.name)
          ELSE Skip(Item.name, IF job.registry THEN lastError' ELSE Item.name)
  /\ job' = NextItem
  /\ UNCHANGED manifests

(* A library by path is loaded first and reported, by the name loaded      *)
(* last, after the load has run its course.                                *)
ConfiguredLibrary ==
  /\ Running("appConfig") /\ Item.kind = "library" /\ job.waiting = NoDir
  /\ \/ /\ Add(LibName[Item.dir], TRUE)
        /\ job' = [job EXCEPT !.waiting = Item.dir]
        /\ UNCHANGED <<loaded, skipped>>
     \/ /\ Add(LibName[Item.dir], FALSE)
        /\ Skip(EntryName(Item), EntryName(Item))
        /\ job' = NextItem
  /\ UNCHANGED <<manifests, lastError>>

ReportLibrary ==
  /\ Running("appConfig") /\ job.waiting # NoDir
  /\ Report(lastLoaded)
  /\ job' = [NextItem EXCEPT !.waiting = NoDir]
  /\ UNCHANGED <<records, lastLoaded, manifests, lastError>>

(* While a plugin starts, a watcher of the host hears of its services and  *)
(* may load another plugin into the same scope.                            *)
NestedLoad(n) ==
  /\ n \in NestedLoads /\ job.waiting # NoDir /\ Len(records) + Len(job.todo) <= MaxRecords
  /\ Add(n, TRUE)
  /\ UNCHANGED <<manifests, lastError, job, loaded, skipped>>

-----------------------------------------------------------------------------
JobDone ==
  /\ job.op \in {"scan", "loadAll", "appConfig"} /\ job.todo = <<>>
  /\ job' = Idle
  /\ UNCHANGED <<records, lastLoaded, manifests, lastError, loaded, skipped>>

(* unload(): the first record of the name is stopped, then forgotten.      *)
Unload(n) ==
  /\ job = Idle
  /\ \E i \in DOMAIN records :
       /\ Ctx!IsFirst(i, n)
       /\ IF Ctx!Stopped(i) THEN UNCHANGED records ELSE Ctx!Turn(i, "Disposed")
       /\ job' = Job("unload", <<i>>)
  /\ UNCHANGED <<lastLoaded, manifests, lastError, loaded, skipped>>

UnloadDone ==
  /\ Running("unload")
  /\ records[Item].state # "Active" /\ Ctx!Forget(Item)
  /\ job' = Idle
  /\ UNCHANGED <<lastLoaded, manifests, lastError, loaded, skipped>>

(* A record starts, waits again or fails; the one being unloaded does not. *)
RecordTurns ==
  /\ \E i \in DOMAIN records, st \in {"Deferred", "Active", "Failed"} :
       /\ job.op = "unload" => i # Item
       /\ Ctx!Turn(i, st)
  /\ UNCHANGED <<lastLoaded, manifests, lastError, job, loaded, skipped>>

Next ==
  \/ Scan \/ ReadManifest \/ Descend \/ Clear
  \/ LoadAll \/ LoadAllNext \/ LoadAppConfig \/ SkipEntry \/ ConfiguredName
  \/ ConfiguredLibrary \/ ReportLibrary
  \/ \E n \in Names : Load(n) \/ Unload(n) \/ NestedLoad(n)
  \/ JobDone \/ UnloadDone \/ RecordTurns

Spec == Init /\ [][Next]_vars

-----------------------------------------------------------------------------
(* The directories a scan of d may reach within k more levels: no          *)
(* directory above them has a manifest.                                    *)
Reach[k \in 0..KMaxScanDepth] ==
  [d \in Dirs |->
     IF Manifest[d].text # "absent" \/ k = 0 THEN {d}
     ELSE {d} \cup UNION {Reach[k - 1][e] : e \in Children[d]}]

Offers(d, n) ==
  Manifest[d] = [text |-> "object", name |-> n, entry |-> "inside", abi |-> TRUE]

(* After a scan every name has a manifest that a search path offers, from  *)
(* the first search path that offers one, and no name is missed, in        *)
(* whatever order the file system lists directories.                       *)
ScanExact ==
  job.op = "scan" /\ job.todo = <<>> =>
    \A n \in Names :
      LET offer(i) == {d \in Reach[KMaxScanDepth][SearchPaths[i]] : Offers(d, n)}
          paths == {i \in DOMAIN SearchPaths : offer(i) # {}} IN
      IF paths = {} THEN manifests[n] = NoDir ELSE manifests[n] \in offer(Min(paths))

(* Loads that pass the registry's check by: a configuration's libraries by *)
(* path and, without a registry, its factories; and the host's watchers.   *)
PassedBy ==
  {LibName[AppConfig[i].dir] : i \in {j \in Loading : AppConfig[j].kind = "library"}}
  \cup ({AppConfig[i].name : i \in Loading} \cap Factories)
  \cup NestedLoads

(* Loading through the registry is idempotent: whatever is scanned,        *)
(* loaded, configured and unloaded, the records well typed and turning at  *)
(* any time, a name that comes in through the registry alone never has two *)
(* records (they would compete for their services).                        *)
OneRecordEach ==
  /\ TypeOK
  /\ \A i, j \in DOMAIN records :
       records[i].name = records[j].name => i = j \/ records[i].name \in PassedBy

(* "Never silent": every entry of the configuration that has been worked   *)
(* through is in the report, and a skipped one carries a reason of its     *)
(* own, not one that an earlier operation left in lastError(); a plugin    *)
(* that is reported as loaded has a record in the Context.                 *)
EntriesAccounted ==
  job.op = "appConfig" =>
    /\ Len(loaded) + Len(skipped) + Len(job.todo) = Len(AppConfig)
    /\ \A i \in DOMAIN skipped : skipped[i].reason = skipped[i].name
    /\ \A i \in DOMAIN loaded : Registered(loaded[i])
=============================================================================
