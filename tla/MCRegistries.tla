---------------------------- MODULE MCRegistries ----------------------------
(***************************************************************************)
(* The two registries: of plugins on disk and of services. They share no   *)
(* state, so every behaviour exercises one of them while the other rests   *)
(* in its initial state.                                                   *)
(*                                                                         *)
(* Plugins: two search paths that overlap: "sub" is the first path itself  *)
(* and is reached again from "root". One manifest stands too deep for one  *)
(* path and not for the other, one below another manifest, one has an      *)
(* entry that leads outside, one no ABI version; a is offered twice under  *)
(* "root", and b under both paths.                                         *)
(*                                                                         *)
(* Services: two ids and three tokens: a watcher of one id can act on the  *)
(* other while a loop over the first runs, and two watchers of one id can  *)
(* disagree.                                                               *)
(***************************************************************************)
EXTENDS PluginRegistry, ServiceWatch

CONSTANTS a, b, c, s1, s2, o1, o2

None == [text |-> "absent", name |-> NoName, entry |-> "missing", abi |-> FALSE]
Good(n) == [text |-> "object", name |-> n, entry |-> "inside", abi |-> TRUE]

MCDirs == {"root", "sub", "a1", "a2", "b1", "below", "evil", "mid", "deep", "old"}
MCSearchPaths == <<"sub", "root">>
MCChildren ==
  [d \in MCDirs |->
     CASE d = "root" -> {"a1", "sub", "evil"}
       [] d = "sub" -> {"a2", "mid", "b1"}
       [] d = "a1" -> {"below"}
       [] d = "mid" -> {"deep", "old"}
       [] OTHER -> {}]
MCManifest ==
  [d \in MCDirs |->
     CASE d \in {"a1", "a2"} -> Good(a)
       [] d \in {"b1", "below"} -> Good(b)
       [] d = "deep" -> Good(c)
       [] d = "evil" -> [Good(c) EXCEPT !.entry = "outside"]
       [] d = "old" -> [Good(c) EXCEPT !.abi = FALSE]
       [] OTHER -> None]
OwnNames == [d \in MCDirs |-> CASE d \in {"a1", "a2"} -> a [] d = "deep" -> c [] OTHER -> b]
Bare(n) == [kind |-> "name", name |-> n, dir |-> NoDir, cond |-> FALSE]
ByPath(d) == [kind |-> "library", name |-> NoName, dir |-> d, cond |-> FALSE]
Conditional(entry) == [entry EXCEPT !.cond = TRUE]
Unnamed == [kind |-> "empty", name |-> NoName, dir |-> NoDir, cond |-> FALSE]

MCConfig == <<Bare(a), Conditional(ByPath("b1")), Unnamed, Bare(b)>>

MCServices == {s1, s2}
MCScopeIds == {o1, o2}
MCTokens == 1..3

(* A service id and an owner are only compared with others.                *)
Renamings == Permutations(MCServices) \cup Permutations(MCScopeIds)

MCInit == Init /\ WatchInit

MCNext ==
  \/ Next /\ WatchInit /\ UNCHANGED watchVars
  \/ WatchNext /\ Init /\ UNCHANGED vars

MCSpec == MCInit /\ [][MCNext]_<<vars, watchVars>>
=============================================================================
