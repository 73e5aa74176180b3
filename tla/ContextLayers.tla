---------------------------- MODULE ContextLayers ----------------------------
(***************************************************************************)
(* The discipline under which nested calls of a Context tree stay apart.   *)
(*                                                                         *)
(* Context.cpp accepts any call from inside any other: a plugin's body, a  *)
(* sentinel or a watcher of the host may load, unload and provide while    *)
(* the calls that led to it are still on the stack, and some of those      *)
(* nests end badly (a plugin that evicts itself from its own apply() gets  *)
(* its scope destroyed under it). Nothing in the code forbids them, so     *)
(* what keeps them out is stated here, as a condition on the plugins of a  *)
(* product, and not as a guard of the model. The products of ContextTree   *)
(* keep to it, those of ContextFailover and ContextNests do not. It is no  *)
(* cure for stale pointers: ContextRetire has a product that keeps to it.  *)
(*                                                                         *)
(* Level is a rank for plugins that a product keeps to.                    *)
(***************************************************************************)
EXTENDS Context

CONSTANT Level

(* Plugin p may provide s from its apply() at a time when nobody does: a   *)
(* plugin that requires s itself only runs while somebody else provides    *)
(* it, and is turned away.                                                 *)
Provider(p, s) == s \in Provides[p] /\ s \notin ToSet(Requires[p])

(* The plugins that calls reach when s comes or goes: those whose sentinel *)
(* watches s, and those that a watcher of the host loads or unloads.       *)
Hears(s) == {p \in Plugins : s \in ToSet(Requires[p])} \cup Fallback[s] \cup Retire[s]

(* Work flows upwards only: what a plugin loads, unloads or serves is      *)
(* ranked above it. A chain of dependencies has such a rank; a plugin that *)
(* evicts itself or a plugin it depends on, and one that provides the very *)
(* service whose loss gets it loaded, have none.                           *)
Layered ==
  /\ Level \in [Plugins -> Nat]
  /\ \A p \in Plugins :
       /\ \A q \in Loads[p] \cup Evicts[p] : Level[p] < Level[q]
       /\ \A s \in Services : Provider(p, s) => \A q \in Hears(s) : Level[p] < Level[q]
=============================================================================
