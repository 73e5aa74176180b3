----------------------------- MODULE MCDispatch -----------------------------
(***************************************************************************)
(* The three ways in which a Context calls code of its clients without     *)
(* loading or unloading anything: the event bus under a tree of two        *)
(* scopes, the middleware chain, and the loop over the channels. They      *)
(* share no state, so every behaviour exercises one of them from its       *)
(* initial state, while the other two rest; their properties speak of one  *)
(* of them each.                                                           *)
(***************************************************************************)
EXTENDS ScopeDispatch, Middleware, DataPlane

CONSTANTS x, y, outer, inner

(* Two events whose handlers emit both, and a scope inside a scope.        *)
MCTokens == 1..3
Cycle == [e \in {x, y} |-> {x, y}]
MCParent == [s \in {outer, inner} |-> IF s = inner THEN outer ELSE Host]
MCNames == 1..3

MCInit == DispatchInit /\ MwInit /\ PlaneInit

MCNext ==
  \/ DispatchNext /\ MwInit /\ PlaneInit /\ UNCHANGED <<mwVars, planeVars>>
  \/ MwNext /\ DispatchInit /\ PlaneInit /\ UNCHANGED <<allVars, planeVars>>
  \/ PlaneNext /\ DispatchInit /\ MwInit /\ UNCHANGED <<allVars, mwVars>>

MCSpec == MCInit /\ [][MCNext]_<<allVars, mwVars, planeVars>>
=============================================================================
