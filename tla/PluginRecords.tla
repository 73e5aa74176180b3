---------------------------- MODULE PluginRecords ----------------------------
(***************************************************************************)
(* What a Context promises about the plugins loaded into one scope, as an  *)
(* abstract specification: a list of records in load order, each of which  *)
(* goes through the life cycle Deferred - Active - Failed - Disposed. When *)
(* a record turns is the Context's business; the module Context implements *)
(* this one, and PluginRegistry is checked on top of it.                   *)
(***************************************************************************)
EXTENDS Naturals, SequencesExt

CONSTANT Names

VARIABLE records

(* Active is left for Deferred when a requirement disappears, for Failed   *)
(* when apply() throws; Disposed is the record of an unload() in progress. *)
Legal == {<<"Deferred", "Active">>, <<"Active", "Deferred">>, <<"Active", "Failed">>,
          <<"Active", "Disposed">>, <<"Failed", "Disposed">>}

Init == records = <<>>

Load(n) == records' = Append(records, [name |-> n, state |-> "Deferred"])

Turn(i, st) ==
  /\ <<records[i].state, st>> \in Legal
  /\ records' = [records EXCEPT ![i].state = st]

Stopped(i) == records[i].state \in {"Deferred", "Disposed"}

Forget(i) == Stopped(i) /\ records' = RemoveAt(records, i)

Destroy == (\A i \in DOMAIN records : Stopped(i)) /\ records' = <<>>

Next ==
  \/ \E n \in Names : Load(n)
  \/ \E i \in DOMAIN records :
       Forget(i) \/ \E st \in {"Deferred", "Active", "Failed", "Disposed"} : Turn(i, st)
  \/ Destroy

Spec == Init /\ [][Next]_records

(* The record that unload(), pluginState() and the like find.              *)
Named(n) == {i \in DOMAIN records : records[i].name = n}
IsFirst(i, n) == i \in Named(n) /\ \A j \in Named(n) : i <= j

State(n) ==
  IF Named(n) = {} THEN "Disposed"
  ELSE records[CHOOSE i \in Named(n) : IsFirst(i, n)].state
=============================================================================
