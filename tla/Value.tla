-------------------------------- MODULE Value --------------------------------
(***************************************************************************)
(* Objects of Value (Value.h) as configurations: members in insertion      *)
(* order, found by linear search, set in place, and merged when a plugin   *)
(* is loaded with options over those of its manifest. A parsed object may  *)
(* have a key twice.                                                       *)
(***************************************************************************)
EXTENDS Naturals, SequencesExt

CONSTANTS
  MemberKeys,
  MemberValues,
  NoValue,        (* a null Value                                          *)
  MaxMembers      (* bound: members of each of the two objects             *)

ASSUME ValueAssumption == MaxMembers \in Nat /\ NoValue \notin MemberValues

VARIABLES
  base,           (* the options of the manifest: an object, or something else *)
  overrides       (* the options given to the load                             *)

valueVars == <<base, overrides>>

Member == [key : MemberKeys, value : MemberValues]
Other == {"null", "scalar"}
Object(kind) == [kind |-> kind, members |-> <<>>]

ValueInit ==
  /\ base \in {Object(kind) : kind \in Other \cup {"object"}}
  /\ overrides \in {Object(kind) : kind \in Other \cup {"object"}}

Emplace(o, m) == [o EXCEPT !.members = Append(@, m)]
MayGrow(o) == o.kind = "object" /\ Len(o.members) < MaxMembers

ValueNext ==
  \E m \in Member :
    \/ MayGrow(base) /\ base' = Emplace(base, m) /\ UNCHANGED overrides
    \/ MayGrow(overrides) /\ overrides' = Emplace(overrides, m) /\ UNCHANGED base

-----------------------------------------------------------------------------
Places(o, k) == {i \in DOMAIN o.members : o.members[i].key = k}
Has(o, k) == o.kind = "object" /\ Places(o, k) # {}
At(o, k) == IF Has(o, k) THEN o.members[Min(Places(o, k))].value ELSE NoValue

(* set(): null becomes an object, other kinds ignore the call.             *)
Set_Appends(o, m) ==
  CASE o.kind = "scalar" -> o
    [] OTHER -> [kind |-> "object", members |-> Append(o.members, m)]
Set(o, m) ==
  CASE o.kind = "scalar" -> o
    [] Has(o, m.key) -> [o EXCEPT !.members[Min(Places(o, m.key))].value = m.value]
    [] OTHER -> [kind |-> "object", members |-> Append(o.members, m)]

ShallowMerged(b, over) ==
  LET start == IF b.kind = "null" THEN Object("object") ELSE b IN
  IF over.kind = "object" THEN FoldLeft(Set, start, over.members) ELSE start

-----------------------------------------------------------------------------
KeysOf(ms) == [i \in DOMAIN ms |-> ms[i].key]

(* The members of `over` whose key b does not have, each where it comes    *)
(* first.                                                                  *)
NewIn(b, over) ==
  LET isNew(i) == ~Has(b, over.members[i].key) /\ i = Min(Places(over, over.members[i].key))
      news == SelectSeq([i \in DOMAIN over.members |-> i], isNew) IN
  [k \in DOMAIN news |-> over.members[news[k]].key]

(* "override keys win, insertion order kept": a lookup in the merged       *)
(* options finds the last override of a key, or else what it finds in the  *)
(* base; the members of the base keep their places, new keys follow in the *)
(* order of the overrides, and no key comes to be there twice that was not *)
(* before.                                                                 *)
OptionsMerged ==
  LET merged == ShallowMerged(base, overrides) IN
  IF base.kind = "scalar" THEN merged = base
  ELSE
    /\ merged.kind = "object"
    /\ KeysOf(merged.members) = KeysOf(base.members) \o NewIn(base, overrides)
    /\ \A k \in MemberKeys : At(merged, k) =
         IF Has(overrides, k) THEN overrides.members[Max(Places(overrides, k))].value
         ELSE At(base, k)
=============================================================================
