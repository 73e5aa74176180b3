---------------------------- MODULE LossyMailbox ----------------------------
(***************************************************************************)
(* What post() and pump() promise together, as an abstract specification:  *)
(* a mailbox for live streams. Items are numbered as they are sent; an     *)
(* item that waits may be lost at any time unless it is the newest         *)
(* ("latest wins"), and what is not lost is taken out in the order it was  *)
(* sent.                                                                   *)
(***************************************************************************)
EXTENDS Naturals

VARIABLES
  sent,     (* items sent so far: the last one has this number             *)
  waiting,  (* numbers of the items that are neither lost nor delivered    *)
  last      (* number of the item delivered last, 0 before the first       *)

Init == sent = 0 /\ waiting = {} /\ last = 0

Send ==
  /\ sent' = sent + 1
  /\ \E kept \in SUBSET waiting : waiting' = kept \cup {sent + 1}
  /\ UNCHANGED last

Deliver ==
  /\ \E n \in waiting :
       /\ \A k \in waiting : n <= k
       /\ last' = n
       /\ waiting' = waiting \ {n}
  /\ UNCHANGED sent

Lose ==
  /\ \E n \in waiting, kept \in SUBSET waiting :
       /\ \A k \in waiting : k <= n
       /\ waiting' = kept \cup {n}
  /\ UNCHANGED <<sent, last>>

Next == Send \/ Deliver \/ Lose

Spec == Init /\ [][Next]_<<sent, waiting, last>>
=============================================================================
