--------------------------- MODULE RequestTracker ---------------------------
(***************************************************************************)
(* The in-flight request tracker (RequestTracker.cpp) with the host that   *)
(* drives it: a response may come at any time, before or after the         *)
(* timeout, twice, or for an id nobody tracks; ticks are late or early;    *)
(* the connection may be lost.                                             *)
(*                                                                         *)
(* The tracker is a plain data structure used by one thread: every         *)
(* operation is one action. Its difficulty is that an id lives in two      *)
(* indices while it is pending and in a bounded history after it timed     *)
(* out, and that every operation must keep them together.                  *)
(*                                                                         *)
(* `fate` is a history variable: what the host last did with an id, or was *)
(* last told about it.                                                     *)
(***************************************************************************)
EXTENDS Naturals, SequencesExt, FiniteSets

CONSTANTS
  Ids,            (* request ids                                           *)
  Timeouts,       (* timeouts passed to track()                            *)
  MaxTime,        (* bound: no request is tracked after this time          *)
  Horizon,        (* bound: the clock stops here                           *)
  MaxRequests,    (* bound: requests registered                            *)
  KHistory,       (* kHistory: ids remembered after their timeout          *)
  NoDeadline,     (* "not in m_inFlight"                                   *)
  Reuse,          (* may the host track() an id again that it gave up?     *)
  ForgetLate      (* may the host forget() an id that has timed out?       *)

ASSUME TrackerAssumption ==
  /\ Timeouts \subseteq Nat /\ MaxTime \in Nat /\ Horizon \in Nat \ {0}
  /\ \A d \in Timeouts : MaxTime + d <= Horizon
  /\ MaxRequests \in Nat /\ KHistory \in Nat /\ NoDeadline \notin Nat
  /\ Reuse \in BOOLEAN /\ ForgetLate \in BOOLEAN

VARIABLES
  inFlight,       (* m_inFlight: the deadline of each pending id            *)
  wheel,          (* m_wheel: the ids to expire at each time; an empty slot *)
                  (* is one the code has erased                             *)
  history,        (* m_timedOutHistory                                      *)
  stats,          (* m_stats                                                *)
  clock,          (* the host's clock, injected into track() and tick()     *)
  registered,     (* history: requests registered (a refresh is not one)    *)
  forgotten,      (* history: requests forgotten while they were pending    *)
  fate            (* history: see above                                     *)

trackerVars == <<inFlight, wheel, history, stats, clock, registered, forgotten, fate>>

Times == 1..Horizon
Fates == {"none", "pending", "acked", "late", "timedOut", "lost", "forgotten"}

TrackerTypeOK ==
  /\ inFlight \in [Ids -> Times \cup {NoDeadline}]
  /\ wheel \in [Times -> Seq(Ids)]
  /\ history \in Seq(Ids) /\ Len(history) <= KHistory
  /\ stats \in [acked : Nat, timedOut : Nat, lateAcks : Nat]
  /\ clock \in Times
  /\ registered \in Nat /\ forgotten \in Nat
  /\ fate \in [Ids -> Fates]

TrackerInit ==
  /\ inFlight = [id \in Ids |-> NoDeadline]
  /\ wheel = [d \in Times |-> <<>>]
  /\ history = <<>>
  /\ stats = [acked |-> 0, timedOut |-> 0, lateAcks |-> 0]
  /\ clock = 1 /\ registered = 0 /\ forgotten = 0
  /\ fate = [id \in Ids |-> "none"]

Pending(id) == inFlight[id] # NoDeadline
Remembered(id) == id \in ToSet(history)

(* The slot of a pending id without it.                                    *)
Unslotted_Keeps(id) == wheel
Unslotted(id) ==
  IF Pending(id) THEN [wheel EXCEPT ![inFlight[id]] = RemoveFirst(@, id)] ELSE wheel

(* track(): the id moves to its new slot; if it was pending this is a      *)
(* refresh.                                                                *)
Track(id, timeout) ==
  /\ clock <= MaxTime
  /\ Pending(id) \/ registered < MaxRequests
  /\ Reuse \/ ~Remembered(id)
  /\ LET deadline == clock + timeout IN
     /\ inFlight' = [inFlight EXCEPT ![id] = deadline]
     /\ wheel' = [Unslotted(id) EXCEPT ![deadline] = Append(@, id)]
  /\ registered' = IF Pending(id) THEN registered ELSE registered + 1
  /\ fate' = [fate EXCEPT ![id] = "pending"]
  /\ UNCHANGED <<history, stats, clock, forgotten>>

(* complete(): in flight - Acked.                                          *)
CompletePending(id) ==
  /\ Pending(id)
  /\ wheel' = Unslotted(id)
  /\ inFlight' = [inFlight EXCEPT ![id] = NoDeadline]
  /\ stats' = [stats EXCEPT !.acked = @ + 1]
  /\ fate' = [fate EXCEPT ![id] = "acked"]
  /\ UNCHANGED history

(* Not in flight but in the history - LateAck, and the history forgets it  *)
(* ("single classification").                                              *)
Classified_Kept(id) == history
Classified(id) == RemoveFirst(history, id)

CompleteLate(id) ==
  /\ ~Pending(id) /\ Remembered(id)
  /\ history' = Classified(id)
  /\ stats' = [stats EXCEPT !.lateAcks = @ + 1]
  /\ fate' = [fate EXCEPT ![id] = "late"]
  /\ UNCHANGED <<inFlight, wheel>>

(* Neither - Unknown.                                                      *)
CompleteUnknown(id) ==
  /\ ~Pending(id) /\ ~Remembered(id)
  /\ UNCHANGED <<inFlight, wheel, history, stats, fate>>

Complete(id) ==
  /\ CompletePending(id) \/ CompleteLate(id) \/ CompleteUnknown(id)
  /\ UNCHANGED <<clock, registered, forgotten>>

(* moveTimedOut(): the ids leave m_inFlight, enter the history and are     *)
(* counted; the history keeps its newest KHistory entries.                 *)
Newest(s) == IF Len(s) > KHistory THEN SubSeq(s, Len(s) - KHistory + 1, Len(s)) ELSE s

MoveTimedOut(expired, how) ==
  /\ inFlight' = [id \in Ids |-> IF id \in ToSet(expired) THEN NoDeadline ELSE inFlight[id]]
  /\ history' = Newest(history \o expired)
  /\ stats' = [stats EXCEPT !.timedOut = @ + Len(expired)]
  /\ fate' = [id \in Ids |-> IF id \in ToSet(expired) THEN how ELSE fate[id]]

(* tick(now): every slot up to now, in deadline order.                     *)
Due_Before(d, now) == d < now
Due(d, now) == d <= now

Expired(now) == FlattenSeq([d \in Times |-> IF Due(d, now) THEN wheel[d] ELSE <<>>])

Tick ==
  /\ wheel' = [d \in Times |-> IF Due(d, clock) THEN <<>> ELSE wheel[d]]
  /\ MoveTimedOut(Expired(clock), "timedOut")
  /\ UNCHANGED <<clock, registered, forgotten>>

(* expireAll(): the connection is lost, all slots at once.                 *)
ExpireAll ==
  /\ wheel' = [d \in Times |-> <<>>]
  /\ MoveTimedOut(Expired(Horizon), "lost")
  /\ UNCHANGED <<clock, registered, forgotten>>

(* forget(): a pending id leaves both indices and no counter; any other    *)
(* call does nothing to the tracker.                                       *)
Forget(id) ==
  /\ Pending(id) \/ (ForgetLate /\ fate[id] = "timedOut")
  /\ inFlight' = [inFlight EXCEPT ![id] = NoDeadline]
  /\ wheel' = Unslotted(id)
  /\ forgotten' = IF Pending(id) THEN forgotten + 1 ELSE forgotten
  /\ fate' = [fate EXCEPT ![id] = "forgotten"]
  /\ UNCHANGED <<history, stats, clock, registered>>

Advance ==
  /\ clock < Horizon
  /\ clock' = clock + 1
  /\ UNCHANGED <<inFlight, wheel, history, stats, registered, forgotten, fate>>

TrackerNext ==
  \/ \E id \in Ids, d \in Timeouts : Track(id, d)
  \/ \E id \in Ids : Complete(id) \/ Forget(id)
  \/ Tick \/ ExpireAll \/ Advance

TrackerSpec == TrackerInit /\ [][TrackerNext]_trackerVars

(* Time passes and the host goes on ticking; nothing else must ever        *)
(* happen.                                                                 *)
FairTrackerSpec == TrackerSpec /\ WF_trackerVars(Advance) /\ WF_trackerVars(Tick)

-----------------------------------------------------------------------------
Occurrences(id, d) == Cardinality({i \in DOMAIN wheel[d] : wheel[d][i] = id})

(* The two indices agree: a pending id stands once in the slot of its      *)
(* deadline and in no other slot; an id that is not pending stands in      *)
(* none, so nothing can expire that was answered, forgotten or refreshed.  *)
WheelMatches ==
  /\ TrackerTypeOK
  /\ \A id \in Ids, d \in Times :
       Occurrences(id, d) = IF inFlight[id] = d THEN 1 ELSE 0

(* "Stats stay truthful about outcomes": every registered request is       *)
(* pending or counted once, as acked or timed out, unless it was           *)
(* forgotten; and no more late answers are counted than requests have left *)
(* the history.                                                            *)
StatsTruthful ==
  /\ registered =
       Cardinality({id \in Ids : Pending(id)}) + stats.acked + stats.timedOut + forgotten
  /\ stats.lateAcks + Len(history) <= stats.timedOut

(* An answer is classified once ("single classification"): no request that *)
(* is answered, pending or was never made is in the history, and none is   *)
(* there twice, so that a duplicate of any answer is Unknown.              *)
ClassifiedOnce ==
  /\ \A id \in ToSet(history) : ~Pending(id) /\ fate[id] \notin {"none", "acked", "late"}
  /\ \A i, j \in DOMAIN history : history[i] = history[j] => i = j

(* Once the connection is lost, an answer to a request that failed with it *)
(* is Unknown, not a LateAck (RequestTracker.h:60, "stale after            *)
(* expireAll").                                                            *)
LostIsUnknown == [][\A id \in Ids : fate[id] = "lost" => fate'[id] # "late"]_trackerVars

(* Every request is answered, forgotten or expires, as long as the host    *)
(* ticks.                                                                  *)
EveryRequestEnds == \A id \in Ids : Pending(id) ~> ~Pending(id)
=============================================================================
