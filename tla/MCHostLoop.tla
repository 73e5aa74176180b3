----------------------------- MODULE MCHostLoop -----------------------------
(***************************************************************************)
(* What waits for the host's event loop: requests, until it ticks, and     *)
(* blobs, until it pumps. The two share no state, so every behaviour       *)
(* exercises one of them while the other rests in its initial state.       *)
(*                                                                         *)
(* Tracker: three ids, a history of two: a third timeout evicts the first. *)
(* Timeouts of 0 (due at once) and 2 let requests expire out of track      *)
(* order. Channel: two device threads; capacities small enough that three  *)
(* posts overflow the mailbox, 0 for setCapacity()'s minimum.              *)
(***************************************************************************)
EXTENDS RequestTracker, BlobChannel

CONSTANTS r1, r2, r3, d1, d2, h1

MCCapacities == {0, 2}

MCInit == TrackerInit /\ Init

TrackerTurn(A) == A /\ Init /\ UNCHANGED vars
ChannelTurn(A) == A /\ TrackerInit /\ UNCHANGED trackerVars

MCSpec ==
  MCInit /\ [][TrackerTurn(TrackerNext) \/ ChannelTurn(Next)]_<<trackerVars, vars>>

(* The fairness of FairTrackerSpec and of FairSpec, of the part that is    *)
(* exercised: nothing of a channel at rest is due, but time could pass and *)
(* the host tick.                                                          *)
FairMCSpec ==
  /\ MCSpec
  /\ WF_trackerVars(TrackerTurn(Advance))
  /\ WF_trackerVars(TrackerTurn(Tick))
  /\ \A t \in Threads : WF_vars(FireHook(t))
  /\ WF_vars(PumpNext \/ CallHandler \/ CallDone)
  /\ \A d \in 1..MaxDepth : SF_vars(Len(stack) = d /\ HandlerReturns)
  /\ SF_vars(RunScheduled)
=============================================================================
