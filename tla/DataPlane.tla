------------------------------ MODULE DataPlane ------------------------------
(***************************************************************************)
(* The channels of a Context tree (Context::channel, onBlob, pumpAll): one *)
(* table shared by every scope, channels made when they are first asked    *)
(* for and never removed, and a loop that pumps them all in the order of   *)
(* their names. A subscriber runs inside the loop and may ask for          *)
(* channels, post and call pumpAll() again; devices post at any time.      *)
(*                                                                         *)
(* Of a channel (BlobChannel) only the number of waiting blobs and         *)
(* m_pending are kept; post() with its hook is one step, BlobChannel has   *)
(* its interleavings. The host's event loop is external: the hook it       *)
(* installs on a channel schedules one pumpAll().                          *)
(***************************************************************************)
EXTENDS Naturals, Sequences

CONSTANTS
  Names,          (* channel names, as numbers in map order                *)
  Capacity,       (* of every mailbox                                      *)
  Throwing,       (* may a subscriber throw?                               *)
  MaxPasses       (* bound: pumpAll() calls in progress                    *)

ASSUME DataPlaneAssumption ==
  /\ Names \subseteq Nat /\ Capacity \in Nat \ {0} /\ MaxPasses \in Nat
  /\ Throwing \in BOOLEAN

VARIABLES
  known,          (* m_channels: the names in it                              *)
  hooked,         (* the channels on which the host has installed its hook    *)
  waiting,        (* blobs in each mailbox                                    *)
  armed,          (* m_pending of each channel                                *)
  due,            (* the host's event loop holds a request for pumpAll()      *)
  passes,         (* pumpAll() calls in progress, innermost first             *)
  cut             (* history: channels that a pumpAll() ended by an exception *)
                  (* had not come to, and that were not pumped since          *)

planeVars == <<known, hooked, waiting, armed, due, passes, cut>>

(* `at` is the channel being pumped, `busy` whether a subscriber of it     *)
(* runs.                                                                   *)
Pass == [at : Names, busy : BOOLEAN]

PlaneType ==
  /\ known \subseteq Names /\ hooked \subseteq known
  /\ waiting \in [Names -> 0..Capacity] /\ armed \in [Names -> BOOLEAN]
  /\ due \in BOOLEAN /\ passes \in Seq(Pass) /\ cut \subseteq Names

PlaneInit ==
  /\ known = {} /\ hooked = {} /\ due = FALSE /\ passes = <<>> /\ cut = {}
  /\ waiting = [n \in Names |-> 0] /\ armed = [n \in Names |-> FALSE]

InPlaneClient == IF passes = <<>> THEN TRUE ELSE Head(passes).busy

(* channel(): found or made. The host installs its hook on channels it     *)
(* asks for itself, before they are posted to.                             *)
Channel(n) ==
  /\ InPlaneClient /\ n \notin known
  /\ known' = known \cup {n}
  /\ UNCHANGED <<hooked, waiting, armed, due, passes, cut>>

HookChannel(n) ==
  /\ InPlaneClient /\ n \in known \ hooked /\ ~armed[n]
  /\ hooked' = hooked \cup {n}
  /\ UNCHANGED <<known, waiting, armed, due, passes, cut>>

PostTo(n) ==
  /\ n \in known
  /\ waiting' = [waiting EXCEPT ![n] = IF @ = Capacity THEN Capacity ELSE @ + 1]
  /\ armed' = [armed EXCEPT ![n] = TRUE]
  /\ due' = (due \/ (~armed[n] /\ n \in hooked))
  /\ UNCHANGED <<known, hooked, passes, cut>>

(* The loop's next channel: the first name after m in the table as it is   *)
(* now.                                                                    *)
Following(m) == {n \in known : n > m /\ \A k \in known : k > m => n <= k}
First == {n \in known : \A k \in known : n <= k}

(* pump() of channel n drains it and re-arms its hook; only a channel that *)
(* had blobs calls subscribers.                                            *)
Pumped_StaysArmed(n) == UNCHANGED armed
Pumped(n) == armed' = [armed EXCEPT ![n] = FALSE]

PumpChannel(n, rest) ==
  /\ waiting' = [waiting EXCEPT ![n] = 0]
  /\ Pumped(n)
  /\ passes' = <<[at |-> n, busy |-> waiting[n] > 0]>> \o rest
  /\ cut' = cut \ {n}
  /\ UNCHANGED <<known, hooked>>

PumpAll ==
  /\ \/ passes = <<>> /\ due /\ due' = FALSE
     \/ passes # <<>> /\ Head(passes).busy /\ Len(passes) < MaxPasses /\ UNCHANGED due
  /\ \E n \in First : PumpChannel(n, passes)

PumpFollowing ==
  /\ passes # <<>> /\ ~Head(passes).busy
  /\ \E n \in Following(Head(passes).at) : PumpChannel(n, Tail(passes))
  /\ UNCHANGED due

PassEnds ==
  /\ passes # <<>> /\ ~Head(passes).busy /\ \A n \in known : n <= Head(passes).at
  /\ passes' = Tail(passes)
  /\ UNCHANGED <<known, hooked, waiting, armed, due, cut>>

SubscribersReturn ==
  /\ passes # <<>> /\ Head(passes).busy
  /\ passes' = <<[Head(passes) EXCEPT !.busy = FALSE]>> \o Tail(passes)
  /\ UNCHANGED <<known, hooked, waiting, armed, due, cut>>

(* Nothing catches an exception of a subscriber: it ends pump() and        *)
(* pumpAll().                                                              *)
SubscriberThrows ==
  /\ Throwing /\ passes # <<>> /\ Head(passes).busy
  /\ passes' = Tail(passes)
  /\ cut' = cut \cup {k \in known : k > Head(passes).at}
  /\ UNCHANGED <<known, hooked, waiting, armed, due>>

PlaneNext ==
  \/ \E n \in Names : Channel(n) \/ HookChannel(n) \/ PostTo(n)
  \/ PumpAll \/ PumpFollowing \/ PassEnds \/ SubscribersReturn \/ SubscriberThrows

-----------------------------------------------------------------------------
(* "so a host can schedule one drain and stay idle otherwise": a blob in a *)
(* channel with a hook is waited for, by a pumpAll() that is scheduled or  *)
(* by one in progress that has not come to its channel - although channels *)
(* are made under the loop, passes nest and one request stands for all     *)
(* channels. Only those that a throwing subscriber kept the loop from      *)
(* reaching are forgotten.                                                 *)
NoChannelForgotten ==
  /\ PlaneType
  /\ \A n \in hooked \ cut : waiting[n] > 0 =>
       due \/ \E i \in DOMAIN passes : passes[i].at < n
=============================================================================
