------------------------------ MODULE Middleware ------------------------------
(***************************************************************************)
(* The middleware chain of one Context: middleware() and run()             *)
(* (Context.cpp). run() copies the chain and calls its first element,      *)
(* which may call next(), also more than once or not at all, install more  *)
(* middleware and run() again on the same thread. `calls` are the          *)
(* middleware calls in progress, innermost first. The payload is handed    *)
(* down by reference and no step depends on it; an exception leaves a call *)
(* as a return does, and next() used after its run() has returned is       *)
(* undefined: neither is modelled.                                         *)
(***************************************************************************)
EXTENDS Naturals, SequencesExt

CONSTANTS
  Elements,       (* middleware functions                                  *)
  MaxNext,        (* bound: calls of next() by one call of an element      *)
  MaxLength,      (* bound: installed elements                             *)
  MaxCalls        (* bound: calls in progress                              *)

ASSUME MiddlewareAssumption == MaxNext \in Nat /\ MaxLength \in Nat /\ MaxCalls \in Nat

VARIABLES
  chain,          (* m_middleware                                          *)
  calls

mwVars == <<chain, calls>>

(* The element at `at` of run()'s copy, and how often it has called        *)
(* next().                                                                 *)
Step == [copy : Seq(Elements), at : Nat, nexts : 0..MaxNext]

MwInit == chain = <<>> /\ calls = <<>>

Install(e, prepend) ==
  /\ Len(chain) < MaxLength
  /\ chain' = IF prepend THEN <<e>> \o chain ELSE Append(chain, e)
  /\ UNCHANGED calls

(* step(idx): past the end of the copy there is nothing to call.           *)
Enter(copy, i) == IF i > Len(copy) THEN <<>> ELSE <<[copy |-> copy, at |-> i, nexts |-> 0]>>

Run ==
  /\ Len(calls) < MaxCalls
  /\ calls' = Enter(chain, 1) \o calls
  /\ UNCHANGED chain

(* The continuation given to an element enters the one after it in the     *)
(* copy.                                                                   *)
Continue_Live(f) == Enter(chain, f.at + 1)
Continue(f) == Enter(f.copy, f.at + 1)

CallNext ==
  /\ calls # <<>> /\ Head(calls).nexts < MaxNext
  /\ calls' = Continue(Head(calls)) \o <<[Head(calls) EXCEPT !.nexts = @ + 1]>> \o Tail(calls)
  /\ UNCHANGED chain

ElementReturns ==
  /\ calls # <<>>
  /\ calls' = Tail(calls)
  /\ UNCHANGED chain

MwNext ==
  \/ \E e \in Elements, prepend \in BOOLEAN : Install(e, prepend)
  \/ Run \/ CallNext \/ ElementReturns

-----------------------------------------------------------------------------
(* Whatever is installed while it runs, a run() works through the chain it *)
(* was called with: an element runs only inside a next() of the one before *)
(* it in the same copy, at every depth of nested runs ("Snapshot:          *)
(* middleware may be installed/uninstalled while running", "not calling    *)
(* next() short-circuits").                                                *)
MiddlewareOrder ==
  /\ calls \in Seq(Step)
  /\ \A i \in DOMAIN calls : calls[i].at > 1 =>
       /\ i < Len(calls)
       /\ calls[i + 1].at + 1 = calls[i].at /\ calls[i + 1].copy = calls[i].copy
       /\ calls[i + 1].nexts > 0
=============================================================================
