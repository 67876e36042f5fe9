-------------------------- MODULE RateLimiterMachine -------------------------
(***************************************************************************)
(* The rate limiter under a clock that never goes back: a request at any   *)
(* instant, any number of them at the same one.  The code reads the system *)
(* clock (Timestamp.hpp, nowNanos), which an administrator or NTP may set  *)
(* back; the guarantee below is for the case where nobody does.            *)
(***************************************************************************)
EXTENDS RateLimiter, Sequences, FiniteSets

VARIABLES
  now,      (* What nowNanos returns. *)
  ring,
  accepted  (* History: the times of all the requests let through. *)

vars == <<now, ring, accepted>>

Init ==
  /\ now = 0
  /\ ring = EmptyRing
  /\ accepted = <<>>

Tick ==
  /\ now' = now + 1
  /\ UNCHANGED <<ring, accepted>>

CheckRateLimit ==
  /\ ring' = AfterCheck(ring, now)
  /\ accepted' = IF Admits(ring, now) THEN Append(accepted, now) ELSE accepted
  /\ UNCHANGED now

Next == Tick \/ CheckRateLimit

Spec == Init /\ [][Next]_vars

-----------------------------------------------------------------------------
(* Properties *)

TypeOK ==
  /\ now \in Nat
  /\ ring \in [head : RingSlot, count : 0 .. Limit, times : [RingSlot -> Nat]]
  /\ accepted \in Seq(Nat)

(* No interval as long as the window, its ends included, holds more than   *)
(* Limit of the requests checkRateLimit let through.                       *)
SlidingWindow ==
  \A i \in DOMAIN accepted :
    i + Limit \in DOMAIN accepted => accepted[i + Limit] - accepted[i] > Window

(* The limiter is exact: the next request is refused only if the window    *)
(* that ends now already holds Limit accepted requests, although the ring  *)
(* remembers at most QueueCapacity of them and forgets in the order they   *)
(* came.                                                                   *)
RefusesOnlyAtTheLimit ==
  Admits(ring, now) <=>
    Cardinality({i \in DOMAIN accepted : now - accepted[i] <= Window}) < Limit
=============================================================================
