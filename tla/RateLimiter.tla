----------------------------- MODULE RateLimiter -----------------------------
(***************************************************************************)
(* OrderEntryGateway::checkRateLimit (include/gateway/OrderEntryGateway.   *)
(* hpp): a ring of the times at which the last requests were let through.  *)
(* A ring is a record [head, count, times] of m_orderTimeHead,             *)
(* m_orderTimeCount and m_orderTimes.                                      *)
(***************************************************************************)
EXTENDS Integers

CONSTANTS
  QueueCapacity,       (* The template argument: the size of the ring. *)
  MaxOrdersPerSecond,  (* m_config.maxOrdersPerSecond *)
  Window               (* WINDOW_NANOS, in ticks of the clock. *)

ASSUME LimiterAssumption ==
  /\ QueueCapacity \in Nat \ {0}
  /\ MaxOrdersPerSecond \in Nat
  /\ Window \in Nat

RingSlot == 0 .. QueueCapacity - 1

(* m_orderTimes{} zero-initialises the ring. *)
EmptyRing == [head |-> 0, count |-> 0, times |-> [i \in RingSlot |-> 0]]

Limit == IF MaxOrdersPerSecond < QueueCapacity THEN MaxOrdersPerSecond ELSE QueueCapacity

(* The time in the k-th place of the ring, the oldest being place 0. *)
TimeAt(ring, k) == ring.times[(ring.head + k) % QueueCapacity]

(* Mutant: a request exactly one window old no longer counts. *)
OutsideOrOnTheEdge(ring, k, now) == now - TimeAt(ring, k) >= Window

OutsideWindow(ring, k, now) == now - TimeAt(ring, k) > Window

(* The while loop: drop the leading entries that are out of the window.    *)
Evict(ring, now) ==
  LET n == CHOOSE k \in 0 .. ring.count :
             /\ \A j \in 0 .. k - 1 : OutsideWindow(ring, j, now)
             /\ k < ring.count => ~OutsideWindow(ring, k, now)
  IN  [ring EXCEPT !.head = (@ + n) % QueueCapacity, !.count = @ - n]

HasRoom(ring) == ring.count < Limit

(* Mutant: the slot is counted from the start of the array, not the head. *)
RecordFromStart(ring, now) == [ring EXCEPT !.times[ring.count] = now, !.count = @ + 1]

Record(ring, now) ==
  [ring EXCEPT !.times[(ring.head + ring.count) % QueueCapacity] = now, !.count = @ + 1]

(* checkRateLimit lets a request through iff this is so; the ring after it.*)
Admits(ring, now) == HasRoom(Evict(ring, now))

AfterCheck(ring, now) ==
  LET evicted == Evict(ring, now)
  IN  IF HasRoom(evicted) THEN Record(evicted, now) ELSE evicted
=============================================================================
