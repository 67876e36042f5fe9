---------------------------- MODULE Timing_proofs ----------------------------
(***************************************************************************)
(* The sliding window of the rate limiter, the histogram of latencies and  *)
(* the calibration of the time stamp counter, for every size, limit and    *)
(* window, every number of threads and buckets, and every number of        *)
(* samples.                                                                *)
(***************************************************************************)
EXTENDS RateLimiterMachine, LatencyHistogram, TscCalibrator, FiniteSums_proofs

-----------------------------------------------------------------------------
(* The limiter: the ring holds the tail of the history of accepted         *)
(* requests, and what it has forgotten was already out of the window.      *)

(* The place in the history of the oldest request the ring remembers. *)
Oldest == Len(accepted) - ring.count + 1

Remembers ==
  /\ ring.count <= Len(accepted)
  /\ \A k \in 0 .. ring.count - 1 : TimeAt(ring, k) = accepted[Oldest + k]

InTimeOrder ==
  /\ \A i \in DOMAIN accepted : accepted[i] <= now
  /\ \A i, j \in DOMAIN accepted : i <= j => accepted[i] <= accepted[j]

ForgotTheOld == \A i \in DOMAIN accepted : i < Oldest => now - accepted[i] > Window

LimiterInv == TypeOK /\ Remembers /\ InTimeOrder /\ ForgotTheOld /\ SlidingWindow

-----------------------------------------------------------------------------
(* The limit is a natural number that the ring has room for. *)
LEMMA LimitFits == Limit \in Nat /\ Limit <= QueueCapacity
BY LimiterAssumption DEF Limit

(* Places of the ring wrap at its end, and different places stay different.*)
LEMMA Wrap ==
  ASSUME NEW h \in RingSlot, NEW k \in 0 .. QueueCapacity
  PROVE  /\ (h + k) % QueueCapacity \in RingSlot
         /\ (h + k) % QueueCapacity =
              IF h + k < QueueCapacity THEN h + k ELSE h + k - QueueCapacity
BY LimiterAssumption, Z3 DEF RingSlot

(* The ring after the eviction loop: its entries from the n-th on, those   *)
(* before out of the window, the n-th (if any) within it.                  *)
LEMMA Eviction ==
  ASSUME TypeOK
  PROVE  \E n \in 0 .. ring.count :
           /\ Evict(ring, now) = [head  |-> (ring.head + n) % QueueCapacity,
                                  count |-> ring.count - n,
                                  times |-> ring.times]
           /\ \A k \in 0 .. n - 1 : OutsideWindow(ring, k, now)
           /\ n < ring.count => ~OutsideWindow(ring, n, now)
<1> DEFINE Stop(k) == /\ \A j \in 0 .. k - 1 : OutsideWindow(ring, j, now)
                      /\ k < ring.count => ~OutsideWindow(ring, k, now)
           Out == {k \in 0 .. ring.count : OutsideWindow(ring, k, now)}
<1>1. ring.count \in Nat
  BY LimitFits DEF TypeOK
<1>2. PICK m \in 0 .. ring.count :
        (\A j \in 0 .. m - 1 : j \in Out) /\ (m < ring.count => m \notin Out)
  <2> HIDE DEF Out
  <2> QED BY <1>1, FirstNotIn
<1>4. m \in 0 .. ring.count /\ Stop(m)
  BY <1>1, <1>2
<1>5. PICK n \in 0 .. ring.count : n = (CHOOSE k \in 0 .. ring.count : Stop(k)) /\ Stop(n)
  <2> HIDE DEF Stop
  <2> QED BY <1>4
<1>6. Evict(ring, now) = [ring EXCEPT !.head = (@ + n) % QueueCapacity, !.count = @ - n]
  BY <1>5 DEF Evict
<1>7. ring = [head |-> ring.head, count |-> ring.count, times |-> ring.times]
  BY DEF TypeOK
<1> QED BY <1>5, <1>6, <1>7

(* What the eviction leaves, read against the history: it is still a tail  *)
(* of it, everything before that tail is out of the window and everything  *)
(* in it is within.                                                        *)
LEMMA EvictedRing ==
  ASSUME TypeOK, Remembers, InTimeOrder, ForgotTheOld,
         NEW e, e = Evict(ring, now)
  PROVE  /\ e \in [head : RingSlot, count : 0 .. Limit, times : [RingSlot -> Nat]]
         /\ e.count <= Len(accepted)
         /\ \A k \in 0 .. e.count - 1 : TimeAt(e, k) = accepted[Len(accepted) - e.count + 1 + k]
         /\ \A i \in DOMAIN accepted :
              now - accepted[i] > Window <=> i < Len(accepted) - e.count + 1
<1> DEFINE h == ring.head
           c == ring.count
           L == Len(accepted)
<1>1. PICK n \in 0 .. c :
        /\ e = [head |-> (h + n) % QueueCapacity, count |-> c - n, times |-> ring.times]
        /\ \A k \in 0 .. n - 1 : OutsideWindow(ring, k, now)
        /\ n < c => ~OutsideWindow(ring, n, now)
  BY Eviction
<1>2. /\ h \in RingSlot /\ h \in Nat /\ h < QueueCapacity
      /\ QueueCapacity \in Nat
  BY LimiterAssumption DEF TypeOK, RingSlot
<1>3. /\ c \in Nat /\ c <= Limit /\ Limit \in Nat /\ c <= QueueCapacity
      /\ L \in Nat /\ c <= L
  BY LimitFits, <1>2 DEF TypeOK, Remembers
<1>4. /\ now \in Nat /\ Window \in Nat
      /\ DOMAIN accepted = 1 .. L
      /\ \A i \in 1 .. L : accepted[i] \in Nat
  BY LimiterAssumption DEF TypeOK
<1>5. ring.times \in [RingSlot -> Nat]
  BY DEF TypeOK
<1>6. Oldest = L - c + 1
  BY DEF Oldest
<1>7. \A k \in 0 .. c - 1 : TimeAt(ring, k) = accepted[Oldest + k]
  BY DEF Remembers
<1>8. \A i \in 1 .. L : i < Oldest => now - accepted[i] > Window
  BY <1>4 DEF ForgotTheOld
<1>9. \A i, j \in 1 .. L : i <= j => accepted[i] <= accepted[j]
  BY <1>4 DEF InTimeOrder
<1>10. \A k : TimeAt(ring, k) = ring.times[(h + k) % QueueCapacity]
  BY DEF TimeAt
<1> HIDE DEF h, c, L
<1>11. n \in Nat /\ n <= c /\ c - n \in 0 .. Limit /\ n \in 0 .. QueueCapacity
  BY <1>1, <1>2, <1>3
<1>12. (h + n) % QueueCapacity \in RingSlot
  BY <1>2, <1>11, Wrap
<1>13. e \in [head : RingSlot, count : 0 .. Limit, times : [RingSlot -> Nat]]
  BY <1>1, <1>5, <1>11, <1>12
<1>14. e.count = c - n /\ e.head = (h + n) % QueueCapacity /\ e.times = ring.times
  BY <1>1
<1>15. ASSUME NEW k \in 0 .. (c - n) - 1
       PROVE  TimeAt(e, k) = accepted[L - (c - n) + 1 + k]
  <2>1. n + k \in 0 .. c - 1 /\ k \in 0 .. QueueCapacity /\ n + k \in 0 .. QueueCapacity /\ k \in Nat
    <3>1. c - n \in Int /\ k \in Nat /\ k < c - n
      BY <1>3, <1>11
    <3> QED BY <1>2, <1>3, <1>11, <3>1
  <2>2. Oldest + (n + k) = L - (c - n) + 1 + k
    BY <1>3, <1>6, <1>11, <2>1
  <2> DEFINE g == (h + n) % QueueCapacity
  <2>3. (g + k) % QueueCapacity = (h + (n + k)) % QueueCapacity
    <3>1. g \in RingSlot /\ g = IF h + n < QueueCapacity THEN h + n ELSE h + n - QueueCapacity
      BY <1>2, <1>11, Wrap
    <3>2. (h + (n + k)) % QueueCapacity = IF h + (n + k) < QueueCapacity
                                          THEN h + (n + k) ELSE h + (n + k) - QueueCapacity
      BY <1>2, <2>1, Wrap
    <3> HIDE DEF g
    <3>3. (g + k) % QueueCapacity = IF g + k < QueueCapacity THEN g + k ELSE g + k - QueueCapacity
      BY <2>1, <3>1, Wrap
    <3>4. CASE h + n < QueueCapacity
      BY <1>2, <1>11, <2>1, <3>1, <3>2, <3>3, <3>4
    <3>5. CASE ~ (h + n < QueueCapacity)
      <4>1. g = h + n - QueueCapacity
        BY <3>1, <3>5
      <4>2. h + (n + k) >= QueueCapacity /\ g + k = h + (n + k) - QueueCapacity /\ g + k < QueueCapacity
        BY <1>2, <1>3, <1>11, <2>1, <3>5, <4>1
      <4> QED BY <1>2, <1>11, <2>1, <3>2, <3>3, <4>2
    <3> QED BY <3>4, <3>5
  <2>4. TimeAt(e, k) = TimeAt(ring, n + k)
    BY <1>10, <1>14, <2>3 DEF TimeAt
  <2> QED BY <1>7, <2>1, <2>2, <2>4
<1>16. ASSUME NEW i \in 1 .. L, i < L - (c - n) + 1
       PROVE  now - accepted[i] > Window
  <2>1. CASE i < Oldest
    BY <1>8, <2>1
  <2>2. CASE ~ (i < Oldest)
    <3> DEFINE k == i - Oldest
    <3>1. k \in 0 .. n - 1 /\ k \in 0 .. c - 1 /\ Oldest + k = i
      BY <1>3, <1>6, <1>11, <1>16, <2>2
    <3> HIDE DEF k
    <3>2. OutsideWindow(ring, k, now) /\ TimeAt(ring, k) = accepted[i]
      BY <1>1, <1>7, <3>1
    <3> QED BY <3>2 DEF OutsideWindow
  <2> QED BY <2>1, <2>2
<1>17. ASSUME NEW i \in 1 .. L, ~ (i < L - (c - n) + 1)
       PROVE  ~ (now - accepted[i] > Window)
  <2> DEFINE first == Oldest + n
  <2>1. n < c /\ n \in 0 .. c - 1 /\ first \in 1 .. L /\ first <= i
    BY <1>3, <1>6, <1>11, <1>17
  <2>2. ~OutsideWindow(ring, n, now) /\ TimeAt(ring, n) = accepted[first]
    BY <1>1, <1>7, <2>1
  <2> HIDE DEF first
  <2>3. ~ (now - accepted[first] > Window)
    BY <2>2 DEF OutsideWindow
  <2>4. accepted[first] <= accepted[i] /\ accepted[first] \in Nat /\ accepted[i] \in Nat
    BY <1>4, <1>9, <2>1
  <2> QED BY <1>4, <2>3, <2>4
<1>18. /\ e.count <= L
       /\ \A k \in 0 .. e.count - 1 : TimeAt(e, k) = accepted[L - e.count + 1 + k]
       /\ \A i \in 1 .. L : now - accepted[i] > Window <=> i < L - e.count + 1
  BY <1>3, <1>11, <1>14, <1>15, <1>16, <1>17
<1> QED
  BY <1>4, <1>13, <1>18 DEF L

-----------------------------------------------------------------------------
(* A request let through leaves the invariant: its time goes after the     *)
(* last one the ring holds, and the accepted request Limit places earlier  *)
(* is one the ring has dropped.                                            *)
LEMMA AdmittedStep ==
  ASSUME LimiterInv, CheckRateLimit, Admits(ring, now)
  PROVE  LimiterInv'
<1> DEFINE e == Evict(ring, now)
           L == Len(accepted)
<1>1. /\ e \in [head : RingSlot, count : 0 .. Limit, times : [RingSlot -> Nat]]
      /\ e.count <= L
      /\ \A k \in 0 .. e.count - 1 : TimeAt(e, k) = accepted[L - e.count + 1 + k]
      /\ \A i \in DOMAIN accepted : now - accepted[i] > Window <=> i < L - e.count + 1
  BY EvictedRing DEF LimiterInv
<1>2. ring' = Record(e, now) /\ accepted' = Append(accepted, now) /\ now' = now /\ HasRoom(e)
  BY DEF CheckRateLimit, AfterCheck, Admits
<1> DEFINE h == e.head
           c == e.count
<1>3. /\ ring'.head = h /\ ring'.count = c + 1
      /\ ring'.times = [e.times EXCEPT ![(h + c) % QueueCapacity] = now]
      /\ ring' = [head |-> h, count |-> c + 1,
                  times |-> [e.times EXCEPT ![(h + c) % QueueCapacity] = now]]
  BY <1>1, <1>2 DEF Record
<1>4. c < Limit
  BY <1>2 DEF HasRoom
<1>5. /\ L \in Nat /\ DOMAIN accepted = 1 .. L /\ now \in Nat
      /\ \A i \in 1 .. L : accepted[i] \in Nat
      /\ accepted \in Seq(Nat)
  BY DEF LimiterInv, TypeOK
<1>6. /\ accepted' \in Seq(Nat) /\ Len(accepted') = L + 1 /\ DOMAIN accepted' = 1 .. L + 1
      /\ \A i \in 1 .. L : accepted'[i] = accepted[i]
      /\ accepted'[L + 1] = now
  BY <1>2, <1>5
<1>7. \A i \in 1 .. L : accepted[i] <= now
  BY <1>5 DEF LimiterInv, InTimeOrder
<1>8. \A i, j \in 1 .. L : i <= j => accepted[i] <= accepted[j]
  BY <1>5 DEF LimiterInv, InTimeOrder
<1>9. \A i \in 1 .. L : i + Limit \in 1 .. L => accepted[i + Limit] - accepted[i] > Window
  BY <1>5 DEF LimiterInv, SlidingWindow
<1>10. \A i \in 1 .. L : now - accepted[i] > Window <=> i < L - c + 1
  BY <1>1, <1>5
<1>11. \A k \in 0 .. c - 1 : e.times[(h + k) % QueueCapacity] = accepted[L - c + 1 + k]
  BY <1>1 DEF TimeAt
<1>12. h \in RingSlot /\ c \in Nat /\ c <= L /\ e.times \in [RingSlot -> Nat]
  BY <1>1, LimitFits
<1>13. Limit \in Nat /\ Limit <= QueueCapacity /\ QueueCapacity \in Nat
  BY LimitFits, LimiterAssumption
<1>14. h \in Nat /\ h < QueueCapacity
  BY <1>12, <1>13 DEF RingSlot
<1>15. Oldest' = (L + 1) - (c + 1) + 1
  BY <1>3, <1>6 DEF Oldest
<1> HIDE DEF h, c, L, e
<1> DEFINE place == (h + c) % QueueCapacity
<1>16. place \in RingSlot /\ place = IF h + c < QueueCapacity THEN h + c ELSE h + c - QueueCapacity
  <2>1. c \in 0 .. QueueCapacity
    BY <1>4, <1>12, <1>13
  <2> QED BY <1>12, <2>1, Wrap, Zenon
<1>17. ASSUME NEW k \in 0 .. c - 1
       PROVE  (h + k) % QueueCapacity \in RingSlot /\ (h + k) % QueueCapacity # place
  <2>1. /\ (h + k) % QueueCapacity \in RingSlot
        /\ (h + k) % QueueCapacity = IF h + k < QueueCapacity THEN h + k ELSE h + k - QueueCapacity
    <3>1. k \in 0 .. QueueCapacity
      BY <1>4, <1>12, <1>13
    <3> QED BY <1>12, <3>1, Wrap, Zenon
  <2> HIDE DEF place
  <2> QED BY <1>4, <1>12, <1>13, <1>14, <1>16, <2>1
<1>18. TypeOK'
  <2>1. ring' \in [head : RingSlot, count : 0 .. Limit, times : [RingSlot -> Nat]]
    <3> HIDE DEF place
    <3>1. [e.times EXCEPT ![place] = now] \in [RingSlot -> Nat]
      BY <1>5, <1>12, <1>16
    <3> QED BY <1>3, <1>4, <1>12, <1>13, <3>1 DEF place
  <2> QED BY <1>2, <1>5, <1>6, <2>1 DEF TypeOK
<1>19. Remembers'
  <2>1. ASSUME NEW k \in 0 .. ring'.count - 1
        PROVE  TimeAt(ring', k) = accepted'[Oldest' + k]
    <3>1. k \in Nat /\ k <= c
      BY <1>3, <1>12
    <3>2. TimeAt(ring', k) = [e.times EXCEPT ![place] = now][(h + k) % QueueCapacity]
      BY <1>3 DEF TimeAt
    <3>3. CASE k = c
      <4>1. Oldest' + k = L + 1
        BY <1>5, <1>12, <1>15, <3>3
      <4>2. TimeAt(ring', k) = now
        BY <1>12, <1>16, <3>2, <3>3
      <4> QED BY <1>6, <4>1, <4>2
    <3>4. CASE k # c
      <4>1. k \in 0 .. c - 1
        BY <1>12, <3>1, <3>4
      <4>2. TimeAt(ring', k) = accepted[L - c + 1 + k]
        <5> HIDE DEF place
        <5> QED BY <1>11, <1>12, <1>17, <3>2, <4>1
      <4>3. Oldest' + k = L - c + 1 + k /\ L - c + 1 + k \in 1 .. L
        BY <1>5, <1>12, <1>15, <4>1
      <4> QED BY <1>6, <4>2, <4>3
    <3> QED BY <3>3, <3>4
  <2>2. ring'.count <= Len(accepted')
    BY <1>3, <1>5, <1>6, <1>12
  <2> QED BY <2>1, <2>2 DEF Remembers
<1>20. InTimeOrder'
  <2>1. \A i \in 1 .. L + 1 : accepted'[i] <= now
    BY <1>5, <1>6, <1>7
  <2>2. \A i, j \in 1 .. L + 1 : i <= j => accepted'[i] <= accepted'[j]
    BY <1>5, <1>6, <1>7, <1>8
  <2> QED BY <1>2, <1>6, <2>1, <2>2 DEF InTimeOrder
<1>21. ForgotTheOld'
  <2>1. ASSUME NEW i \in 1 .. L + 1, i < Oldest'
        PROVE  now - accepted'[i] > Window
    <3>1. i \in 1 .. L /\ i < L - c + 1
      BY <1>5, <1>12, <1>15, <2>1
    <3> QED BY <1>6, <1>10, <3>1
  <2> QED BY <1>2, <1>6, <2>1 DEF ForgotTheOld
<1>22. SlidingWindow'
  <2>1. ASSUME NEW i \in 1 .. L + 1, i + Limit \in 1 .. L + 1
        PROVE  accepted'[i + Limit] - accepted'[i] > Window
    <3>1. CASE i + Limit = L + 1
      <4>1. i \in 1 .. L /\ i < L - c + 1
        BY <1>4, <1>5, <1>12, <1>13, <3>1
      <4> QED BY <1>6, <1>10, <3>1, <4>1
    <3>2. CASE i + Limit # L + 1
      <4>1. i \in 1 .. L /\ i + Limit \in 1 .. L
        BY <1>5, <1>13, <2>1, <3>2
      <4> QED BY <1>6, <1>9, <4>1
    <3> QED BY <3>1, <3>2
  <2>2. Limit' = Limit
    BY DEF Limit
  <2> QED BY <1>6, <2>1 DEF SlidingWindow, Limit
<1> QED
  BY <1>18, <1>19, <1>20, <1>21, <1>22 DEF LimiterInv

(* A refused request only drops what is out of the window. *)
LEMMA RefusedStep ==
  ASSUME LimiterInv, CheckRateLimit, ~Admits(ring, now)
  PROVE  LimiterInv'
<1> DEFINE e == Evict(ring, now)
<1>1. ring' = e /\ accepted' = accepted /\ now' = now
  BY DEF CheckRateLimit, AfterCheck, Admits
<1>2. /\ e \in [head : RingSlot, count : 0 .. Limit, times : [RingSlot -> Nat]]
      /\ e.count <= Len(accepted)
      /\ \A k \in 0 .. e.count - 1 : TimeAt(e, k) = accepted[Len(accepted) - e.count + 1 + k]
      /\ \A i \in DOMAIN accepted : now - accepted[i] > Window <=> i < Len(accepted) - e.count + 1
  BY EvictedRing DEF LimiterInv
<1> HIDE DEF e
<1>3. TypeOK'
  <2>1. Limit' = Limit /\ RingSlot' = RingSlot
    BY DEF Limit, RingSlot
  <2> QED BY <1>1, <1>2 DEF LimiterInv, TypeOK
<1>4. Remembers'
  BY <1>1, <1>2 DEF Remembers, Oldest, TimeAt
<1>5. InTimeOrder' /\ SlidingWindow'
  BY <1>1 DEF LimiterInv, InTimeOrder, SlidingWindow
<1>6. ForgotTheOld'
  BY <1>1, <1>2 DEF ForgotTheOld, Oldest
<1> QED
  BY <1>3, <1>4, <1>5, <1>6 DEF LimiterInv

(* The clock moving on keeps the order of the history, and what was out of *)
(* the window stays out.                                                   *)
LEMMA TickStep ==
  ASSUME LimiterInv, Tick
  PROVE  LimiterInv'
<1>1. now \in Nat /\ now' = now + 1 /\ ring' = ring /\ accepted' = accepted
  BY DEF LimiterInv, TypeOK, Tick
<1>2. \A i \in DOMAIN accepted : accepted[i] \in Nat
  BY DEF LimiterInv, TypeOK
<1>3. TypeOK' /\ Remembers' /\ SlidingWindow'
  BY <1>1 DEF LimiterInv, TypeOK, Remembers, Oldest, TimeAt, SlidingWindow
<1>4. InTimeOrder'
  BY <1>1, <1>2 DEF LimiterInv, InTimeOrder
<1>5. ForgotTheOld'
  BY <1>1, <1>2, LimiterAssumption DEF LimiterInv, ForgotTheOld, Oldest
<1> QED
  BY <1>3, <1>4, <1>5 DEF LimiterInv

(* The inductive invariant of the limiter. *)
THEOREM LimiterInvariance == Spec => []LimiterInv
<1>1. Init => LimiterInv
  <2> SUFFICES ASSUME Init PROVE LimiterInv
    OBVIOUS
  <2>1. ring = [head |-> 0, count |-> 0, times |-> [i \in RingSlot |-> 0]]
        /\ accepted = <<>> /\ now = 0
    BY DEF Init, EmptyRing
  <2>2. 0 \in RingSlot /\ 0 \in 0 .. Limit
    BY LimiterAssumption, LimitFits DEF RingSlot
  <2> QED
    BY <2>1, <2>2 DEF LimiterInv, TypeOK, Remembers, Oldest, InTimeOrder, ForgotTheOld, SlidingWindow
<1>2. LimiterInv /\ [Next]_vars => LimiterInv'
  <2> SUFFICES ASSUME LimiterInv, [Next]_vars PROVE LimiterInv'
    OBVIOUS
  <2>1. CASE Tick
    BY <2>1, TickStep
  <2>2. CASE CheckRateLimit
    BY <2>2, AdmittedStep, RefusedStep
  <2>3. CASE UNCHANGED vars
    BY <2>3 DEF vars, LimiterInv, TypeOK, Remembers, Oldest, TimeAt, InTimeOrder, ForgotTheOld, SlidingWindow
  <2> QED
    BY <2>1, <2>2, <2>3 DEF Next
<1> QED
  BY <1>1, <1>2, PTL DEF Spec

(* checkRateLimit never lets more than Limit requests through in a window, *)
(* whatever the size of the ring, the limit and the window.                *)
THEOREM WindowIsBounded == Spec => []SlidingWindow
<1>1. LimiterInv => SlidingWindow
  BY DEF LimiterInv
<1> QED
  BY <1>1, LimiterInvariance, PTL

(* checkRateLimit refuses a request only when the window is full, although *)
(* it remembers at most QueueCapacity requests.                            *)
THEOREM LimiterIsExact == Spec => []RefusesOnlyAtTheLimit
<1>1. LimiterInv => RefusesOnlyAtTheLimit
  <2> SUFFICES ASSUME LimiterInv PROVE RefusesOnlyAtTheLimit
    OBVIOUS
  <2> DEFINE e == Evict(ring, now)
             L == Len(accepted)
             c == e.count
             Recent == {i \in DOMAIN accepted : now - accepted[i] <= Window}
  <2>1. /\ c \in 0 .. Limit /\ c <= L
        /\ \A i \in DOMAIN accepted : now - accepted[i] > Window <=> i < L - c + 1
    BY EvictedRing DEF LimiterInv
  <2>2. L \in Nat /\ DOMAIN accepted = 1 .. L /\ now \in Nat /\ Window \in Nat
        /\ \A i \in 1 .. L : accepted[i] \in Nat
    BY LimiterAssumption DEF LimiterInv, TypeOK
  <2>3. Admits(ring, now) <=> c < Limit
    BY DEF Admits, HasRoom
  <2>4. c \in Nat
    BY <2>1, LimitFits
  <2> HIDE DEF e, L, c
  <2>5. Recent = (L - c + 1) .. L
    <3>1. c <= L
      BY <2>1
    <3>2. ASSUME NEW i \in 1 .. L
          PROVE  now - accepted[i] <= Window <=> i >= L - c + 1
      <4>1. accepted[i] \in Nat /\ i \in Nat
        BY <2>2
      <4>2. now - accepted[i] > Window <=> i < L - c + 1
        BY <2>1, <2>2
      <4> QED BY <2>2, <2>4, <4>1, <4>2
    <3>3. \A i : i \in Recent <=> i \in 1 .. L /\ now - accepted[i] <= Window
      BY <2>2
    <3> HIDE DEF Recent
    <3>4. \A i : i \in 1 .. L /\ i >= L - c + 1 <=> i \in (L - c + 1) .. L
      BY <2>2, <2>4, <3>1
    <3>5. \A i : i \in Recent <=> i \in (L - c + 1) .. L
      BY <3>2, <3>3, <3>4
    <3> QED BY <3>5
  <2>6. Cardinality((L - c + 1) .. L) = c
    <3>1. L - c + 1 \in Int /\ L \in Int
      BY <2>2, <2>4
    <3>2. Cardinality((L - c + 1) .. L) = IF L - c + 1 > L THEN 0 ELSE L - (L - c + 1) + 1
      BY <3>1, FS_Interval
    <3> QED BY <2>2, <2>4, <3>2
  <2> QED
    BY <2>3, <2>5, <2>6 DEF RefusesOnlyAtTheLimit
<1> QED
  BY <1>1, LimiterInvariance, PTL

-----------------------------------------------------------------------------
(* The histogram *)

(* What the threads that have counted their bucket have yet to do: count,  *)
(* add their latency, put it in the place of a larger minimum or of a      *)
(* smaller maximum.                                                        *)
Owed(t) == at[t] \in {"count", "sum"}
OwesMin(t) == Owed(t) \/ at[t] \in {"loadMin", "swapMin"}
OwesMax(t) == at[t] # "idle"

Uncounted == [t \in Recorders |-> IF at[t] = "count" THEN 1 ELSE 0]
Unsummed == [t \in Recorders |-> IF Owed(t) THEN latency[t] ELSE 0]
Weight == [l \in Latencies |-> l * samples[l]]
InBucket(i) == {l \in Latencies : l >= 0 /\ BucketOf(l) = i}

(* The counters and what the threads still owe them make up the samples.   *)
BucketsTally == \A i \in BucketIds : buckets[i] = Number(InBucket(i))
CountTally == count + SumFunctionOnSet(Uncounted, Recorders) = Number(Latencies)
SumTally == sum + SumFunctionOnSet(Unsummed, Recorders) = SumFunctionOnSet(Weight, Latencies)
MinTally ==
  /\ least \in Recorded \cup {Infinity}
  /\ \A l \in Recorded : least <= l \/ \E t \in Recorders : OwesMin(t) /\ latency[t] = l
MaxTally ==
  /\ greatest \in Recorded \cup {0}
  /\ \A l \in Recorded : greatest >= l \/ \E t \in Recorders : OwesMax(t) /\ latency[t] = l
Sampled == \A t \in Recording : latency[t] \in Recorded

Tallied == BucketsTally /\ CountTally /\ SumTally /\ MinTally /\ MaxTally /\ Sampled

(* The stores a reset has made. *)
Cleared ==
  /\ \A i \in BucketIds : i < resetStep => buckets[i] = 0
  /\ resetStep > BucketCount => count = 0
  /\ resetStep > BucketCount + 1 => sum = 0
  /\ resetStep > BucketCount + 2 => least = Infinity
  /\ resetStep > BucketCount + 3 => greatest = 0
  /\ \A l \in Latencies : samples[l] = 0
  /\ Recording = {}

(* A thread records a latency it did not ignore, and what it tries to put  *)
(* in the place of an extreme is beyond it.                                *)
Records ==
  /\ \A t \in Recording : latency[t] \in Latencies /\ latency[t] >= 0
  /\ \A t \in Recorders : at[t] = "swapMin" => latency[t] < seen[t]
  /\ \A t \in Recorders : at[t] = "swapMax" => latency[t] > seen[t]
  /\ \A l \in Latencies : l < 0 => samples[l] = 0

HistogramInv ==
  /\ HistogramTypeOK
  /\ overlapped \in BOOLEAN
  /\ Records
  /\ ~overlapped => IF Resetting THEN Cleared ELSE Tallied

-----------------------------------------------------------------------------
(* The constants. *)
LEMMA Sizes ==
  /\ BucketCount \in Nat \ {0} /\ NanosPerBucket \in Nat \ {0} /\ ResetSteps \in Nat
  /\ IsFiniteSet(Recorders) /\ IsFiniteSet(Latencies)
  /\ Infinity \in Nat /\ \A l \in Latencies : l \in Int /\ l < Infinity
  /\ BucketIds \subseteq Nat
BY HistogramAssumption DEF NanosPerBucket, ResetSteps, BucketIds

(* A number falls into the bucket that begins at or below it. *)
LEMMA Quotient ==
  ASSUME NEW l \in Nat, NEW n \in Nat \ {0}
  PROVE  l \div n \in Nat /\ n * (l \div n) <= l /\ l < n * (l \div n) + n
<1>1. l \div n \in Nat /\ l = n * (l \div n) + (l % n) /\ l % n \in 0 .. n - 1
  BY SMTT(30)
<1> QED BY <1>1, SMTT(30)

(* The smaller of two. *)
LEMMA SmallerOf ==
  ASSUME NEW a \in Int, NEW b \in Int
  PROVE  Min({a, b}) = IF a <= b THEN a ELSE b
<1> DEFINE m == IF a <= b THEN a ELSE b
<1>1. m \in {a, b} /\ \A y \in {a, b} : m <= y
  OBVIOUS
<1>2. \A x \in {a, b} : (\A y \in {a, b} : x <= y) => x = m
  OBVIOUS
<1> HIDE DEF m
<1>3. (CHOOSE x \in {a, b} : \A y \in {a, b} : x <= y) = m
  BY <1>1, <1>2
<1> QED BY <1>3 DEF Min, m

(* The bucket of a latency: the one it falls into, or the last. *)
LEMMA Bucketed ==
  ASSUME NEW l \in Nat
  PROVE  /\ BucketOf(l) \in BucketIds
         /\ BucketOf(l) * NanosPerBucket <= l
         /\ BucketOf(l) < BucketCount - 1 => l < (BucketOf(l) + 1) * NanosPerBucket
<1> DEFINE n == NanosPerBucket
           q == l \div n
           b == BucketOf(l)
<1>1. n \in Nat \ {0} /\ BucketCount \in Nat \ {0}
  BY Sizes
<1>2. q \in Nat /\ n * q <= l /\ l < n * q + n
  <2> HIDE DEF n
  <2> QED BY <1>1, Quotient
<1>3. b = IF q <= BucketCount - 1 THEN q ELSE BucketCount - 1
  <2> HIDE DEF q
  <2>1. b = Min({q, BucketCount - 1})
    BY DEF BucketOf, q
  <2> QED BY <1>1, <1>2, <2>1, SmallerOf
<1> HIDE DEF n, q, b
<1>4. b \in 0 .. BucketCount - 1 /\ b <= q
  BY <1>1, <1>2, <1>3
<1>5. b * n <= q * n /\ q * n = n * q /\ q * n \in Nat /\ b * n \in Nat /\ (b + 1) * n = b * n + n
  <2>1. q - b \in Nat /\ (q - b) * n \in Nat
    BY <1>1, <1>2, <1>4
  <2>2. q * n = b * n + (q - b) * n
    BY <1>1, <1>2, <1>4, <2>1
  <2> QED BY <1>1, <1>2, <1>4, <2>1, <2>2
<1>6. b < BucketCount - 1 => b = q
  BY <1>1, <1>2, <1>3
<1>7. l \in Nat /\ b * n <= l /\ (b < BucketCount - 1 => l < (b + 1) * n)
  BY <1>1, <1>2, <1>4, <1>5, <1>6
<1> QED BY <1>4, <1>7 DEF n, b, BucketIds

-----------------------------------------------------------------------------
(* Sums *)

(* Zeros add up to zero. *)
LEMMA SumOfZeros ==
  ASSUME NEW f, NEW S, IsFiniteSet(S), \A x \in S : f[x] = 0
  PROVE  SumFunctionOnSet(f, S) = 0
<1>1. 0 \in {0} /\ (\A a, b \in {0} : a + b \in {0}) /\ \A x \in S : f[x] \in {0}
  OBVIOUS
<1>2. SumFunctionOnSet(f, S) \in {0}
  BY <1>1, SumClosed
<1> QED BY <1>2

(* A term grows by d, if it is one of the sum. *)
Grows(f, g, S, l, d) ==
  /\ IsFiniteSet(S) /\ d \in Int
  /\ \A x \in S : f[x] \in Int /\ g[x] = f[x] + (IF x = l THEN d ELSE 0)

LEMMA SumGrows ==
  ASSUME NEW f, NEW g, NEW S, NEW l, NEW d, Grows(f, g, S, l, d)
  PROVE  /\ SumFunctionOnSet(g, S) = SumFunctionOnSet(f, S) + (IF l \in S THEN d ELSE 0)
         /\ SumFunctionOnSet(f, S) \in Int
<1>0. IsFiniteSet(S) /\ d \in Int /\ \A x \in S : f[x] \in Int /\ g[x] = f[x] + (IF x = l THEN d ELSE 0)
  BY DEF Grows
<1>1. SumFunctionOnSet(f, S) \in Int
  BY <1>0, SumInt
<1>2. CASE l \in S
  <2>1. ChangesAt(f, g, S, l)
    BY <1>0, <1>2 DEF ChangesAt
  <2>2. /\ SumFunctionOnSet(g, S \ {l}) = SumFunctionOnSet(f, S) - f[l]
        /\ SumFunctionOnSet(g, S) = SumFunctionOnSet(f, S) - f[l] + g[l]
        /\ SumFunctionOnSet(f, S) \in Int
    BY <2>1, SumMoves, Zenon
  <2>3. f[l] \in Int /\ g[l] = f[l] + d
    BY <1>0, <1>2
  <2> QED BY <1>0, <1>1, <1>2, <2>2, <2>3
<1>3. CASE l \notin S
  <2>1. \A x \in S : g[x] = f[x]
    BY <1>0, <1>3
  <2>2. SumFunctionOnSet(g, S) = SumFunctionOnSet(f, S)
    BY <1>0, <2>1, SumSame
  <2> QED BY <1>1, <1>3, <2>2
<1> QED BY <1>2, <1>3

(* Numbers of samples are natural. *)
LEMMA NumberIsNat ==
  ASSUME HistogramTypeOK, NEW S \in SUBSET Latencies
  PROVE  Number(S) \in Nat /\ IsFiniteSet(S)
<1>1. IsFiniteSet(S) /\ \A x \in S : samples[x] \in Nat
  BY Sizes, FS_Subset DEF HistogramTypeOK
<1> QED BY <1>1, SumSign DEF Number

(* Counters of zero tally with no samples, when nobody records. *)
Zeroed ==
  /\ \A l \in Latencies : samples[l] = 0
  /\ \A i \in BucketIds : buckets[i] = 0
  /\ count = 0 /\ sum = 0 /\ least = Infinity /\ greatest = 0
  /\ Recording = {}

LEMMA NothingTallies == Zeroed => Tallied
<1> SUFFICES ASSUME Zeroed  PROVE Tallied
  OBVIOUS
<1> USE DEF Zeroed
<1>1. IsFiniteSet(Recorders) /\ IsFiniteSet(Latencies) /\ \A l \in Latencies : l \in Int
  BY Sizes
<1>2. \A S \in SUBSET Latencies : Number(S) = 0
  BY <1>1, SumOfZeros, FS_Subset DEF Number
<1>3. BucketsTally
  <2>1. \A i : InBucket(i) \in SUBSET Latencies
    BY DEF InBucket
  <2> QED BY <1>2, <2>1 DEF BucketsTally
<1>4. CountTally
  <2>1. \A t \in Recorders : Uncounted[t] = 0
    BY DEF Uncounted, Recording
  <2>2. SumFunctionOnSet(Uncounted, Recorders) = 0 /\ Number(Latencies) = 0
    BY <1>1, <1>2, <2>1, SumOfZeros
  <2> QED BY <2>2 DEF CountTally
<1>5. SumTally
  <2>1. \A t \in Recorders : Unsummed[t] = 0
    BY DEF Unsummed, Recording, Owed
  <2>2. \A l \in Latencies : Weight[l] = 0
    BY <1>1 DEF Weight
  <2>3. SumFunctionOnSet(Unsummed, Recorders) = 0 /\ SumFunctionOnSet(Weight, Latencies) = 0
    BY <1>1, <2>1, <2>2, SumOfZeros
  <2> QED BY <2>3 DEF SumTally
<1>6. Recorded = {}
  BY DEF Recorded
<1> QED BY <1>3, <1>4, <1>5, <1>6 DEF Tallied, MinTally, MaxTally, Sampled

(* A new histogram. *)
LEMMA HistogramStarts == HistogramInit => HistogramInv
<1> SUFFICES ASSUME HistogramInit  PROVE HistogramInv
  OBVIOUS
<1>1. HistogramTypeOK /\ overlapped = FALSE /\ ~Resetting
  BY Sizes DEF HistogramInit, HistogramTypeOK, Resetting
<1>2. Records /\ Recording = {}
  BY DEF HistogramInit, Records, Recording
<1>3. Tallied
  BY <1>2, NothingTallies DEF HistogramInit, Zeroed
<1> QED BY <1>1, <1>2, <1>3 DEF HistogramInv

-----------------------------------------------------------------------------
(* record *)

(* A call of record begins: one more sample, in its bucket, and the rest is owed. *)
LEMMA RecordBucketKeeps ==
  ASSUME HistogramInv, NEW t \in Recorders, NEW l \in Latencies, RecordBucket(t, l)
  PROVE  HistogramInv'
<1>1. /\ l \in Nat /\ BucketOf(l) \in BucketIds /\ IsFiniteSet(Recorders) /\ IsFiniteSet(Latencies)
      /\ \A x \in Latencies : x \in Int
  BY Sizes, Bucketed DEF RecordBucket
<1>2. HistogramTypeOK /\ Records
  BY DEF HistogramInv
<1>3. at[t] = "idle"
  BY DEF RecordBucket
<1>4. \A u \in Recorders : /\ at'[u] = (IF u = t THEN "count" ELSE at[u])
                           /\ latency'[u] = (IF u = t THEN l ELSE latency[u])
  BY <1>2 DEF RecordBucket, HistogramTypeOK
<1>5. \A x \in Latencies : samples[x] \in Nat /\ samples'[x] = (IF x = l THEN samples[l] + 1 ELSE samples[x])
  BY <1>2 DEF RecordBucket, HistogramTypeOK
<1>6. HistogramTypeOK'
  BY <1>1, <1>2 DEF RecordBucket, HistogramTypeOK
<1>7. Records'
  BY <1>1, <1>2, <1>4, <1>5 DEF RecordBucket, Records, Recording
<1>8. overlapped' \in BOOLEAN /\ Resetting' = Resetting
  BY DEF RecordBucket, HistogramInv, Resetting
<1>9. ASSUME ~overlapped'  PROVE Tallied' /\ ~Resetting'
  <2>1. Tallied /\ ~Resetting
    BY <1>9 DEF RecordBucket, HistogramInv
  <2>2. ASSUME NEW S \in SUBSET Latencies
        PROVE  Number(S)' = Number(S) + (IF l \in S THEN 1 ELSE 0) /\ Number(S) \in Nat
    <3>1. IsFiniteSet(S) /\ Number(S) \in Nat
      BY <1>2, NumberIsNat
    <3>2. Grows(samples, samples', S, l, 1)
      BY <1>5, <3>1 DEF Grows
    <3> QED BY <3>1, <3>2, SumGrows DEF Number
  <2>3. Recorded' = Recorded \cup {l}
    BY <1>5 DEF Recorded
  <2>4. BucketsTally'
    <3> SUFFICES ASSUME NEW i \in BucketIds  PROVE buckets'[i] = Number(InBucket(i))'
      BY DEF BucketsTally
    <3>1. InBucket(i) \in SUBSET Latencies /\ (l \in InBucket(i) <=> BucketOf(l) = i)
      BY <1>1 DEF InBucket
    <3>2. buckets[i] = Number(InBucket(i))
      BY <2>1 DEF Tallied, BucketsTally
    <3>3. buckets'[i] = buckets[i] + (IF BucketOf(l) = i THEN 1 ELSE 0)
      BY <1>2 DEF RecordBucket, HistogramTypeOK
    <3> QED BY <2>2, <3>1, <3>2, <3>3
  <2>5. CountTally'
    <3>1. Grows(Uncounted, Uncounted', Recorders, t, 1)
      BY <1>1, <1>3, <1>4 DEF Uncounted, Grows
    <3>3. /\ SumFunctionOnSet(Uncounted', Recorders) = SumFunctionOnSet(Uncounted, Recorders) + 1
          /\ SumFunctionOnSet(Uncounted, Recorders) \in Int
      BY <3>1, SumGrows
    <3>4. Number(Latencies)' = Number(Latencies) + 1
      BY <2>2
    <3>5. count' = count /\ count \in Nat /\ Number(Latencies) \in Nat
      BY <1>2, <2>2 DEF RecordBucket, HistogramTypeOK
    <3> QED BY <2>1, <3>3, <3>4, <3>5 DEF Tallied, CountTally
  <2>6. SumTally'
    <3>1. \A u \in Recorders : Owed(u) => latency[u] \in Int
      BY <1>1, <1>2 DEF Records, Recording, Owed
    <3>2. Grows(Unsummed, Unsummed', Recorders, t, l)
      BY <1>1, <1>3, <1>4, <3>1 DEF Unsummed, Owed, Grows
    <3>3. /\ SumFunctionOnSet(Unsummed', Recorders) = SumFunctionOnSet(Unsummed, Recorders) + l
          /\ SumFunctionOnSet(Unsummed, Recorders) \in Int
      BY <3>2, SumGrows
    <3>4. \A x \in Latencies : Weight[x] \in Int /\ (x # l => Weight'[x] = Weight[x])
      BY <1>1, <1>5 DEF Weight
    <3>5. Weight'[l] = Weight[l] + l
      BY <1>1, <1>5 DEF Weight
    <3>8. Grows(Weight, Weight', Latencies, l, l)
      BY <1>1, <3>4, <3>5 DEF Grows
    <3>6. /\ SumFunctionOnSet(Weight', Latencies) = SumFunctionOnSet(Weight, Latencies) + l
          /\ SumFunctionOnSet(Weight, Latencies) \in Int
      BY <3>8, SumGrows
    <3>7. sum' = sum /\ sum \in Nat
      BY <1>2 DEF RecordBucket, HistogramTypeOK
    <3> QED BY <1>1, <2>1, <3>3, <3>6, <3>7 DEF Tallied, SumTally
  <2>7. MinTally'
    <3>1. least' = least /\ least \in Recorded \cup {Infinity}
      BY <2>1 DEF RecordBucket, Tallied, MinTally
    <3>2. OwesMin(t)' /\ latency'[t] = l /\ ~OwesMin(t)
      BY <1>3, <1>4 DEF OwesMin, Owed
    <3>3. \A u \in Recorders : OwesMin(u) => OwesMin(u)' /\ latency'[u] = latency[u]
      BY <1>4, <3>2 DEF OwesMin, Owed
    <3> QED BY <2>1, <2>3, <3>1, <3>2, <3>3 DEF Tallied, MinTally
  <2>8. MaxTally'
    <3>1. greatest' = greatest /\ greatest \in Recorded \cup {0}
      BY <2>1 DEF RecordBucket, Tallied, MaxTally
    <3>2. OwesMax(t)' /\ latency'[t] = l /\ ~OwesMax(t)
      BY <1>3, <1>4 DEF OwesMax
    <3>3. \A u \in Recorders : OwesMax(u) => OwesMax(u)' /\ latency'[u] = latency[u]
      BY <1>4, <3>2 DEF OwesMax
    <3> QED BY <2>1, <2>3, <3>1, <3>2, <3>3 DEF Tallied, MaxTally
  <2>9. Sampled'
    BY <1>4, <2>1, <2>3 DEF Tallied, Sampled, Recording
  <2> QED BY <1>8, <2>1, <2>4, <2>5, <2>6, <2>7, <2>8, <2>9 DEF Tallied
<1> QED BY <1>6, <1>7, <1>8, <1>9 DEF HistogramInv

(* What every later step of record has in common: a thread that records    *)
(* goes on, and neither the buckets nor the samples change.                *)
LEMMA StepFrame ==
  ASSUME HistogramInv, NEW t \in Recorders, RecordStep(t)
  PROVE  /\ at[t] # "idle" /\ latency[t] \in Nat /\ latency[t] \in Latencies
         /\ \A u \in Recorders : u # t => at'[u] = at[u] /\ latency'[u] = latency[u] /\ seen'[u] = seen[u]
         /\ at'[t] # "idle" => latency'[t] = latency[t]
         /\ samples' = samples /\ overlapped' = overlapped /\ buckets' = buckets
         /\ Resetting' = Resetting /\ Recorded' = Recorded
         /\ HistogramTypeOK /\ Records
         /\ ~overlapped => ~Resetting /\ Tallied /\ BucketsTally' /\ Sampled'
<1>1. at[t] # "idle"
  BY DEF RecordStep, RecordCount, RecordSum, LoadMin, SwapMin, RetryMin, LoadMax, SwapMax, RetryMax
<1>2. HistogramTypeOK /\ Records
  BY DEF HistogramInv
<1>3. latency[t] \in Nat /\ latency[t] \in Latencies
  BY <1>1, <1>2, Sizes DEF Records, Recording
<1>4. /\ \A u \in Recorders : u # t => at'[u] = at[u] /\ latency'[u] = latency[u] /\ seen'[u] = seen[u]
      /\ at'[t] # "idle" => latency'[t] = latency[t]
      /\ samples' = samples /\ overlapped' = overlapped /\ buckets' = buckets /\ resetStep' = resetStep
  <2> USE <1>2 DEF HistogramTypeOK
  <2>1. CASE RecordCount(t)
    BY <2>1 DEF RecordCount, Goes
  <2>2. CASE RecordSum(t)
    BY <2>2 DEF RecordSum, Goes
  <2>3. CASE LoadMin(t) \/ RetryMin(t)
    BY <2>3 DEF LoadMin, RetryMin, LowerMin, Sees, counters
  <2>4. CASE SwapMin(t)
    BY <2>4 DEF SwapMin, Goes
  <2>5. CASE LoadMax(t) \/ RetryMax(t)
    BY <2>5 DEF LoadMax, RetryMax, RaiseMax, Sees, Done, counters
  <2>6. CASE SwapMax(t)
    BY <2>6 DEF SwapMax, Done
  <2> QED BY <2>1, <2>2, <2>3, <2>4, <2>5, <2>6 DEF RecordStep
<1>5. Resetting' = Resetting /\ Recorded' = Recorded
  BY <1>4 DEF Resetting, Recorded
<1>6. ASSUME ~overlapped  PROVE ~Resetting /\ Tallied /\ BucketsTally' /\ Sampled'
  <2>1. ~Resetting /\ Tallied
    BY <1>1, <1>6 DEF HistogramInv, Cleared, Recording
  <2>2. BucketsTally'
    BY <1>4, <2>1 DEF Tallied, BucketsTally, Number
  <2>3. Sampled'
    BY <1>1, <1>4, <1>5, <2>1 DEF Tallied, Sampled, Recording
  <2> QED BY <2>1, <2>2, <2>3
<1> QED BY <1>1, <1>2, <1>3, <1>4, <1>5, <1>6

(* Steps that do not touch the count, the sum or an extreme, by threads    *)
(* that owe it before and after or not at all.                             *)
LEMMA CountStays ==
  ASSUME CountTally, count' = count, samples' = samples,
         \A u \in Recorders : at'[u] = "count" <=> at[u] = "count"
  PROVE  CountTally'
<1>1. Uncounted' = Uncounted
  BY DEF Uncounted
<1> QED BY <1>1 DEF CountTally, Number

LEMMA SumStays ==
  ASSUME SumTally, sum' = sum, samples' = samples,
         \A u \in Recorders : (Owed(u)' <=> Owed(u)) /\ (Owed(u) => latency'[u] = latency[u])
  PROVE  SumTally'
<1>1. Unsummed' = Unsummed /\ Weight' = Weight
  BY DEF Unsummed, Weight
<1> QED BY <1>1 DEF SumTally

LEMMA MinStays ==
  ASSUME MinTally, least' = least, samples' = samples,
         \A u \in Recorders : OwesMin(u) => \/ OwesMin(u)' /\ latency'[u] = latency[u]
                                            \/ least <= latency[u]
  PROVE  MinTally'
BY DEF MinTally, Recorded

LEMMA MaxStays ==
  ASSUME MaxTally, greatest' = greatest, samples' = samples,
         \A u \in Recorders : OwesMax(u) => \/ OwesMax(u)' /\ latency'[u] = latency[u]
                                            \/ greatest >= latency[u]
  PROVE  MaxTally'
BY DEF MaxTally, Recorded

(* The count is what the thread owed it no more. *)
LEMMA RecordCountKeeps ==
  ASSUME HistogramInv, NEW t \in Recorders, RecordStep(t), RecordCount(t)
  PROVE  HistogramInv'
<1>1. at[t] = "count" /\ at'[t] = "sum" /\ latency'[t] = latency[t]
  BY StepFrame DEF RecordCount, Goes, HistogramTypeOK
<1>2. HistogramTypeOK'
  BY StepFrame, Sizes DEF RecordCount, Goes, HistogramTypeOK
<1>3. Records'
  BY StepFrame, <1>1 DEF Records, Recording
<1>4. ASSUME ~overlapped  PROVE Tallied'
  <2>1. CountTally'
    <3>1. Grows(Uncounted, Uncounted', Recorders, t, -1)
      BY StepFrame, Sizes, <1>1 DEF Grows, Uncounted
    <3>2. /\ SumFunctionOnSet(Uncounted', Recorders) = SumFunctionOnSet(Uncounted, Recorders) + (-1)
          /\ SumFunctionOnSet(Uncounted, Recorders) \in Int
      BY <3>1, SumGrows
    <3>3. Number(Latencies)' = Number(Latencies)
      BY StepFrame DEF Number
    <3>4. count' = count + 1 /\ count \in Nat
      BY StepFrame DEF RecordCount, HistogramTypeOK
    <3>5. count + SumFunctionOnSet(Uncounted, Recorders) = Number(Latencies)
      BY StepFrame, <1>4 DEF Tallied, CountTally
    <3> QED BY <3>2, <3>3, <3>4, <3>5 DEF CountTally
  <2>2. SumTally'
    BY StepFrame, <1>1, <1>4, SumStays DEF Tallied, RecordCount, Owed
  <2>3. MinTally'
    BY StepFrame, <1>1, <1>4, MinStays DEF Tallied, RecordCount, OwesMin, Owed
  <2>4. MaxTally'
    BY StepFrame, <1>1, <1>4, MaxStays DEF Tallied, RecordCount, OwesMax
  <2> QED BY StepFrame, <1>4, <2>1, <2>2, <2>3, <2>4 DEF Tallied
<1> QED BY StepFrame, <1>2, <1>3, <1>4 DEF HistogramInv

(* The sum is what the thread owed it no more. *)
LEMMA RecordSumKeeps ==
  ASSUME HistogramInv, NEW t \in Recorders, RecordStep(t), RecordSum(t)
  PROVE  HistogramInv'
<1>1. at[t] = "sum" /\ at'[t] = "loadMin" /\ latency'[t] = latency[t]
  BY StepFrame DEF RecordSum, Goes, HistogramTypeOK
<1>2. HistogramTypeOK'
  BY StepFrame, Sizes DEF RecordSum, Goes, HistogramTypeOK
<1>3. Records'
  BY StepFrame, <1>1 DEF Records, Recording
<1>4. ASSUME ~overlapped  PROVE Tallied'
  <2>1. CountTally'
    BY StepFrame, <1>1, <1>4, CountStays DEF Tallied, RecordSum
  <2>2. SumTally'
    <3>1. \A u \in Recorders : Owed(u) => latency[u] \in Int
      BY StepFrame, Sizes DEF Records, Recording, Owed
    <3>2. Grows(Unsummed, Unsummed', Recorders, t, -latency[t])
      BY StepFrame, Sizes, <1>1, <3>1 DEF Grows, Unsummed, Owed
    <3>3. /\ SumFunctionOnSet(Unsummed', Recorders) = SumFunctionOnSet(Unsummed, Recorders) + (-latency[t])
          /\ SumFunctionOnSet(Unsummed, Recorders) \in Int
      BY <3>2, SumGrows
    <3>4. Weight' = Weight
      BY StepFrame DEF Weight
    <3>5. sum' = sum + latency[t] /\ sum \in Nat /\ latency[t] \in Nat
      BY StepFrame DEF RecordSum, HistogramTypeOK
    <3>6. sum + SumFunctionOnSet(Unsummed, Recorders) = SumFunctionOnSet(Weight, Latencies)
      BY StepFrame, <1>4 DEF Tallied, SumTally
    <3> QED BY <3>3, <3>4, <3>5, <3>6 DEF SumTally
  <2>3. MinTally'
    BY StepFrame, <1>1, <1>4, MinStays DEF Tallied, RecordSum, OwesMin, Owed
  <2>4. MaxTally'
    BY StepFrame, <1>1, <1>4, MaxStays DEF Tallied, RecordSum, OwesMax
  <2> QED BY StepFrame, <1>4, <2>1, <2>2, <2>3, <2>4 DEF Tallied
<1> QED BY StepFrame, <1>2, <1>3, <1>4 DEF HistogramInv

(* A load or a failed exchange of the minimum: the thread tries again, or  *)
(* what it saw is not above its latency, and then the minimum is not.      *)
LEMMA LowerMinKeeps ==
  ASSUME HistogramInv, NEW t \in Recorders, RecordStep(t), LoadMin(t) \/ RetryMin(t)
  PROVE  HistogramInv'
<1>1. PICK current \in Latencies \cup {Infinity} : current >= least /\ LowerMin(t, current)
  <2>1. least \in Latencies \cup {Infinity} /\ least >= least
    BY StepFrame, Sizes DEF HistogramTypeOK
  <2> QED BY <2>1 DEF LoadMin, RetryMin
<1>2. at[t] \in {"loadMin", "swapMin"} /\ UNCHANGED <<counters, latency, samples>>
  BY <1>1 DEF LoadMin, RetryMin, LowerMin, Sees
<1>3. \/ at'[t] = "swapMin" /\ latency[t] < current /\ seen'[t] = current
      \/ at'[t] = "loadMax" /\ latency[t] >= current /\ seen'[t] = 0
  BY StepFrame, <1>1 DEF LowerMin, Sees, HistogramTypeOK
<1>4. HistogramTypeOK'
  <2>1. /\ at' \in [Recorders -> {"idle", "count", "sum", "loadMin", "swapMin", "loadMax", "swapMax"}]
        /\ seen' \in [Recorders -> Latencies \cup {0, Infinity}]
        /\ resetStep' = resetStep
    BY StepFrame, <1>1 DEF LowerMin, Sees, HistogramTypeOK
  <2> QED BY StepFrame, <1>2, <2>1 DEF counters, HistogramTypeOK
<1>5. Records'
  BY StepFrame, <1>2, <1>3 DEF Records, Recording
<1>6. ASSUME ~overlapped  PROVE Tallied'
  <2>1. CountTally'
    BY StepFrame, <1>2, <1>3, <1>6, CountStays DEF Tallied, counters
  <2>2. SumTally'
    BY StepFrame, <1>2, <1>3, <1>6, SumStays DEF Tallied, counters, Owed
  <2>3. MinTally'
    <3>1. least \in Int /\ current \in Int
      BY StepFrame, Sizes DEF HistogramTypeOK
    <3>2. OwesMin(t)' \/ least <= latency[t]
      BY StepFrame, <1>1, <1>3, <3>1 DEF OwesMin
    <3> QED BY StepFrame, <1>2, <1>6, <3>2, MinStays DEF Tallied, counters, OwesMin, Owed
  <2>4. MaxTally'
    BY StepFrame, <1>2, <1>3, <1>6, MaxStays DEF Tallied, counters, OwesMax
  <2> QED BY StepFrame, <1>6, <2>1, <2>2, <2>3, <2>4 DEF Tallied
<1> QED BY StepFrame, <1>4, <1>5, <1>6 DEF HistogramInv

(* The exchange succeeds: the minimum is still the one that was seen, and  *)
(* the latency is below it.                                                *)
LEMMA SwapMinKeeps ==
  ASSUME HistogramInv, NEW t \in Recorders, RecordStep(t), SwapMin(t)
  PROVE  HistogramInv'
<1>1. at[t] = "swapMin" /\ at'[t] = "loadMax" /\ latency'[t] = latency[t]
  BY StepFrame DEF SwapMin, Goes, HistogramTypeOK
<1>2. HistogramTypeOK'
  BY StepFrame, Sizes DEF SwapMin, Goes, HistogramTypeOK
<1>3. Records'
  BY StepFrame, <1>1 DEF Records, Recording
<1>4. least' = latency[t] /\ latency[t] < least /\ least \in Int /\ latency[t] \in Int
  <2>1. latency[t] < seen[t]
    BY StepFrame, <1>1 DEF Records
  <2> QED BY StepFrame, Sizes, <2>1 DEF SwapMin, HistogramTypeOK
<1>5. ASSUME ~overlapped  PROVE Tallied'
  <2>1. CountTally'
    BY StepFrame, <1>1, <1>5, CountStays DEF Tallied, SwapMin
  <2>2. SumTally'
    BY StepFrame, <1>1, <1>5, SumStays DEF Tallied, SwapMin, Owed
  <2>3. MinTally'
    <3>1. latency[t] \in Recorded
      BY StepFrame, <1>5 DEF Tallied, Sampled, Recording
    <3> SUFFICES ASSUME NEW l \in Recorded
                 PROVE  (least' <= l) \/ \E u \in Recorders : OwesMin(u)' /\ latency'[u] = l
      BY StepFrame, <1>4, <3>1 DEF MinTally
    <3>2. l \in Int
      BY Sizes DEF Recorded
    <3>3. CASE least <= l
      BY <1>4, <3>2, <3>3
    <3>4. ASSUME NEW u \in Recorders, OwesMin(u), latency[u] = l
          PROVE  least' <= l \/ (OwesMin(u)' /\ latency'[u] = l)
      BY StepFrame, <1>4, <3>4 DEF OwesMin, Owed
    <3> QED BY StepFrame, <1>5, <3>3, <3>4 DEF Tallied, MinTally
  <2>4. MaxTally'
    BY StepFrame, <1>1, <1>5, MaxStays DEF Tallied, SwapMin, OwesMax
  <2> QED BY StepFrame, <1>5, <2>1, <2>2, <2>3, <2>4 DEF Tallied
<1> QED BY StepFrame, <1>2, <1>3, <1>5 DEF HistogramInv

(* A load or a failed exchange of the maximum, likewise; the call returns  *)
(* if what it saw is not below its latency.                                *)
LEMMA RaiseMaxKeeps ==
  ASSUME HistogramInv, NEW t \in Recorders, RecordStep(t), LoadMax(t) \/ RetryMax(t)
  PROVE  HistogramInv'
<1>1. PICK current \in Latencies \cup {0} : current <= greatest /\ RaiseMax(t, current)
  <2>1. greatest \in Latencies \cup {0} /\ greatest <= greatest
    BY StepFrame, Sizes DEF HistogramTypeOK
  <2> QED BY <2>1 DEF LoadMax, RetryMax
<1>2. at[t] \in {"loadMax", "swapMax"} /\ UNCHANGED <<counters, samples>>
  BY <1>1 DEF LoadMax, RetryMax, RaiseMax, Sees, Done
<1>3. \/ at'[t] = "swapMax" /\ latency[t] > current /\ seen'[t] = current /\ latency' = latency
      \/ at'[t] = "idle" /\ latency[t] <= current
  BY StepFrame, <1>1 DEF RaiseMax, Sees, Done, HistogramTypeOK
<1>4. HistogramTypeOK'
  <2>1. /\ at' \in [Recorders -> {"idle", "count", "sum", "loadMin", "swapMin", "loadMax", "swapMax"}]
        /\ seen' \in [Recorders -> Latencies \cup {0, Infinity}]
        /\ latency' \in [Recorders -> Latencies \cup {0}]
        /\ resetStep' = resetStep
    BY StepFrame, <1>1 DEF RaiseMax, Sees, Done, HistogramTypeOK
  <2> QED BY StepFrame, <1>2, <2>1 DEF counters, HistogramTypeOK
<1>5. Records'
  BY StepFrame, <1>2, <1>3 DEF Records, Recording
<1>6. ASSUME ~overlapped  PROVE Tallied'
  <2>1. CountTally'
    BY StepFrame, <1>2, <1>3, <1>6, CountStays DEF Tallied, counters
  <2>2. SumTally'
    BY StepFrame, <1>2, <1>3, <1>6, SumStays DEF Tallied, counters, Owed
  <2>3. MinTally'
    BY StepFrame, <1>2, <1>3, <1>6, MinStays DEF Tallied, counters, OwesMin, Owed
  <2>4. MaxTally'
    <3>1. greatest \in Int /\ current \in Int
      BY StepFrame, Sizes DEF HistogramTypeOK
    <3>2. (OwesMax(t)' /\ latency'[t] = latency[t]) \/ greatest >= latency[t]
      BY StepFrame, <1>1, <1>3, <3>1 DEF OwesMax
    <3> QED BY StepFrame, <1>2, <1>6, <3>2, MaxStays DEF Tallied, counters, OwesMax
  <2> QED BY StepFrame, <1>6, <2>1, <2>2, <2>3, <2>4 DEF Tallied
<1> QED BY StepFrame, <1>4, <1>5, <1>6 DEF HistogramInv

(* The maximum is still the one that was seen, and the latency is above it. *)
LEMMA SwapMaxKeeps ==
  ASSUME HistogramInv, NEW t \in Recorders, RecordStep(t), SwapMax(t)
  PROVE  HistogramInv'
<1>1. at[t] = "swapMax" /\ at'[t] = "idle"
  BY StepFrame DEF SwapMax, Done, HistogramTypeOK
<1>2. HistogramTypeOK'
  BY StepFrame, Sizes DEF SwapMax, Done, HistogramTypeOK
<1>3. Records'
  BY StepFrame, <1>1 DEF Records, Recording
<1>4. greatest' = latency[t] /\ latency[t] > greatest /\ greatest \in Int /\ latency[t] \in Int
  <2>1. latency[t] > seen[t]
    BY StepFrame, <1>1 DEF Records
  <2> QED BY StepFrame, Sizes, <2>1 DEF SwapMax, HistogramTypeOK
<1>5. ASSUME ~overlapped  PROVE Tallied'
  <2>1. CountTally'
    BY StepFrame, <1>1, <1>5, CountStays DEF Tallied, SwapMax
  <2>2. SumTally'
    BY StepFrame, <1>1, <1>5, SumStays DEF Tallied, SwapMax, Owed
  <2>3. MinTally'
    BY StepFrame, <1>1, <1>5, MinStays DEF Tallied, SwapMax, OwesMin, Owed
  <2>4. MaxTally'
    <3>1. latency[t] \in Recorded
      BY StepFrame, <1>5 DEF Tallied, Sampled, Recording
    <3> SUFFICES ASSUME NEW l \in Recorded
                 PROVE  (greatest' >= l) \/ \E u \in Recorders : OwesMax(u)' /\ latency'[u] = l
      BY StepFrame, <1>4, <3>1 DEF MaxTally
    <3>2. l \in Int
      BY Sizes DEF Recorded
    <3>3. CASE greatest >= l
      BY <1>4, <3>2, <3>3
    <3>4. ASSUME NEW u \in Recorders, OwesMax(u), latency[u] = l
          PROVE  greatest' >= l \/ (OwesMax(u)' /\ latency'[u] = l)
      BY StepFrame, <1>4, <3>4 DEF OwesMax
    <3> QED BY StepFrame, <1>5, <3>3, <3>4 DEF Tallied, MaxTally
  <2> QED BY StepFrame, <1>5, <2>1, <2>2, <2>3, <2>4 DEF Tallied
<1> QED BY StepFrame, <1>2, <1>3, <1>5 DEF HistogramInv

-----------------------------------------------------------------------------
(* reset *)

(* With the histogram to itself a reset begins by forgetting the samples.  *)
LEMMA ResetCallKeeps == HistogramInv /\ ResetCall => HistogramInv'
<1> SUFFICES ASSUME HistogramInv, ResetCall  PROVE HistogramInv'
  OBVIOUS
<1>1. HistogramTypeOK /\ Records
  BY DEF HistogramInv
<1>2. HistogramTypeOK'
  BY <1>1, Sizes DEF ResetCall, HistogramTypeOK, counters
<1>3. Records'
  BY <1>1 DEF ResetCall, Records, Recording
<1>4. overlapped' \in BOOLEAN /\ (~overlapped' => Cleared' /\ Resetting')
  <2>1. Resetting'
    BY Sizes, HistogramAssumption DEF ResetCall, Resetting, ResetSteps
  <2>2. resetStep' = 0 /\ (\A l \in Latencies : samples'[l] = 0) /\ Recording' = Recording
    BY DEF ResetCall, Recording
  <2>3. /\ \A i \in BucketIds : ~(i < 0)
        /\ ~(0 > BucketCount) /\ ~(0 > BucketCount + 1) /\ ~(0 > BucketCount + 2) /\ ~(0 > BucketCount + 3)
    BY Sizes DEF BucketIds
  <2>4. ASSUME ~overlapped'  PROVE Cleared'
    <3>1. Recording' = {}
      BY <2>2, <2>4 DEF ResetCall
    <3> QED BY <2>2, <2>3, <3>1 DEF Cleared
  <2> QED BY <2>1, <2>4 DEF ResetCall
<1> QED BY <1>2, <1>3, <1>4 DEF HistogramInv

(* One counter after the other; the last store leaves nothing that differs *)
(* from no samples.                                                        *)
LEMMA ResetStoreKeeps == HistogramInv /\ ResetStore => HistogramInv'
<1> SUFFICES ASSUME HistogramInv, ResetStore  PROVE HistogramInv'
  OBVIOUS
<1>1. HistogramTypeOK /\ Records /\ Resetting
  BY DEF HistogramInv, ResetStore
<1>2. resetStep \in Nat /\ resetStep < ResetSteps /\ resetStep' = resetStep + 1
  BY <1>1, Sizes DEF ResetStore, Resetting, HistogramTypeOK
<1>3. HistogramTypeOK'
  BY <1>1, <1>2, Sizes DEF ResetStore, HistogramTypeOK
<1>4. Records'
  BY <1>1 DEF ResetStore, Records, Recording
<1>5. ASSUME ~overlapped'  PROVE Cleared'
  <2>1. Cleared
    BY <1>1, <1>5 DEF HistogramInv, ResetStore
  <2>2. Recording' = {} /\ samples' = samples
    BY <2>1 DEF Cleared, ResetStore, Recording
  <2>3. \A i \in BucketIds : i < resetStep' => buckets'[i] = 0
    BY <1>2, <2>1, Sizes DEF Cleared, ResetStore
  <2> QED BY <1>2, <2>1, <2>2, <2>3, Sizes DEF Cleared, ResetStore
<1>6. ASSUME ~overlapped', ~Resetting'  PROVE Tallied'
  <2>1. Cleared' /\ resetStep' = BucketCount + 4
    BY <1>2, <1>5, <1>6, Sizes DEF Resetting, ResetSteps
  <2>2. \A i \in BucketIds : i < BucketCount + 4
    BY Sizes DEF BucketIds
  <2>3. Zeroed'
    BY <2>1, <2>2, Sizes DEF Cleared, Zeroed
  <2>4. (Zeroed => Tallied)'
    BY NothingTallies, PTL
  <2> QED BY <2>3, <2>4
<1> QED BY <1>3, <1>4, <1>5, <1>6 DEF HistogramInv, ResetStore

(* Every step keeps the invariant. *)
LEMMA HistogramStep == HistogramInv /\ [HistogramNext]_histogram => HistogramInv'
<1> SUFFICES ASSUME HistogramInv, [HistogramNext]_histogram  PROVE HistogramInv'
  OBVIOUS
<1>1. CASE UNCHANGED histogram
  <2>1. /\ HistogramTypeOK' /\ Records' /\ Recording' = Recording /\ Recorded' = Recorded
        /\ Resetting' = Resetting /\ overlapped' = overlapped
    BY <1>1 DEF HistogramInv, HistogramTypeOK, Records, Recording, Recorded, Resetting, histogram, counters
  <2>2. Uncounted' = Uncounted /\ Unsummed' = Unsummed /\ Weight' = Weight
    BY <1>1 DEF Uncounted, Unsummed, Owed, Weight, histogram, counters
  <2>3. ASSUME Tallied  PROVE Tallied'
    <3>1. BucketsTally' /\ CountTally' /\ SumTally'
      BY <1>1, <2>2, <2>3 DEF Tallied, BucketsTally, CountTally, SumTally, Number, histogram, counters
    <3>2. MinTally' /\ MaxTally' /\ Sampled'
      BY <1>1, <2>1, <2>3 DEF Tallied, MinTally, MaxTally, Sampled, OwesMin, OwesMax, Owed, histogram, counters
    <3> QED BY <3>1, <3>2 DEF Tallied
  <2>4. Cleared => Cleared'
    BY <1>1, <2>1 DEF Cleared, histogram, counters
  <2> QED BY <2>1, <2>3, <2>4 DEF HistogramInv
<1>2. ASSUME NEW t \in Recorders, NEW l \in Latencies, RecordBucket(t, l)
      PROVE  HistogramInv'
  BY <1>2, RecordBucketKeeps
<1>3. ASSUME NEW t \in Recorders, RecordStep(t)
      PROVE  HistogramInv'
  <2>1. CASE RecordCount(t)
    BY <1>3, <2>1, RecordCountKeeps
  <2>2. CASE RecordSum(t)
    BY <1>3, <2>2, RecordSumKeeps
  <2>3. CASE LoadMin(t) \/ RetryMin(t)
    BY <1>3, <2>3, LowerMinKeeps
  <2>4. CASE SwapMin(t)
    BY <1>3, <2>4, SwapMinKeeps
  <2>5. CASE LoadMax(t) \/ RetryMax(t)
    BY <1>3, <2>5, RaiseMaxKeeps
  <2>6. CASE SwapMax(t)
    BY <1>3, <2>6, SwapMaxKeeps
  <2> QED BY <1>3, <2>1, <2>2, <2>3, <2>4, <2>5, <2>6 DEF RecordStep
<1>4. CASE ResetCall
  BY <1>4, ResetCallKeeps
<1>5. CASE ResetStore
  BY <1>5, ResetStoreKeeps
<1> QED BY <1>1, <1>2, <1>3, <1>4, <1>5 DEF HistogramNext

(* The counters and what the threads have yet to add to them are what was  *)
(* recorded since the last reset, unless a reset ran into a record.        *)
THEOREM HistogramInvariant == HistogramSpec => []HistogramInv
<1> QED BY HistogramStarts, HistogramStep, PTL DEF HistogramSpec

-----------------------------------------------------------------------------
(* At rest *)

(* The least and the greatest of a set of integers. *)
LEMMA MinIs ==
  ASSUME NEW S \in SUBSET Int, NEW x \in S, \A y \in S : x <= y
  PROVE  Min(S) = x
<1>1. \A z \in S : (\A y \in S : z <= y) => z = x
  OBVIOUS
<1>2. (CHOOSE z \in S : \A y \in S : z <= y) = x
  BY <1>1
<1> QED BY <1>2 DEF Min

LEMMA MaxIs ==
  ASSUME NEW S \in SUBSET Int, NEW x \in S, \A y \in S : x >= y
  PROVE  Max(S) = x
<1>1. \A z \in S : (\A y \in S : z >= y) => z = x
  OBVIOUS
<1>2. (CHOOSE z \in S : \A y \in S : z >= y) = x
  BY <1>1
<1> QED BY <1>2 DEF Max

(* With nobody recording nothing is owed. *)
LEMMA RestIsExact == HistogramInv => ExactAtRest
<1> SUFFICES ASSUME HistogramInv, AtRest
             PROVE  /\ HistogramTypeOK
                    /\ \A i \in BucketIds : buckets[i] = Number({l \in Latencies : l >= 0 /\ BucketOf(l) = i})
                    /\ count = Number(Latencies)
                    /\ sum = SumFunctionOnSet([l \in Latencies |-> l * samples[l]], Latencies)
                    /\ least = Min(Recorded \cup {Infinity})
                    /\ greatest = Max(Recorded \cup {0})
  BY DEF ExactAtRest
<1>1. HistogramTypeOK /\ Tallied /\ Recording = {}
  BY DEF HistogramInv, AtRest
<1>2. \A i \in BucketIds : buckets[i] = Number({l \in Latencies : l >= 0 /\ BucketOf(l) = i})
  BY <1>1 DEF Tallied, BucketsTally, InBucket
<1>3. \A t \in Recorders : Uncounted[t] = 0 /\ Unsummed[t] = 0 /\ ~OwesMin(t) /\ ~OwesMax(t)
  BY <1>1 DEF Uncounted, Unsummed, Owed, OwesMin, OwesMax, Recording
<1>4. SumFunctionOnSet(Uncounted, Recorders) = 0 /\ SumFunctionOnSet(Unsummed, Recorders) = 0
  BY <1>3, SumOfZeros, Sizes
<1>5. count = Number(Latencies)
  BY <1>1, <1>4 DEF Tallied, CountTally, HistogramTypeOK
<1>6. sum = SumFunctionOnSet(Weight, Latencies)
  BY <1>1, <1>4 DEF Tallied, SumTally, HistogramTypeOK
<1>7. Recorded \subseteq Int /\ \A l \in Recorded : l < Infinity
  BY Sizes DEF Recorded
<1>8. least = Min(Recorded \cup {Infinity})
  <2>1. /\ Recorded \cup {Infinity} \in SUBSET Int /\ least \in Recorded \cup {Infinity}
        /\ \A l \in Recorded : least <= l
    BY <1>1, <1>3, <1>7, Sizes DEF Tallied, MinTally
  <2>2. \A y \in Recorded \cup {Infinity} : least <= y
    BY <1>7, <2>1, Sizes
  <2> QED BY <2>1, <2>2, MinIs
<1>9. greatest = Max(Recorded \cup {0})
  <2>1. /\ Recorded \cup {0} \in SUBSET Int /\ greatest \in Recorded \cup {0}
        /\ \A l \in Recorded : greatest >= l
    BY <1>1, <1>3, <1>7 DEF Tallied, MaxTally
  <2>2. \A l \in Recorded : l >= 0
    BY <1>7 DEF HistogramInv, Records, Recorded
  <2>3. \A y \in Recorded \cup {0} : greatest >= y
    BY <1>7, <2>1, <2>2
  <2> QED BY <2>1, <2>3, MaxIs
<1> QED BY <1>1, <1>2, <1>5, <1>6, <1>8, <1>9 DEF Weight

(* Once the calls have returned every counter says exactly what was        *)
(* recorded: no increment, and no minimum or maximum, is lost to another   *)
(* thread's (record).                                                      *)
THEOREM HistogramIsExactAtRest == HistogramSpec => []ExactAtRest
<1> QED BY HistogramInvariant, RestIsExact, PTL

-----------------------------------------------------------------------------
(* percentile *)

(* A non-empty set of naturals has a least member, and a greatest one if it is bounded. *)
LEMMA LeastOf ==
  ASSUME NEW S \in SUBSET Nat, S # {}
  PROVE  Min(S) \in S /\ \A y \in S : Min(S) <= y
<1>1. PICK x \in S : \A y \in S : x <= y
  BY LeastNatural
<1>2. S \in SUBSET Int
  OBVIOUS
<1>3. Min(S) = x
  BY <1>1, <1>2, MinIs
<1> QED BY <1>1, <1>3

(* Only what was recorded counts: a set that holds what another one has of *)
(* it has at least as many samples.                                        *)
LEMMA NumberCovers ==
  ASSUME HistogramTypeOK, NEW S \in SUBSET Latencies, NEW T \in SUBSET Latencies,
         S \cap Recorded \subseteq T
  PROVE  Number(S) <= Number(T)
<1> DEFINE B == S \cap T
<1>1. /\ B \in SUBSET Latencies /\ S \ T \in SUBSET Latencies /\ T \ S \in SUBSET Latencies
      /\ B \cap (S \ T) = {} /\ B \cap (T \ S) = {} /\ S = B \cup (S \ T) /\ T = B \cup (T \ S)
  OBVIOUS
<1>2. \A R \in SUBSET Latencies : IsFiniteSet(R) /\ Number(R) \in Nat /\ \A x \in R : samples[x] \in Int
  BY NumberIsNat DEF HistogramTypeOK
<1> HIDE DEF B
<1>3. Number(S) = Number(B) + Number(S \ T)
  <2>1. \A x \in B \cup (S \ T) : samples[x] \in Int
    BY <1>1, <1>2
  <2>2. SumFunctionOnSet(samples, B \cup (S \ T)) =
          SumFunctionOnSet(samples, B) + SumFunctionOnSet(samples, S \ T)
    BY <1>1, <1>2, <2>1, SumUnion
  <2> QED BY <1>1, <2>2 DEF Number
<1>4. Number(T) = Number(B) + Number(T \ S)
  <2>1. \A x \in B \cup (T \ S) : samples[x] \in Int
    BY <1>1, <1>2
  <2>2. SumFunctionOnSet(samples, B \cup (T \ S)) =
          SumFunctionOnSet(samples, B) + SumFunctionOnSet(samples, T \ S)
    BY <1>1, <1>2, <2>1, SumUnion
  <2> QED BY <1>1, <2>2 DEF Number
<1>5. Number(S \ T) = 0
  <2>1. \A x \in S \ T : samples[x] = 0
    BY DEF HistogramTypeOK, Recorded
  <2>2. IsFiniteSet(S \ T)
    BY <1>1, <1>2
  <2> QED BY <2>1, <2>2, SumOfZeros DEF Number
<1>6. Number(B) \in Nat /\ Number(T \ S) \in Nat
  BY <1>1, <1>2
<1> QED BY <1>3, <1>4, <1>5, <1>6

(* The samples up to a bucket. *)
UpTo(i) == {l \in Latencies : l >= 0 /\ BucketOf(l) <= i}
CountTo(k) == {m \in Latencies : m <= k}

(* A latency that is recorded has a bucket. *)
LEMMA HasBucket ==
  ASSUME NEW l \in Latencies, l >= 0
  PROVE  l \in Nat /\ BucketOf(l) \in BucketIds /\ BucketOf(l) \in Nat
<1>1. l \in Nat
  BY Sizes
<1>2. BucketOf(l) \in BucketIds
  BY <1>1, Bucketed
<1> QED BY <1>1, <1>2, Sizes

(* What percentile adds up, bucket by bucket, is the number of samples up to there. *)
LEMMA CumulativeIs ==
  ASSUME HistogramTypeOK, BucketsTally, NEW i \in BucketIds
  PROVE  Cumulative(i) = Number(UpTo(i))
<1> DEFINE Under(n) == {l \in Latencies : l >= 0 /\ BucketOf(l) < n}
           Fails(n) == SumFunctionOnSet(buckets, 0 .. n - 1) # Number(Under(n))
           Bad == {n \in 0 .. BucketCount : Fails(n)}
<1>1. SUFFICES ASSUME Bad # {}  PROVE FALSE
  <2>1. i + 1 \in 0 .. BucketCount /\ (i + 1) - 1 = i /\ i \in Int
    BY Sizes DEF BucketIds
  <2>2. ~Fails(i + 1)
    BY <2>1
  <2>3. Under(i + 1) = UpTo(i)
    <3>1. \A l \in Latencies : l >= 0 => BucketOf(l) \in Int
      BY HasBucket
    <3> QED BY <2>1, <3>1 DEF UpTo
  <2> QED BY <2>1, <2>2, <2>3 DEF Cumulative
<1>2. PICK m \in Bad : \A k \in Bad : m <= k
  <2>1. Bad \in SUBSET Nat
    OBVIOUS
  <2> HIDE DEF Bad
  <2> QED BY <1>1, <2>1, LeastNatural
<1>3. m \in 0 .. BucketCount /\ Fails(m) /\ BucketCount \in Nat
  BY Sizes
<1>4. m # 0
  <2>1. 0 .. 0 - 1 = {}
    OBVIOUS
  <2>2. \A l \in Latencies : l >= 0 => ~(BucketOf(l) < 0)
    <3>1. \A l \in Latencies : l >= 0 => BucketOf(l) \in Nat
      BY HasBucket
    <3> QED BY <3>1
  <2>3. Under(0) = {}
    BY <2>2
  <2>4. Number({}) = 0
    BY SumEmpty DEF Number
  <2>5. SumFunctionOnSet(buckets, {}) = 0
    BY SumEmpty
  <2>6. ~Fails(0)
    BY <2>1, <2>3, <2>4, <2>5
  <2> QED BY <1>3, <2>6
<1> DEFINE b == m - 1
<1>5. b \in BucketIds /\ b \in 0 .. BucketCount /\ b \in Nat /\ ~(m <= b)
  BY <1>3, <1>4, Sizes DEF BucketIds
<1>6. SumFunctionOnSet(buckets, 0 .. b - 1) = Number(Under(b))
  <2>1. b \notin Bad
    <3> HIDE DEF Bad
    <3> QED BY <1>2, <1>5
  <2> QED BY <1>5, <2>1
<1>7. SumFunctionOnSet(buckets, 0 .. b) = buckets[b] + SumFunctionOnSet(buckets, 0 .. b - 1)
  <2> HIDE DEF b
  <2>3. b \in Int /\ b >= 0 /\ b < BucketCount
    BY <1>3, <1>5 DEF BucketIds
  <2>5. (0 .. b) \ {b} = 0 .. b - 1
    <3>1. \A x : x \in (0 .. b) \ {b} <=> x \in 0 .. b - 1
      BY <2>3
    <3> QED BY <3>1
  <2>4. \A x \in 0 .. b : x \in BucketIds
    BY <1>3, <1>5, <2>3 DEF BucketIds
  <2>1. /\ b \in 0 .. b /\ (0 .. b) \ {b} = 0 .. b - 1 /\ IsFiniteSet(0 .. b)
        /\ \A x \in 0 .. b : buckets[x] \in Int
    <3>1. IsFiniteSet(0 .. b)
      BY <2>3, FS_Interval
    <3> QED BY <2>3, <2>4, <2>5, <3>1 DEF HistogramTypeOK
  <2>2. SumFunctionOnSet(buckets, 0 .. b) = buckets[b] + SumFunctionOnSet(buckets, (0 .. b) \ {b})
    BY <2>1, SumTake, SMTT(30)
  <2> QED BY <2>1, <2>2
<1>8. Number(Under(m)) = Number(Under(b)) + Number(InBucket(b))
  <2>1. \A l \in Latencies : l >= 0 => BucketOf(l) \in Int
    BY HasBucket
  <2>2. Under(m) = Under(b) \cup InBucket(b) /\ Under(b) \cap InBucket(b) = {}
    BY <1>5, <2>1 DEF InBucket
  <2>3. Under(b) \in SUBSET Latencies /\ InBucket(b) \in SUBSET Latencies
    BY DEF InBucket
  <2> DEFINE U == Under(b)
  <2> HIDE DEF Under, b
  <2>4. IsFiniteSet(U) /\ IsFiniteSet(InBucket(b)) /\ \A x \in U \cup InBucket(b) : samples[x] \in Int
    BY <2>3, NumberIsNat DEF HistogramTypeOK
  <2> HIDE DEF U
  <2>5. SumFunctionOnSet(samples, U \cup InBucket(b)) =
          SumFunctionOnSet(samples, U) + SumFunctionOnSet(samples, InBucket(b))
    BY <2>2, <2>4, SumUnion DEF U
  <2> QED BY <2>2, <2>5 DEF Number, U
<1>9. buckets[b] = Number(InBucket(b)) /\ Number(InBucket(b)) \in Nat /\ Number(Under(b)) \in Nat
  <2>1. Under(b) \in SUBSET Latencies /\ InBucket(b) \in SUBSET Latencies
    BY DEF InBucket
  <2> QED BY <1>5, <2>1, NumberIsNat DEF BucketsTally
<1>10. SumFunctionOnSet(buckets, 0 .. m - 1) # Number(Under(m))
  BY <1>3
<1> HIDE DEF Under
<1> QED BY <1>6, <1>7, <1>8, <1>9, <1>10

(* The target of a percentile is at most the count, and less than one      *)
(* sample short of the share, or just one.                                 *)
LEMMA TargetIs ==
  ASSUME count \in Nat, NEW p \in Permilles, NEW T \in Targets(p)
  PROVE  /\ T \in Nat /\ T <= count /\ count * p \in Nat
         /\ 1000 * T <= count * p /\ count * p <= 1000 * (T + 1)
<1>1. p \in 0 .. 1000
  BY HistogramAssumption
<1> DEFINE x == count * p
           y == count * (1000 - p)
<1>2. x \in Nat /\ y \in Nat /\ x + y = 1000 * count
  BY <1>1
<1>3. T = x \div 1000 \/ (T = x \div 1000 - 1 /\ x > 0 /\ x % 1000 = 0)
  BY DEF Targets
<1> HIDE DEF x, y
<1> DEFINE q == x \div 1000
<1>4. q \in Nat /\ 1000 * q <= x /\ x < 1000 * q + 1000
  BY <1>2, Quotient
<1>5. x % 1000 = 0 => x = 1000 * q
  BY <1>2, SMTT(30)
<1>6. T = q \/ (T = q - 1 /\ x > 0 /\ x = 1000 * q)
  BY <1>3, <1>5
<1> HIDE DEF q
<1>7. T \in Nat /\ T <= count /\ 1000 * T <= x /\ x <= 1000 * (T + 1)
  BY <1>2, <1>4, <1>6
<1> QED BY <1>2, <1>7 DEF x

(* Greater latencies do not fall into lesser buckets. *)
LEMMA BucketsInOrder ==
  ASSUME NEW l \in Nat, NEW m \in Nat, m <= l
  PROVE  BucketOf(m) <= BucketOf(l)
<1> DEFINE a == BucketOf(l)
           b == BucketOf(m)
           n == NanosPerBucket
<1>1. /\ a \in BucketIds /\ a * n <= l /\ (a < BucketCount - 1 => l < (a + 1) * n)
      /\ b \in BucketIds /\ b * n <= m
  BY Bucketed
<1>2. /\ a \in Nat /\ b \in Nat /\ n \in Nat \ {0} /\ BucketCount \in Nat
      /\ a <= BucketCount - 1 /\ b <= BucketCount - 1
  BY <1>1, Sizes DEF BucketIds
<1> HIDE DEF a, b, n
<1>3. ASSUME b > a  PROVE FALSE
  <2>1. l < (a + 1) * n
    BY <1>1, <1>2, <1>3
  <2>2. b * n = (a + 1) * n + (b - (a + 1)) * n /\ (b - (a + 1)) * n \in Nat /\ (a + 1) * n \in Nat
    BY <1>2, <1>3
  <2>3. b * n \in Nat
    BY <1>2
  <2> QED BY <1>1, <2>1, <2>2, <2>3
<1>4. b <= a
  BY <1>2, <1>3
<1> QED BY <1>4 DEF a, b

(* At rest: the samples up to the last bucket are all of them, and so are  *)
(* those up to the maximum.                                                *)
LEMMA AllSamples ==
  ASSUME HistogramInv, AtRest
  PROVE  /\ HistogramTypeOK /\ BucketsTally /\ count = Number(Latencies) /\ count \in Nat
         /\ Recorded \subseteq Nat /\ Recorded \in SUBSET Latencies /\ greatest \in Nat
         /\ \A l \in Recorded : l <= greatest
         /\ BucketCount - 1 \in BucketIds
         /\ Cumulative(BucketCount - 1) = count
         /\ count > 0 => greatest \in Recorded /\ Number(CountTo(greatest)) = count
<1>1. HistogramTypeOK /\ Records /\ Tallied /\ Recording = {}
  BY DEF HistogramInv, AtRest
<1>2. BucketsTally /\ count = Number(Latencies) /\ count \in Nat
  BY <1>1, RestIsExact DEF ExactAtRest, Tallied, HistogramTypeOK
<1>3. Recorded \subseteq Nat /\ Recorded \in SUBSET Latencies
  BY <1>1, Sizes DEF Records, Recorded
<1>4. greatest \in Recorded \cup {0} /\ \A l \in Recorded : l <= greatest
  <2>1. \A t \in Recorders : ~OwesMax(t)
    BY <1>1 DEF OwesMax, Recording
  <2>2. greatest \in Recorded \cup {0} /\ \A l \in Recorded : greatest >= l
    BY <1>1, <2>1 DEF Tallied, MaxTally
  <2>3. greatest \in Nat
    BY <1>3, <2>2
  <2> QED BY <1>3, <2>2, <2>3
<1>5. BucketCount - 1 \in BucketIds
  BY Sizes DEF BucketIds
<1>6. \A S \in SUBSET Latencies : Recorded \subseteq S => Number(S) = count
  <2> SUFFICES ASSUME NEW S \in SUBSET Latencies, Recorded \subseteq S  PROVE Number(S) = count
    OBVIOUS
  <2>1. Number(S) <= Number(Latencies) /\ Number(Latencies) <= Number(S)
    BY <1>1, NumberCovers
  <2>2. Number(S) \in Nat
    BY <1>1, NumberIsNat
  <2> QED BY <1>2, <2>1, <2>2
<1>7. Cumulative(BucketCount - 1) = count
  <2>1. UpTo(BucketCount - 1) \in SUBSET Latencies
    BY DEF UpTo
  <2>2. ASSUME NEW l \in Recorded  PROVE l \in UpTo(BucketCount - 1)
    <3>1. l \in Latencies /\ l >= 0
      BY <1>3
    <3>2. BucketOf(l) \in BucketIds
      BY <3>1, HasBucket
    <3> QED BY <3>1, <3>2, Sizes DEF UpTo, BucketIds
  <2>3. Number(UpTo(BucketCount - 1)) = count
    BY <1>6, <2>1, <2>2
  <2> QED BY <1>1, <1>2, <1>5, <2>3, CumulativeIs
<1>8. ASSUME count > 0  PROVE greatest \in Recorded /\ Number(CountTo(greatest)) = count
  <2>1. Recorded # {}
    <3>1. ASSUME Recorded = {}  PROVE count = 0
      <4>1. \A l \in Latencies : samples[l] = 0
        BY <1>1, <3>1 DEF Recorded, HistogramTypeOK
      <4> QED BY <1>2, <4>1, SumOfZeros, Sizes DEF Number
    <3> QED BY <1>8, <3>1
  <2>2. greatest \in Recorded
    <3>1. PICK l \in Recorded : TRUE
      BY <2>1
    <3>2. l \in Nat /\ l <= greatest
      BY <1>3, <1>4
    <3>3. greatest = 0 => l = 0
      BY <3>2
    <3> QED BY <1>4, <3>3
  <2>3. CountTo(greatest) \in SUBSET Latencies /\ Recorded \subseteq CountTo(greatest)
    BY <1>3, <1>4 DEF CountTo
  <2> QED BY <1>6, <2>2, <2>3
<1>9. greatest \in Nat
  BY <1>3, <1>4
<1> QED BY <1>1, <1>2, <1>3, <1>4, <1>5, <1>7, <1>8, <1>9

(* The buckets up to the one at which percentile stops hold the target,    *)
(* those before it do not.                                                 *)
LEMMA RestIsRanked == HistogramInv => PercentileIsRanked
<1> SUFFICES ASSUME HistogramInv, AtRest, NEW p \in Permilles, NEW T \in Targets(p)
             PROVE  LET v == Percentile(T)
                        below == Number({l \in Latencies : l < v - NanosPerBucket})
                    IN  /\ v <= greatest
                        /\ \/ v = BucketCount * NanosPerBucket
                           \/ 1000 * (Number({l \in Latencies : l <= v}) + 1) >= count * p
                        /\ below = 0 \/ 1000 * below < count * p
  BY DEF PercentileIsRanked
<1> DEFINE n == NanosPerBucket
           last == BucketCount - 1
           reached == {i \in BucketIds : Cumulative(i) >= T}
           low == Min(reached)
           v == Percentile(T)
           Below == {l \in Latencies : l < v - n}
<1>1. /\ HistogramTypeOK /\ BucketsTally /\ count \in Nat /\ count = Number(Latencies)
      /\ Recorded \subseteq Nat /\ Recorded \in SUBSET Latencies /\ greatest \in Nat
      /\ \A l \in Recorded : l <= greatest
      /\ last \in BucketIds /\ Cumulative(last) = count
      /\ count > 0 => greatest \in Recorded /\ Number(CountTo(greatest)) = count
  BY AllSamples
<1>2. /\ T \in Nat /\ T <= count /\ count * p \in Nat
      /\ 1000 * T <= count * p /\ count * p <= 1000 * (T + 1)
  BY <1>1, TargetIs
<1>3. /\ n \in Nat \ {0} /\ BucketCount \in Nat \ {0}
      /\ \A i : i \in BucketIds <=> i \in Nat /\ i <= last
  BY Sizes DEF BucketIds
<1>5. low \in BucketIds /\ Cumulative(low) >= T /\ \A i \in reached : low <= i
  <2>1. last \in reached
    BY <1>1, <1>2
  <2>2. reached \in SUBSET Nat
    BY <1>3
  <2> HIDE DEF reached
  <2>3. low \in reached /\ \A i \in reached : low <= i
    BY <2>1, <2>2, LeastOf
  <2> QED BY <2>3 DEF reached
<1>6. v = IF count = 0 THEN 0 ELSE IF (low + 1) * n <= greatest THEN (low + 1) * n ELSE greatest
  <2>1. reached # {}
    BY <1>1, <1>2
  <2>2. v = IF count = 0 THEN 0 ELSE Min({(low + 1) * n, greatest})
    BY <2>1 DEF Percentile
  <2>3. (low + 1) * n \in Int /\ greatest \in Int
    BY <1>1, <1>3, <1>5
  <2> HIDE DEF low, n, v
  <2>4. Min({(low + 1) * n, greatest}) = IF (low + 1) * n <= greatest THEN (low + 1) * n ELSE greatest
    BY <2>3, SmallerOf
  <2> QED BY <2>2, <2>4
<1>7. low \in Nat /\ low <= last /\ (low + 1) * n \in Nat /\ (low + 1) * n = low * n + n /\ low * n \in Nat
  <2>1. low \in Nat /\ low <= last
    BY <1>3, <1>5
  <2> HIDE DEF low, n
  <2> QED BY <1>3, <2>1
<1>8. v \in Nat /\ v <= greatest /\ v <= (low + 1) * n
  <2> HIDE DEF low, n, v
  <2> QED BY <1>1, <1>6, <1>7
<1>9. v = BucketCount * n \/ 1000 * (Number(CountTo(v)) + 1) >= count * p
  <2>1. CountTo(v) \in SUBSET Latencies /\ Number(CountTo(v)) \in Nat
    BY <1>1, NumberIsNat DEF CountTo
  <2>2. CASE count = 0
    BY <1>2, <2>1, <2>2
  <2>3. CASE v = greatest /\ count > 0
    <3>1. Number(CountTo(v)) = count
      BY <1>1, <2>3
    <3> HIDE DEF v
    <3> QED BY <1>2, <2>1, <3>1
  <2>4. CASE v = (low + 1) * n /\ low = last
    <3>1. low + 1 = BucketCount
      BY <1>3, <2>4
    <3> QED BY <2>4, <3>1
  <2>5. CASE v = (low + 1) * n /\ low < last
    <3>1. UpTo(low) \in SUBSET Latencies /\ Number(UpTo(low)) = Cumulative(low)
      BY <1>1, <1>5, CumulativeIs DEF UpTo
    <3>2. ASSUME NEW l \in UpTo(low)  PROVE l \in CountTo(v)
      <4> DEFINE b == BucketOf(l)
      <4>1. l \in Latencies /\ l \in Nat /\ b <= low /\ b \in Nat
        BY <3>2, HasBucket DEF UpTo
      <4>2. b < BucketCount - 1
        BY <1>3, <1>7, <2>5, <4>1
      <4>3. l < (b + 1) * n
        BY <4>1, <4>2, Bucketed
      <4> HIDE DEF b, low, n, v
      <4>4. (low + 1) * n = (b + 1) * n + (low - b) * n /\ (low - b) * n \in Nat /\ (b + 1) * n \in Nat
        BY <1>3, <1>7, <4>1
      <4> QED BY <1>8, <2>5, <4>1, <4>3, <4>4 DEF CountTo
    <3>3. Number(UpTo(low)) <= Number(CountTo(v))
      BY <1>1, <2>1, <3>1, <3>2, NumberCovers
    <3>4. Number(UpTo(low)) \in Nat
      BY <1>1, <3>1, NumberIsNat
    <3>5. T <= Number(CountTo(v))
      BY <1>2, <1>5, <2>1, <3>1, <3>3, <3>4
    <3> HIDE DEF v
    <3> QED BY <1>2, <2>1, <3>5
  <2>6. (count = 0 \/ count > 0) /\ (low = last \/ low < last)
    <3> HIDE DEF low
    <3> QED BY <1>1, <1>3, <1>7
  <2> HIDE DEF v, low, last, n
  <2> QED BY <1>6, <1>7, <2>2, <2>3, <2>4, <2>5, <2>6
<1>10. Number(Below) = 0 \/ 1000 * Number(Below) < count * p
  <2>1. Below \in SUBSET Latencies /\ Number(Below) \in Nat
    BY <1>1, NumberIsNat
  <2>2. \A l \in Below : l \in Int /\ l < low * n
    <3>1. \A l \in Latencies : l \in Int
      BY HistogramAssumption
    <3> HIDE DEF v, low, n
    <3> QED BY <1>3, <1>7, <1>8, <3>1
  <2>3. CASE low = 0
    <3>1. Below \cap Recorded \subseteq {}
      <4>1. low * n = 0
        BY <1>3, <2>3
      <4>2. \A l \in Below : l < 0
        BY <2>2, <4>1
      <4>3. \A l \in Recorded : l \in Nat
        BY <1>1
      <4> HIDE DEF Below
      <4> QED BY <4>2, <4>3
    <3>2. Number({}) = 0
      BY SumEmpty DEF Number
    <3>3. {} \in SUBSET Latencies
      OBVIOUS
    <3> HIDE DEF Below
    <3>4. Number(Below) <= Number({})
      BY <1>1, <2>1, <3>1, <3>3, NumberCovers
    <3> QED BY <2>1, <3>2, <3>4
  <2>4. CASE low > 0
    <3> DEFINE i == low - 1
    <3>1. i \in BucketIds /\ i \in Nat /\ i < low
      BY <1>3, <1>7, <2>4
    <3>2. UpTo(i) \in SUBSET Latencies /\ Number(UpTo(i)) = Cumulative(i)
      BY <1>1, <3>1, CumulativeIs DEF UpTo
    <3>3. Number(UpTo(i)) \in Nat
      BY <1>1, <3>2, NumberIsNat
    <3>4. ASSUME NEW l \in Below, l \in Recorded  PROVE l \in UpTo(i)
      <4> DEFINE b == BucketOf(l)
      <4>1. l \in Latencies /\ l \in Nat /\ l < low * n
        BY <1>1, <2>2, <3>4
      <4>2. b \in Nat /\ b * n <= l
        BY <1>3, <4>1, Bucketed
      <4> HIDE DEF b, low, n
      <4>3. ASSUME b >= low  PROVE FALSE
        <5>1. b * n = low * n + (b - low) * n /\ (b - low) * n \in Nat /\ b * n \in Nat
          BY <1>3, <1>7, <4>2, <4>3
        <5> QED BY <1>7, <4>1, <4>2, <5>1
      <4>4. b <= low - 1
        BY <1>7, <4>2, <4>3
      <4> QED BY <4>1, <4>4 DEF UpTo, b
    <3>5. Number(Below) <= Number(UpTo(i))
      <4> HIDE DEF Below, i
      <4> QED BY <1>1, <2>1, <3>2, <3>4, NumberCovers
    <3>6. ~(Cumulative(i) >= T)
      <4> HIDE DEF low
      <4> QED BY <1>5, <1>7, <3>1
    <3> HIDE DEF Below, i
    <3>7. Number(Below) < T
      BY <1>2, <2>1, <3>2, <3>3, <3>5, <3>6
    <3> QED BY <1>2, <2>1, <3>7
  <2> HIDE DEF low
  <2> QED BY <1>7, <2>3, <2>4
<1> HIDE DEF v, n
<1> QED BY <1>8, <1>9, <1>10 DEF v, n, CountTo

(* A percentile is never above the maximum; its share of all samples, but  *)
(* for at most one, is no greater, except for samples out of range; and    *)
(* the samples more than a bucket below it are none, or a lesser share     *)
(* (percentile), whichever way the product of count and percentile rounds. *)
THEOREM PercentilesAreRanked == HistogramSpec => []PercentileIsRanked
<1> QED BY HistogramInvariant, RestIsRanked, PTL

-----------------------------------------------------------------------------
(* The calibrator *)

Sample == Len(measurements) + 1
Exact(i) == i \notin delayed

(* What the two clocks have counted in a sample that was not interrupted. *)
ClocksAgree ==
  /\ tscTicks \in Nat /\ wallTicks \in Nat /\ tscTicks <= wallTicks
  /\ reading = "start_tsc" => tscTicks = 0 /\ wallTicks = 0
  /\ reading = "end_tsc" /\ Exact(Sample) => wallTicks = 0
  /\ reading \in {"end_wall", "measure"} => tscTicks > 0
  /\ reading \in {"end_wall", "measure"} /\ Exact(Sample) => wallTicks = tscTicks

CalibratorInv ==
  /\ reading \in {"start_wall", "start_tsc", "end_tsc", "end_wall", "measure", "done"}
  /\ measurements \in Seq(Nat)
  /\ IsFiniteSet(delayed)
  /\ ClocksAgree
  /\ \A i \in 1 .. Len(measurements) :
       measurements[i] <= 100 /\ (Exact(i) => measurements[i] = 100)
  /\ reading = "end_tsc" => tscTicks = 0
  /\ reading = "done" => Len(measurements) = SAMPLES /\ cyclesPerNano = Median(measurements)

(* A clock that counted less than the other shows a rate of at most one. *)
LEMMA RateAtMostOne ==
  ASSUME NEW a \in Nat, NEW w \in Nat \ {0}, a <= w
  PROVE  /\ (100 * a) \div w \in Nat /\ (100 * a) \div w <= 100
         /\ a = w => (100 * a) \div w = 100
<1> DEFINE q == (100 * a) \div w
<1>1. q \in Nat /\ w * q <= 100 * a /\ 100 * a < w * q + w
  <2> DEFINE x == 100 * a
  <2>1. x \in Nat
    OBVIOUS
  <2> HIDE DEF x
  <2>2. x \div w \in Nat /\ w * (x \div w) <= x /\ x < w * (x \div w) + w
    BY <2>1, Quotient
  <2> QED BY <2>2 DEF x
<1> HIDE DEF q
<1>2. ASSUME q > 100  PROVE FALSE
  <2>1. w * q = w * 101 + w * (q - 101) /\ w * (q - 101) \in Nat /\ w * q \in Nat
    BY <1>1, <1>2
  <2> QED BY <1>1, <2>1
<1>3. ASSUME a = w, q < 100  PROVE FALSE
  <2>1. w * 100 = (w * q + w) + w * (99 - q) /\ w * (99 - q) \in Nat /\ w * q \in Nat
    BY <1>1, <1>3
  <2> QED BY <1>1, <1>3, <2>1
<1>4. q \in Nat /\ q <= 100 /\ (a = w => q = 100)
  BY <1>1, <1>2, <1>3
<1> QED BY <1>4 DEF q

(* The samples have a median: one of them, that more than half are not above. *)
LEMMA MedianIs ==
  ASSUME NEW s, NEW c \in Nat, \A i \in 1 .. SAMPLES : s[i] \in Nat /\ s[i] <= c
  PROVE  /\ Median(s) \in {s[i] : i \in 1 .. SAMPLES}
         /\ Cardinality(AtMost(s, Median(s))) > SAMPLES \div 2
<1> DEFINE h == SAMPLES \div 2
           Most == {v \in Nat : Cardinality(AtMost(s, v)) > h}
<1>1. SAMPLES \in Nat \ {0} /\ h \in Nat /\ h < SAMPLES
  BY CalibratorAssumption
<1> HIDE DEF h
<1>2. \A v : IsFiniteSet(AtMost(s, v)) /\ Cardinality(AtMost(s, v)) \in Nat
  <2> SUFFICES ASSUME NEW v  PROVE IsFiniteSet(AtMost(s, v)) /\ Cardinality(AtMost(s, v)) \in Nat
    OBVIOUS
  <2>1. AtMost(s, v) \in SUBSET (1 .. SAMPLES)
    BY DEF AtMost
  <2>2. IsFiniteSet(1 .. SAMPLES)
    BY <1>1, FS_Interval
  <2> QED BY <2>1, <2>2, FS_Subset, FS_CardinalityType
<1>3. Most # {}
  <2>1. AtMost(s, c) = 1 .. SAMPLES
    BY DEF AtMost
  <2>2. Cardinality(1 .. SAMPLES) = SAMPLES
    BY <1>1, FS_Interval
  <2> QED BY <1>1, <2>1, <2>2
<1>4. PICK v \in Most : \A u \in Most : v <= u
  <2>1. Most \in SUBSET Nat
    OBVIOUS
  <2> HIDE DEF Most
  <2> QED BY <1>3, <2>1, LeastNatural
<1>5. v \in Nat /\ Cardinality(AtMost(s, v)) > h
  OBVIOUS
<1>6. \A u \in Nat : u < v => Cardinality(AtMost(s, u)) <= h
  <2> SUFFICES ASSUME NEW u \in Nat, u < v  PROVE Cardinality(AtMost(s, u)) <= h
    OBVIOUS
  <2>1. u \notin Most
    <3> HIDE DEF Most
    <3> QED BY <1>4, <1>5
  <2> QED BY <1>1, <1>2, <2>1
<1> DEFINE Good(w) == /\ Cardinality(AtMost(s, w)) > h
                      /\ \A i \in 1 .. SAMPLES : s[i] < w => Cardinality(AtMost(s, s[i])) <= h
           Taken == {s[i] : i \in 1 .. SAMPLES}
<1>7. v \in Taken
  <2> SUFFICES ASSUME \A i \in 1 .. SAMPLES : s[i] # v  PROVE FALSE
    OBVIOUS
  <2>1. CASE v = 0
    <3>1. AtMost(s, v) = {}
      BY <2>1 DEF AtMost
    <3> QED BY <1>1, <1>5, <3>1, FS_EmptySet
  <2>2. CASE v # 0
    <3>1. AtMost(s, v) = AtMost(s, v - 1)
      BY <1>5, <2>2 DEF AtMost
    <3>2. v - 1 \in Nat /\ v - 1 < v
      BY <1>5, <2>2
    <3> QED BY <1>1, <1>2, <1>5, <1>6, <3>1, <3>2
  <2> QED BY <2>1, <2>2
<1>8. Good(v)
  BY <1>5, <1>6
<1>9. Median(s) = CHOOSE w \in Taken : Good(w)
  BY DEF Median, h
<1> HIDE DEF Good, Taken
<1>10. Median(s) \in Taken /\ Good(Median(s))
  BY <1>7, <1>8, <1>9
<1> QED BY <1>10 DEF Good, Taken, h

(* No sample is taken yet. *)
LEMMA CalibratorStarts == CalibratorInit => CalibratorInv
<1> SUFFICES ASSUME CalibratorInit  PROVE CalibratorInv
  OBVIOUS
<1>1. /\ measurements \in Seq(Nat) /\ Len(measurements) = 0 /\ IsFiniteSet(delayed)
      /\ reading = "start_wall" /\ tscTicks = 0 /\ wallTicks = 0
  BY FS_EmptySet DEF CalibratorInit
<1> QED BY <1>1 DEF CalibratorInv, ClocksAgree

(* Time passes between two readings; a sample it passes in where it should *)
(* not counts as delayed.                                                  *)
LEMMA ReadingKeeps ==
  ASSUME CalibratorInv, NEW ticks,
         \/ ticks \in Delays /\ (StartTsc(ticks) \/ EndWall(ticks))
         \/ ticks \in Sleeps /\ EndTsc(ticks)
  PROVE  CalibratorInv'
<1>1. ticks \in Nat /\ (EndTsc(ticks) => ticks > 0)
  <2>1. EndTsc(ticks) => ~StartTsc(ticks) /\ ~EndWall(ticks)
    BY DEF StartTsc, EndWall, EndTsc, Pass
  <2>2. EndTsc(ticks) => ticks \in Sleeps
    BY <2>1
  <2>3. Delays \subseteq Nat /\ Sleeps \subseteq Nat \ {0}
    BY CalibratorAssumption
  <2>4. ticks \in Delays \/ ticks \in Sleeps
    OBVIOUS
  <2>5. ticks \in Nat
    BY <2>3, <2>4
  <2>6. EndTsc(ticks) => ticks \in Nat \ {0}
    BY <2>2, <2>3
  <2> QED BY <2>5, <2>6
<1>2. measurements' = measurements /\ measurements \in Seq(Nat)
  BY DEF StartTsc, EndWall, EndTsc, Pass, CalibratorInv
<1>3. /\ IsFiniteSet(delayed') /\ delayed \subseteq delayed'
      /\ ~EndTsc(ticks) /\ ticks > 0 => Sample \in delayed'
  <2>1. IsFiniteSet(delayed) /\ IsFiniteSet(delayed \cup {Len(measurements) + 1})
    BY FS_AddElement DEF CalibratorInv
  <2>2. CASE EndTsc(ticks)
    BY <2>1, <2>2 DEF EndTsc
  <2>3. CASE StartTsc(ticks) \/ EndWall(ticks)
    BY <2>1, <2>3 DEF StartTsc, EndWall, Interrupted, Sample
  <2> QED BY <2>2, <2>3
<1>4. Sample' = Sample /\ \A i : Exact(i)' => Exact(i)
  BY <1>2, <1>3 DEF Sample, Exact
<1>5. CASE StartTsc(ticks)
  <2>1. /\ reading = "start_tsc" /\ reading' = "end_tsc" /\ ~EndTsc(ticks)
        /\ wallTicks' = ticks /\ tscTicks' = 0
    BY <1>1, <1>5 DEF StartTsc, EndTsc, Pass, CalibratorInv, ClocksAgree
  <2>2. ClocksAgree'
    BY <1>1, <1>3, <1>4, <2>1 DEF ClocksAgree, Exact
  <2> QED BY <1>2, <1>3, <1>4, <2>1, <2>2 DEF CalibratorInv
<1>6. CASE EndTsc(ticks)
  <2>1. /\ reading = "end_tsc" /\ reading' = "end_wall" /\ tscTicks = 0 /\ wallTicks \in Nat
        /\ wallTicks' = wallTicks + ticks /\ tscTicks' = ticks /\ ticks > 0
        /\ Exact(Sample) => wallTicks = 0
    BY <1>1, <1>6 DEF EndTsc, Pass, CalibratorInv, ClocksAgree
  <2>2. ClocksAgree'
    BY <1>1, <1>4, <2>1 DEF ClocksAgree
  <2> QED BY <1>2, <1>3, <1>4, <2>1, <2>2 DEF CalibratorInv
<1>7. CASE EndWall(ticks)
  <2>1. /\ reading = "end_wall" /\ reading' = "measure" /\ tscTicks \in Nat /\ wallTicks \in Nat
        /\ wallTicks' = wallTicks + ticks /\ tscTicks' = tscTicks /\ ~EndTsc(ticks)
        /\ tscTicks > 0 /\ tscTicks <= wallTicks /\ (Exact(Sample) => wallTicks = tscTicks)
    BY <1>1, <1>7 DEF EndWall, EndTsc, Pass, CalibratorInv, ClocksAgree
  <2>2. ClocksAgree'
    BY <1>1, <1>3, <1>4, <2>1 DEF ClocksAgree, Exact
  <2> QED BY <1>2, <1>3, <1>4, <2>1, <2>2 DEF CalibratorInv
<1> QED BY <1>5, <1>6, <1>7

(* A sample is the rate of the two clocks. *)
LEMMA MeasureKeeps == CalibratorInv /\ Measure => CalibratorInv'
<1> SUFFICES ASSUME CalibratorInv, Measure  PROVE CalibratorInv'
  OBVIOUS
<1> DEFINE x == (100 * tscTicks) \div wallTicks
<1>1. /\ tscTicks \in Nat /\ wallTicks \in Nat \ {0} /\ tscTicks <= wallTicks
      /\ Exact(Sample) => wallTicks = tscTicks
  BY DEF CalibratorInv, ClocksAgree, Measure
<1>2. x \in Nat /\ x <= 100 /\ (Exact(Sample) => x = 100)
  BY <1>1, RateAtMostOne
<1>3. measurements' = Append(measurements, x)
  BY <1>1 DEF Measure
<1> HIDE DEF x
<1>4. /\ measurements \in Seq(Nat) /\ measurements' \in Seq(Nat)
      /\ Len(measurements) \in Nat /\ Len(measurements') = Sample
      /\ \A i \in 1 .. Len(measurements) : measurements'[i] = measurements[i]
      /\ measurements'[Sample] = x
  BY <1>2, <1>3 DEF CalibratorInv, Sample
<1>5. \A i \in 1 .. Len(measurements)' :
        measurements'[i] <= 100 /\ (Exact(i)' => measurements'[i] = 100)
  BY <1>2, <1>4 DEF CalibratorInv, Measure, Exact, Sample
<1>6. ClocksAgree'
  BY <1>1 DEF ClocksAgree, Measure
<1> QED BY <1>4, <1>5, <1>6 DEF CalibratorInv, Measure

(* Every step keeps the invariant. *)
LEMMA CalibratorStep == CalibratorInv /\ [CalibratorNext]_calibrator => CalibratorInv'
<1> SUFFICES ASSUME CalibratorInv, [CalibratorNext]_calibrator  PROVE CalibratorInv'
  OBVIOUS
<1>1. CASE UNCHANGED calibrator
  BY <1>1 DEF CalibratorInv, ClocksAgree, Exact, Sample, calibrator
<1>2. CASE StartWall
  BY <1>2 DEF CalibratorInv, ClocksAgree, Exact, Sample, StartWall
<1>3. CASE Measure
  BY <1>3, MeasureKeeps
<1>4. CASE Calibrate
  BY <1>4 DEF CalibratorInv, ClocksAgree, Exact, Sample, Calibrate
<1>5. ASSUME NEW ticks \in Delays, StartTsc(ticks) \/ EndWall(ticks)  PROVE CalibratorInv'
  BY <1>5, ReadingKeeps
<1>6. ASSUME NEW ticks \in Sleeps, EndTsc(ticks)  PROVE CalibratorInv'
  BY <1>6, ReadingKeeps
<1> QED BY <1>1, <1>2, <1>3, <1>4, <1>5, <1>6 DEF CalibratorNext

(* With less than half of the samples interrupted the middle one is exact. *)
LEMMA MedianIsRobust == CalibratorInv => RateIsRobust
<1> SUFFICES ASSUME CalibratorInv, reading = "done"
             PROVE  cyclesPerNano <= 100 /\ (2 * Cardinality(delayed) < SAMPLES => cyclesPerNano = 100)
  BY DEF RateIsRobust
<1> DEFINE m == Median(measurements)
<1>1. /\ Len(measurements) = SAMPLES /\ cyclesPerNano = m /\ IsFiniteSet(delayed)
      /\ \A i \in 1 .. SAMPLES : /\ measurements[i] \in Nat /\ measurements[i] <= 100
                                 /\ i \notin delayed => measurements[i] = 100
  BY DEF CalibratorInv, Exact
<1>2. /\ m \in {measurements[i] : i \in 1 .. SAMPLES}
      /\ Cardinality(AtMost(measurements, m)) > SAMPLES \div 2
  BY <1>1, MedianIs
<1> HIDE DEF m
<1>3. m \in Nat /\ m <= 100
  BY <1>1, <1>2
<1>4. ASSUME m # 100  PROVE ~(2 * Cardinality(delayed) < SAMPLES)
  <2>1. AtMost(measurements, m) \subseteq delayed
    BY <1>1, <1>3, <1>4 DEF AtMost
  <2>2. /\ Cardinality(AtMost(measurements, m)) <= Cardinality(delayed)
        /\ Cardinality(AtMost(measurements, m)) \in Nat /\ Cardinality(delayed) \in Nat
    BY <1>1, <2>1, FS_Subset, FS_CardinalityType
  <2>3. SAMPLES \in Nat
    BY CalibratorAssumption
  <2> QED BY <1>2, <2>2, <2>3
<1> QED BY <1>1, <1>3, <1>4

(* "Use median for robustness": the rate is exact as long as the thread    *)
(* lost the processor in less than half of the samples, wherever in the    *)
(* sequence, and never too high (calibrate).                               *)
THEOREM CalibrationIsRobust == CalibratorSpec => []RateIsRobust
<1>1. CalibratorSpec => []CalibratorInv
  BY CalibratorStarts, CalibratorStep, PTL DEF CalibratorSpec
<1> QED BY <1>1, MedianIsRobust, PTL
=============================================================================
