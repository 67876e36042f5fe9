---------------------------- MODULE MCStructures ----------------------------
(***************************************************************************)
(* The structures of the repository that stand alone: the rate limiter,    *)
(* the index of the book, the object pool, the arena, the histogram and    *)
(* the calibrator.  They share no state, so they are not interleaved: each *)
(* behaviour runs one of them and leaves the others as they were made.     *)
(* The histogram runs with a few calls of several threads that race, or    *)
(* with more samples of one thread.                                        *)
(***************************************************************************)
EXTENDS RateLimiterMachine, OrderIndexMachine, ObjectPool, LinearArena, LatencyHistogram, TscCalibrator

CONSTANTS MaxTime, MaxRacing  (* Bounds: the clock; the calls that race. *)

VARIABLE running

structures == <<running, vars, indexVars, pool, arena, histogram, calibrator>>

(* Latencies in the first and the second bucket, in the last and beyond it, *)
(* and one that is ignored.                                                *)
SomeLatencies == {0 - 1, 1, 4, 9}

Clock == now <= MaxTime

(* The hash functions up to renaming of the ids, and the slots up to       *)
(* renaming: each order has the slot of its own number.                    *)
HomesInOrder == \A id, other \in OrderIds : id < other => home[id] <= home[other]

AllInit ==
  /\ running \in {"limiter", "index", "pool", "arena", "racing", "samples", "calibrator"}
  /\ Init /\ IndexInit /\ PoolInit /\ ArenaInit /\ HistogramInit /\ CalibratorInit
  /\ IF running = "index" THEN HomesInOrder ELSE home = [id \in OrderIds |-> 0]

RunLimiter ==
  /\ running = "limiter" /\ Next
  /\ UNCHANGED <<running, indexVars, pool, arena, histogram, calibrator>>
RunIndex ==
  /\ running = "index" /\ IndexNext
  /\ \A id \in OrderIds : slotOf'[id] \in {id, NoSlot}
  /\ UNCHANGED <<running, vars, pool, arena, histogram, calibrator>>
RunPool ==
  /\ running = "pool" /\ PoolNext
  /\ UNCHANGED <<running, vars, indexVars, arena, histogram, calibrator>>
RunArena ==
  /\ running = "arena" /\ ArenaNext
  /\ UNCHANGED <<running, vars, indexVars, pool, histogram, calibrator>>
RunHistogram ==
  /\ HistogramNext
  /\ \/ running = "racing" /\ calls' <= MaxRacing
     \/ running = "samples" /\ ~Resetting' /\ Recording' \subseteq {CHOOSE t \in Recorders : TRUE}
  /\ UNCHANGED <<running, vars, indexVars, pool, arena, calibrator>>
RunCalibrator ==
  /\ running = "calibrator" /\ CalibratorNext
  /\ UNCHANGED <<running, vars, indexVars, pool, arena, histogram>>

AllSpec ==
  /\ AllInit
  /\ [][RunLimiter \/ RunIndex \/ RunPool \/ RunArena \/ RunHistogram \/ RunCalibrator]_structures
  /\ PoolFairness
=============================================================================
