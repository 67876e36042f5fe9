-------------------------- MODULE LatencyHistogram --------------------------
(***************************************************************************)
(* LatencyHistogram (include/core/Timestamp.hpp): counters that any number *)
(* of threads record into, one atomic access at a time and all relaxed;    *)
(* percentiles read from them; a reset that stores them one by one.  A     *)
(* call that returned before a reset began, or began after it returned, is *)
(* taken to be ordered with it by the caller (a join, a lock).             *)
(***************************************************************************)
EXTENDS Integers, FiniteSets, FiniteSetsExt, Functions

CONSTANTS
  Recorders,        (* The threads that record. *)
  Latencies,        (* What they record. *)
  MaxLatencyNanos, BucketCount,
  Infinity,         (* numeric_limits<int64_t>::max() *)
  Permilles,        (* The percentiles asked for, out of 1000. *)
  MaxCalls          (* Bound: calls of record and of reset. *)

NanosPerBucket == MaxLatencyNanos \div BucketCount
BucketIds == 0 .. BucketCount - 1

ASSUME HistogramAssumption ==
  /\ BucketCount \in Nat \ {0} /\ MaxLatencyNanos \in Nat /\ NanosPerBucket > 0
  /\ IsFiniteSet(Recorders) /\ IsFiniteSet(Latencies)
  /\ Latencies \subseteq Int /\ Infinity \in Nat /\ \A l \in Latencies : l < Infinity
  /\ Permilles \subseteq 0 .. 1000 /\ MaxCalls \in Nat

VARIABLES
  buckets, count, sum, least, greatest,  (* m_buckets, m_count, m_sum, m_min, m_max *)
  at,          (* Where each thread is in record. *)
  latency,     (* What it records. *)
  seen,        (* Its currentMin, then its currentMax. *)
  resetStep,   (* The stores reset has made; ResetSteps when none is running. *)
  calls,       (* How many calls of record and reset were made. *)
  samples,     (* History: how often each latency was recorded since the last reset. *)
  overlapped   (* History: whether a record and a reset ran at the same time since the last
                  reset that had the histogram to itself. *)

counters == <<buckets, count, sum, least, greatest>>
histogram == <<counters, at, latency, seen, resetStep, calls, samples, overlapped>>

ResetSteps == BucketCount + 4
Resetting == resetStep < ResetSteps
Recording == {t \in Recorders : at[t] # "idle"}

HistogramInit ==
  /\ buckets = [i \in BucketIds |-> 0]
  /\ count = 0 /\ sum = 0 /\ least = Infinity /\ greatest = 0
  /\ at = [t \in Recorders |-> "idle"]
  /\ latency = [t \in Recorders |-> 0]
  /\ seen = [t \in Recorders |-> 0]
  /\ resetStep = ResetSteps
  /\ calls = 0
  /\ samples = [l \in Latencies |-> 0]
  /\ overlapped = FALSE

(* The last bucket takes everything above. *)
BucketOf(l) == Min({l \div NanosPerBucket, BucketCount - 1})

-----------------------------------------------------------------------------
(* record *)

(* A negative latency is ignored.  The bucket is the first to be counted. *)
RecordBucket(t, l) ==
  /\ at[t] = "idle"
  /\ calls < MaxCalls
  /\ l >= 0
  /\ buckets' = [buckets EXCEPT ![BucketOf(l)] = @ + 1]
  /\ at' = [at EXCEPT ![t] = "count"]
  /\ latency' = [latency EXCEPT ![t] = l]
  /\ calls' = calls + 1
  /\ samples' = [samples EXCEPT ![l] = @ + 1]
  /\ overlapped' = (overlapped \/ Resetting)
  /\ UNCHANGED <<count, sum, least, greatest, seen, resetStep>>

Goes(t, label) ==
  /\ at' = [at EXCEPT ![t] = label]
  /\ seen' = [seen EXCEPT ![t] = 0]
  /\ UNCHANGED <<latency, resetStep, calls, samples, overlapped>>

(* The call returns; its locals are gone. *)
Done(t) ==
  /\ at' = [at EXCEPT ![t] = "idle"]
  /\ latency' = [latency EXCEPT ![t] = 0]
  /\ seen' = [seen EXCEPT ![t] = 0]
  /\ UNCHANGED <<resetStep, calls, samples, overlapped>>

RecordCount(t) ==
  /\ at[t] = "count"
  /\ count' = count + 1
  /\ Goes(t, "sum")
  /\ UNCHANGED <<buckets, sum, least, greatest>>

RecordSum(t) ==
  /\ at[t] = "sum"
  /\ sum' = sum + latency[t]
  /\ Goes(t, "loadMin")
  /\ UNCHANGED <<buckets, count, least, greatest>>

(* The loops: while the latency is beyond the extreme it has seen, try to  *)
(* put it in its place.                                                    *)
Sees(t, label, current) ==
  /\ at' = [at EXCEPT ![t] = label]
  /\ seen' = [seen EXCEPT ![t] = current]
  /\ UNCHANGED <<counters, latency, resetStep, calls, samples, overlapped>>

LowerMin(t, current) ==
  \/ latency[t] < current /\ Sees(t, "swapMin", current)
  \/ latency[t] >= current /\ Sees(t, "loadMax", 0)

RaiseMax(t, current) ==
  \/ latency[t] > current /\ Sees(t, "swapMax", current)
  \/ latency[t] <= current /\ Done(t) /\ UNCHANGED counters

(* A relaxed load may return an older minimum, that is a larger one. *)
LoadMin(t) ==
  /\ at[t] = "loadMin"
  /\ \E old \in {v \in Latencies \cup {Infinity} : v >= least} : LowerMin(t, old)

(* Mutant: the minimum is stored, not exchanged. *)
SwapMinStores(t) ==
  /\ at[t] = "swapMin"
  /\ least' = latency[t]
  /\ Goes(t, "loadMax")
  /\ UNCHANGED <<buckets, count, sum, greatest>>

SwapMin(t) ==
  /\ at[t] = "swapMin"
  /\ least = seen[t]
  /\ least' = latency[t]
  /\ Goes(t, "loadMax")
  /\ UNCHANGED <<buckets, count, sum, greatest>>

RetryMin(t) == at[t] = "swapMin" /\ LowerMin(t, least)

LoadMax(t) ==
  /\ at[t] = "loadMax"
  /\ \E old \in {v \in Latencies \cup {0} : 0 <= v /\ v <= greatest} : RaiseMax(t, old)

SwapMax(t) ==
  /\ at[t] = "swapMax"
  /\ greatest = seen[t]
  /\ greatest' = latency[t]
  /\ Done(t)
  /\ UNCHANGED <<buckets, count, sum, least>>

RetryMax(t) == at[t] = "swapMax" /\ RaiseMax(t, greatest)

-----------------------------------------------------------------------------
(* reset *)

ResetCall ==
  /\ ~Resetting
  /\ calls < MaxCalls
  /\ calls' = calls + 1
  /\ resetStep' = 0
  /\ samples' = [l \in Latencies |-> 0]
  /\ overlapped' = (Recording # {})
  /\ UNCHANGED <<counters, at, latency, seen>>

(* The buckets, the count, the sum, the minimum and the maximum, in order. *)
ResetStore ==
  LET Store(k, old, new) == IF resetStep = k THEN new ELSE old
  IN  /\ Resetting
      /\ buckets' = [i \in BucketIds |-> Store(i, buckets[i], 0)]
      /\ count' = Store(BucketCount, count, 0)
      /\ sum' = Store(BucketCount + 1, sum, 0)
      /\ least' = Store(BucketCount + 2, least, Infinity)
      /\ greatest' = Store(BucketCount + 3, greatest, 0)
      /\ resetStep' = resetStep + 1
      /\ UNCHANGED <<at, latency, seen, calls, samples, overlapped>>

-----------------------------------------------------------------------------
RecordStep(t) ==
  \/ RecordCount(t) \/ RecordSum(t)
  \/ LoadMin(t) \/ SwapMin(t) \/ RetryMin(t)
  \/ LoadMax(t) \/ SwapMax(t) \/ RetryMax(t)

HistogramNext ==
  \/ \E t \in Recorders : \/ \E l \in Latencies : RecordBucket(t, l)
                          \/ RecordStep(t)
  \/ ResetCall
  \/ ResetStore

HistogramSpec == HistogramInit /\ [][HistogramNext]_histogram

-----------------------------------------------------------------------------
(* Queries, made while nothing is recorded or reset *)

Cumulative(i) == SumFunctionOnSet(buckets, 0 .. i)

(* static_cast<uint64_t>(count * percentile): the product is a double.  A   *)
(* percentile that is no multiple of 1/8 is not the double given for it,   *)
(* so a product that should be whole may fall just short of that (100 *    *)
(* 0.29 gives 28) and is truncated to one less.                            *)
Targets(p) ==
  {(count * p) \div 1000}
    \cup {t \in {(count * p) \div 1000 - 1} : count * p > 0 /\ (count * p) % 1000 = 0 /\ p % 125 # 0}

(* Mutant: the lower bound of the bucket. *)
PercentileFromBelow(target) ==
  LET reached == {i \in BucketIds : Cumulative(i) >= target}
  IN  IF count = 0 THEN 0
      ELSE IF reached = {} THEN MaxLatencyNanos
      ELSE Min({Min(reached) * NanosPerBucket, greatest})

Percentile(target) ==
  LET reached == {i \in BucketIds : Cumulative(i) >= target}
  IN  IF count = 0 THEN 0
      ELSE IF reached = {} THEN MaxLatencyNanos
      ELSE Min({(Min(reached) + 1) * NanosPerBucket, greatest})

-----------------------------------------------------------------------------
(* Properties *)

HistogramTypeOK ==
  /\ buckets \in [BucketIds -> Nat] /\ count \in Nat /\ sum \in Nat
  /\ least \in Latencies \cup {Infinity} /\ greatest \in Latencies \cup {0}
  /\ at \in [Recorders -> {"idle", "count", "sum", "loadMin", "swapMin", "loadMax", "swapMax"}]
  /\ latency \in [Recorders -> Latencies \cup {0}]
  /\ seen \in [Recorders -> Latencies \cup {0, Infinity}]
  /\ resetStep \in 0 .. ResetSteps
  /\ samples \in [Latencies -> Nat]

Recorded == {l \in Latencies : samples[l] > 0}
Number(S) == SumFunctionOnSet(samples, S)

AtRest == Recording = {} /\ ~Resetting /\ ~overlapped

(* Once the calls have returned every counter says exactly what was        *)
(* recorded: no minimum or maximum is lost to another thread's (record).   *)
(* Only a reset that runs into a record may leave the counters at odds,    *)
(* and the next one that has the histogram to itself puts them right.      *)
ExactAtRest ==
  AtRest =>
    /\ HistogramTypeOK
    /\ \A i \in BucketIds : buckets[i] = Number({l \in Latencies : l >= 0 /\ BucketOf(l) = i})
    /\ count = Number(Latencies)
    /\ sum = SumFunctionOnSet([l \in Latencies |-> l * samples[l]], Latencies)
    /\ least = Min(Recorded \cup {Infinity})
    /\ greatest = Max(Recorded \cup {0})

(* A percentile is what its name says, up to the width of a bucket and the *)
(* truncation of the rank (test_latency.cpp): that share of all samples,   *)
(* but for at most one, is no greater, unless it is the end of the range;  *)
(* and the samples more than a bucket below it are none, or a lesser       *)
(* share.  It is never above the maximum.                                  *)
PercentileIsRanked ==
  AtRest =>
    \A p \in Permilles : \A target \in Targets(p) :
      LET v == Percentile(target)
          below == Number({l \in Latencies : l < v - NanosPerBucket})
      IN  /\ v <= greatest
          /\ \/ v = BucketCount * NanosPerBucket
             \/ 1000 * (Number({l \in Latencies : l <= v}) + 1) >= count * p
          /\ below = 0 \/ 1000 * below < count * p
=============================================================================
