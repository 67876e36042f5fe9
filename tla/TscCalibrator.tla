---------------------------- MODULE TscCalibrator ----------------------------
(***************************************************************************)
(* TscCalibrator::calibrate (include/core/Timestamp.hpp): how many cycles  *)
(* the time stamp counter makes in a nanosecond, from five sleeps measured *)
(* with both clocks.  The thread may lose the processor between any two    *)
(* readings.  The true rate is one; measurements are in percent of it.     *)
(***************************************************************************)
EXTENDS Naturals, Sequences, FiniteSets

CONSTANTS
  SAMPLES,
  Sleeps,  (* How long a sleep of SLEEP_DURATION may take. *)
  Delays   (* How long the thread may be kept between two readings. *)

ASSUME CalibratorAssumption ==
  SAMPLES \in Nat \ {0} /\ Sleeps \subseteq Nat \ {0} /\ Delays \subseteq Nat

VARIABLES
  reading,        (* Which of the four readings of a sample comes next. *)
  tscTicks, wallTicks,  (* What each clock has counted since its start reading. *)
  measurements,   (* The samples taken. *)
  cyclesPerNano,  (* m_cyclesPerNano, 0 until calibrate is done *)
  delayed         (* History: the samples the thread was kept in. *)

calibrator == <<reading, tscTicks, wallTicks, measurements, cyclesPerNano, delayed>>

CalibratorInit ==
  /\ reading = "start_wall"
  /\ tscTicks = 0 /\ wallTicks = 0
  /\ measurements = <<>>
  /\ cyclesPerNano = 0
  /\ delayed = {}

(* Time passes until the next reading. *)
Pass(label, from, ticks, tsc) ==
  /\ reading = from
  /\ reading' = label
  /\ wallTicks' = wallTicks + ticks
  /\ tscTicks' = tscTicks + tsc
  /\ UNCHANGED <<measurements, cyclesPerNano>>

Interrupted(ticks) ==
  delayed' = IF ticks > 0 THEN delayed \cup {Len(measurements) + 1} ELSE delayed

StartTsc(ticks) == Pass("end_tsc", "start_tsc", ticks, 0) /\ Interrupted(ticks)
EndTsc(ticks) == Pass("end_wall", "end_tsc", ticks, ticks) /\ UNCHANGED delayed
EndWall(ticks) == Pass("measure", "end_wall", ticks, 0) /\ Interrupted(ticks)

StartWall ==
  /\ reading = "start_wall"
  /\ Len(measurements) < SAMPLES
  /\ reading' = "start_tsc"
  /\ tscTicks' = 0 /\ wallTicks' = 0
  /\ UNCHANGED <<measurements, cyclesPerNano, delayed>>

(* A sample in which the clock did not move stays 0. *)
Measure ==
  /\ reading = "measure"
  /\ reading' = "start_wall"
  /\ measurements' = Append(measurements, IF wallTicks > 0 THEN (100 * tscTicks) \div wallTicks ELSE 0)
  /\ UNCHANGED <<tscTicks, wallTicks, cyclesPerNano, delayed>>

(* Mutant: the samples are not sorted. *)
MiddleSample(samples) == samples[SAMPLES \div 2 + 1]

(* The sample in the middle of the sorted ones: half of them are not       *)
(* above it, and it is the least so.                                       *)
AtMost(samples, v) == {i \in 1 .. SAMPLES : samples[i] <= v}
Median(samples) ==
  CHOOSE v \in {samples[i] : i \in 1 .. SAMPLES} :
    /\ Cardinality(AtMost(samples, v)) > SAMPLES \div 2
    /\ \A i \in 1 .. SAMPLES :
         samples[i] < v => Cardinality(AtMost(samples, samples[i])) <= SAMPLES \div 2

Calibrate ==
  /\ reading = "start_wall"
  /\ Len(measurements) = SAMPLES
  /\ cyclesPerNano' = Median(measurements)
  /\ reading' = "done"
  /\ UNCHANGED <<tscTicks, wallTicks, measurements, delayed>>

CalibratorNext ==
  \/ StartWall \/ Measure \/ Calibrate
  \/ \E ticks \in Delays : StartTsc(ticks) \/ EndWall(ticks)
  \/ \E ticks \in Sleeps : EndTsc(ticks)

CalibratorSpec == CalibratorInit /\ [][CalibratorNext]_calibrator

-----------------------------------------------------------------------------
(* Properties *)

(* "Use median for robustness": the thread may be kept in the middle of    *)
(* up to half of the samples, wherever in the sequence, and the rate is    *)
(* exact; beyond that it is never too high, as the wall clock is read      *)
(* outside of the counter.                                                 *)
RateIsRobust ==
  reading = "done" =>
    /\ cyclesPerNano <= 100
    /\ 2 * Cardinality(delayed) < SAMPLES => cyclesPerNano = 100
=============================================================================
