-------------------------- MODULE SPSCQueueObserver --------------------------
(***************************************************************************)
(* empty() and sizeApprox() of the ring, which load the two indices one    *)
(* after the other while the other thread runs.  The callers are the       *)
(* producer and the consumer, who each have an exact value of one of the   *)
(* two.  A third thread has neither: between its loads the ring may turn   *)
(* any number of times, and the difference means nothing.  full(), which   *)
(* loads the tail first and which only tests call, is not modelled.        *)
(***************************************************************************)
EXTENDS SPSCQueue

VARIABLES
  opc,         (* Where each thread is in such a call. *)
  headLoaded,  (* The head it loaded first. *)
  size         (* What sizeApprox() returned to it; empty() is size = 0. *)

callVars == <<opc, headLoaded, size>>
ovars == <<vars, callVars>>

Callers == {"producer", "consumer"}

(* Mutant: the wrapped case subtracts the mask instead of the capacity. *)
SizeOfMasked(h, t) == IF t >= h THEN t - h ELSE Capacity - 1 - h + t

SizeOf(h, t) == IF t >= h THEN t - h ELSE Capacity - h + t

InitObserver ==
  /\ Init
  /\ opc = [c \in Callers |-> "idle"]
  /\ headLoaded = [c \in Callers |-> 0]
  /\ size = [c \in Callers |-> 0]

(* Thread c enters the call, or enters it again. *)
ObserveCall(c) ==
  /\ opc[c] \in {"idle", "returned"}
  /\ opc' = [opc EXCEPT ![c] = "loadHead"]
  /\ UNCHANGED <<headLoaded, size>>

ObserveHead(c) ==
  /\ opc[c] = "loadHead"
  /\ \E h \in IF c = "producer" THEN Loadable(headSeen, head) ELSE {head} :
       /\ headLoaded' = [headLoaded EXCEPT ![c] = h]
       /\ headSeen' = IF c = "producer" THEN h ELSE headSeen
  /\ opc' = [opc EXCEPT ![c] = "loadTail"]
  /\ UNCHANGED <<tail, head, slots, ppc, pushing, pushWaits, consumerVars,
                 accepted, taken, size>>

ObserveTail(c) ==
  /\ opc[c] = "loadTail"
  /\ \E t \in IF c = "consumer" THEN Loadable(tailSeen, tail) ELSE {tail} :
       /\ size' = [size EXCEPT ![c] = SizeOf(headLoaded[c], t)]
       /\ tailSeen' = IF c = "consumer" THEN t ELSE tailSeen
  /\ opc' = [opc EXCEPT ![c] = "returned"]
  /\ UNCHANGED <<tail, head, slots, producerVars, cpc, popping, popWaits, peeked,
                 accepted, taken, headLoaded>>

(* The value size[c] goes back to the caller. *)
ObserveReturn(c) ==
  /\ opc[c] = "returned"
  /\ opc' = [opc EXCEPT ![c] = "idle"]
  /\ UNCHANGED <<headLoaded, size>>

-----------------------------------------------------------------------------
(* Properties *)

(* To the producer the size errs high only: when its empty() says the ring *)
(* is empty, every element it pushed has been popped (AsyncLogger::flush   *)
(* waits for that), and a sizeApprox() below capacity() means its next     *)
(* push succeeds.                                                          *)
ProducerNeverUnderestimates ==
  opc["producer"] = "returned" => size["producer"] >= Len(accepted) - Len(taken)
=============================================================================
