----------------------------- MODULE BoundedFIFO -----------------------------
(***************************************************************************)
(* What SPSCQueue promises its two threads: a FIFO queue of bounded size.  *)
(* A push appends an element if fewer than Bound are stored, a pop takes   *)
(* the oldest one.  There are no indices, slots or views here: each        *)
(* operation is one atomic step.                                           *)
(***************************************************************************)
EXTENDS Naturals, Sequences

CONSTANTS
  Values,   (* The elements a queue can hold. *)
  Bound     (* The most elements stored at once: SPSCQueue's capacity(). *)

VARIABLES
  queue,    (* The elements stored, oldest first. *)
  taken     (* Everything popped so far, in order. *)

vars == <<queue, taken>>

Init ==
  /\ queue = <<>>
  /\ taken = <<>>

Push(v) ==
  /\ Len(queue) < Bound
  /\ queue' = Append(queue, v)
  /\ UNCHANGED taken

Pop ==
  /\ queue # <<>>
  /\ taken' = Append(taken, Head(queue))
  /\ queue' = Tail(queue)

Next ==
  \/ \E v \in Values : Push(v)
  \/ Pop

Spec == Init /\ [][Next]_vars
=============================================================================
