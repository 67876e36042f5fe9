------------------------------ MODULE SlotPool ------------------------------
(***************************************************************************)
(* What ObjectPool promises: a stack of free slots from which each call    *)
(* takes, or to which it returns, one slot at once.  answer is what a call *)
(* of allocate has been given and has not yet returned.                    *)
(***************************************************************************)
EXTENDS Naturals, Sequences

CONSTANTS Capacity, Threads, Nil, NoAnswer

VARIABLES
  free,    (* The free slots, the one to be handed out next first. *)
  out,     (* The slots the callers hold. *)
  answer   (* [Threads -> slot, Nil or NoAnswer] *)

poolVars == <<free, out, answer>>

Init ==
  /\ free = [i \in 1 .. Capacity |-> i]
  /\ out = {}
  /\ answer = [t \in Threads |-> NoAnswer]

Grant(t) ==
  /\ answer[t] = NoAnswer
  /\ free # <<>>
  /\ answer' = [answer EXCEPT ![t] = Head(free)]
  /\ free' = Tail(free)
  /\ UNCHANGED out

(* Only a pool that is exhausted refuses. *)
Refuse(t) ==
  /\ answer[t] = NoAnswer
  /\ free = <<>>
  /\ answer' = [answer EXCEPT ![t] = Nil]
  /\ UNCHANGED <<free, out>>

Answer(t) ==
  /\ answer[t] # NoAnswer
  /\ out' = IF answer[t] = Nil THEN out ELSE out \cup {answer[t]}
  /\ answer' = [answer EXCEPT ![t] = NoAnswer]
  /\ UNCHANGED free

Deallocate(slot) ==
  /\ slot \in out
  /\ out' = out \ {slot}
  /\ free' = <<slot>> \o free
  /\ UNCHANGED answer

Next ==
  \/ \E t \in Threads : Grant(t) \/ Refuse(t) \/ Answer(t)
  \/ \E slot \in out : Deallocate(slot)

Spec == Init /\ [][Next]_poolVars
=============================================================================
