------------------------------ MODULE SPSCQueue ------------------------------
(***************************************************************************)
(* The lock-free ring of include/core/SPSCQueue.hpp: one producer thread   *)
(* calls tryPush / tryEmplace (or the spinning push / emplace of           *)
(* SPSCQueueBlocking), one consumer thread calls tryPop / pop / front (or  *)
(* the spinning popWait).                                                  *)
(*                                                                         *)
(* Each shared access of the code is a step of its own.  A thread reads    *)
(* its own index exactly (it is the only writer), but the acquire load of  *)
(* the OTHER thread's index may return any value of that index's           *)
(* modification order that is not older than the last one this thread      *)
(* read: that is all C++ promises.  The views headSeen and tailSeen are    *)
(* those last values.  An acquire load that returns a value sees every     *)
(* slot access sequenced before the release store of that value, so a      *)
(* slot needs no view of its own as long as no slot is ever used by both   *)
(* threads, which NoSlotRace states.                                       *)
(***************************************************************************)
EXTENDS Naturals, Sequences

CONSTANTS
  Capacity,   (* Number of slots; the code asserts a power of two. *)
  Values,     (* The elements pushed. *)
  Raw,        (* A slot whose storage holds no live object. *)
  MaxPushes   (* Bounds the run: number of elements accepted. *)

ASSUME CapacityAssumption == Capacity \in Nat \ {0}
ASSUME RawAssumption == Raw \notin Values
ASSUME MaxPushesAssumption == MaxPushes \in Nat

VARIABLES
  tail, head,           (* The two atomic indices. *)
  slots,                (* The storage. *)
  ppc, pushing,         (* Producer: where it is in a call, and the argument. *)
  pushWaits,            (* Producer: the call is the spinning push or emplace. *)
  headSeen,             (* Producer: the last head it loaded. *)
  cpc, popping,         (* Consumer: where it is in a call, and the element moved out. *)
  popWaits,             (* Consumer: the call is the spinning popWait. *)
  tailSeen,             (* Consumer: the last tail it loaded. *)
  peeked,               (* Consumer: what its last front() points to, Raw if nothing. *)
  accepted, taken       (* History: every element pushed, every element popped. *)

producerVars == <<ppc, pushing, pushWaits, headSeen>>
consumerVars == <<cpc, popping, popWaits, tailSeen, peeked>>
vars == <<tail, head, slots, producerVars, consumerVars, accepted, taken>>

Index == 0 .. Capacity - 1

(* (i + 1) & INDEX_MASK, for a power of two. *)
NextIndex(i) == (i + 1) % Capacity

(* How far index j is ahead of index i around the ring. *)
Distance(i, j) == IF j >= i THEN j - i ELSE Capacity - i + j

(* The values an acquire load of index `now` may return to a thread that   *)
(* last read `seen`: no older than that one, no newer than the latest.     *)
Loadable(seen, now) == {i \in Index : Distance(seen, i) <= Distance(seen, now)}

Init ==
  /\ tail = 0
  /\ head = 0
  /\ slots = [i \in Index |-> Raw]
  /\ ppc = "idle" /\ pushing = Raw /\ pushWaits = FALSE /\ headSeen = 0
  /\ cpc = "idle" /\ popping = Raw /\ popWaits = FALSE /\ tailSeen = 0
  /\ peeked = Raw
  /\ accepted = <<>>
  /\ taken = <<>>

-----------------------------------------------------------------------------
(* The producer thread. *)

PushCall(v, waits) ==
  /\ ppc = "idle"
  /\ Len(accepted) < MaxPushes
  /\ ppc' = "check"
  /\ pushing' = v
  /\ pushWaits' = waits
  /\ UNCHANGED <<tail, head, slots, headSeen, consumerVars, accepted, taken>>

(* Mutant: a failed push spins whoever the caller is. *)
PushFullSpins ==
  /\ ppc = "check"
  /\ \E h \in Loadable(headSeen, head) : NextIndex(tail) = h /\ headSeen' = h
  /\ UNCHANGED <<tail, head, slots, ppc, pushing, pushWaits, consumerVars, accepted, taken>>

(* The load of head finds the queue full: tryPush returns false, push spins. *)
PushFull ==
  /\ ppc = "check"
  /\ \E h \in Loadable(headSeen, head) :
       /\ NextIndex(tail) = h
       /\ headSeen' = h
  /\ ppc' = IF pushWaits THEN "check" ELSE "idle"
  /\ UNCHANGED <<tail, head, slots, pushing, pushWaits, consumerVars, accepted, taken>>

(* Mutant: the fullness check is dropped. *)
PushRoomUnchecked ==
  /\ ppc = "check"
  /\ \E h \in Loadable(headSeen, head) : headSeen' = h
  /\ ppc' = "construct"
  /\ UNCHANGED <<tail, head, slots, pushing, pushWaits, consumerVars, accepted, taken>>

(* Mutant: the tail is published before the element is constructed. *)
PushRoomPublishesFirst ==
  /\ ppc = "check"
  /\ \E h \in Loadable(headSeen, head) : NextIndex(tail) # h /\ headSeen' = h
  /\ ppc' = "publish"
  /\ UNCHANGED <<tail, head, slots, pushing, pushWaits, consumerVars, accepted, taken>>

(* Mutant: the producer trusts the head it saw last instead of loading it. *)
PushRoomCached ==
  /\ ppc = "check"
  /\ NextIndex(tail) # headSeen
  /\ ppc' = "construct"
  /\ UNCHANGED <<tail, head, slots, pushing, pushWaits, headSeen, consumerVars, accepted, taken>>

PushRoom ==
  /\ ppc = "check"
  /\ \E h \in Loadable(headSeen, head) :
       /\ NextIndex(tail) # h
       /\ headSeen' = h
  /\ ppc' = "construct"
  /\ UNCHANGED <<tail, head, slots, pushing, pushWaits, consumerVars, accepted, taken>>

(* Placement new into the slot at the tail. *)
PushConstruct ==
  /\ ppc = "construct"
  /\ slots' = [slots EXCEPT ![tail] = pushing]
  /\ ppc' = "publish"
  /\ UNCHANGED <<tail, head, pushing, pushWaits, headSeen, consumerVars, accepted, taken>>

(* The release store of the tail. *)
PushPublish ==
  /\ ppc = "publish"
  /\ tail' = NextIndex(tail)
  /\ accepted' = Append(accepted, pushing)
  /\ ppc' = "idle"
  /\ UNCHANGED <<head, slots, pushing, pushWaits, headSeen, consumerVars, taken>>

-----------------------------------------------------------------------------
(* The consumer thread. *)

PopCall(waits) ==
  /\ cpc = "idle"
  /\ cpc' = "check"
  /\ popWaits' = waits
  /\ peeked' = Raw
  /\ UNCHANGED <<tail, head, slots, producerVars, popping, tailSeen, accepted, taken>>

(* The load of tail finds the queue empty: tryPop returns false, popWait spins. *)
PopEmpty ==
  /\ cpc = "check"
  /\ \E t \in Loadable(tailSeen, tail) :
       /\ head = t
       /\ tailSeen' = t
  /\ cpc' = IF popWaits THEN "check" ELSE "idle"
  /\ UNCHANGED <<tail, head, slots, producerVars, popping, popWaits, peeked, accepted, taken>>

(* Mutant: the emptiness check is dropped. *)
PopFoundUnchecked ==
  /\ cpc = "check"
  /\ \E t \in Loadable(tailSeen, tail) : tailSeen' = t
  /\ cpc' = "move"
  /\ UNCHANGED <<tail, head, slots, producerVars, popping, popWaits, peeked, accepted, taken>>

(* Mutant: the consumer trusts the tail it saw last instead of loading it. *)
PopFoundCached ==
  /\ cpc = "check"
  /\ head # tailSeen
  /\ cpc' = "move"
  /\ UNCHANGED <<tail, head, slots, producerVars, popping, popWaits, tailSeen, peeked, accepted, taken>>

PopFound ==
  /\ cpc = "check"
  /\ \E t \in Loadable(tailSeen, tail) :
       /\ head # t
       /\ tailSeen' = t
  /\ cpc' = "move"
  /\ UNCHANGED <<tail, head, slots, producerVars, popping, popWaits, peeked, accepted, taken>>

PopMove ==
  /\ cpc = "move"
  /\ popping' = slots[head]
  /\ cpc' = "destroy"
  /\ UNCHANGED <<tail, head, slots, producerVars, popWaits, tailSeen, peeked, accepted, taken>>

PopDestroy ==
  /\ cpc = "destroy"
  /\ slots' = [slots EXCEPT ![head] = Raw]
  /\ cpc' = "release"
  /\ UNCHANGED <<tail, head, producerVars, popping, popWaits, tailSeen, peeked, accepted, taken>>

(* The release store of the head. *)
PopRelease ==
  /\ cpc = "release"
  /\ head' = NextIndex(head)
  /\ taken' = Append(taken, popping)
  /\ cpc' = "idle"
  /\ UNCHANGED <<tail, slots, producerVars, popping, popWaits, tailSeen, peeked, accepted>>

(* Mutant: front reads the slot without the emptiness check. *)
FrontUnchecked ==
  /\ cpc = "idle"
  /\ \E t \in Loadable(tailSeen, tail) : tailSeen' = t
  /\ peeked' = slots[head]
  /\ UNCHANGED <<tail, head, slots, producerVars, cpc, popping, popWaits, accepted, taken>>

(* front(): a pointer into the slot at the head, kept until the next pop. *)
Front ==
  /\ cpc = "idle"
  /\ \E t \in Loadable(tailSeen, tail) :
       /\ tailSeen' = t
       /\ peeked' = IF head = t THEN Raw ELSE slots[head]
  /\ UNCHANGED <<tail, head, slots, producerVars, cpc, popping, popWaits, accepted, taken>>

-----------------------------------------------------------------------------
Producer ==
  \/ \E v \in Values, waits \in BOOLEAN : PushCall(v, waits)
  \/ PushFull
  \/ PushRoom
  \/ PushConstruct
  \/ PushPublish

Consumer ==
  \/ \E waits \in BOOLEAN : PopCall(waits)
  \/ PopEmpty
  \/ PopFound
  \/ PopMove
  \/ PopDestroy
  \/ PopRelease
  \/ Front

Next == Producer \/ Consumer

Spec == Init /\ [][Next]_vars

(* A thread inside a call keeps running.  The C++ progress guarantee makes *)
(* a store visible to other threads' loads in finite time, so among        *)
(* infinitely many loads that could find room, or an element, one does:    *)
(* strong fairness, because a failed try ends the call in between.         *)
ProducerFairness ==
  /\ WF_vars(PushFull \/ PushRoom)
  /\ SF_vars(PushRoom)
  /\ WF_vars(PushConstruct)
  /\ WF_vars(PushPublish)

ConsumerFairness ==
  /\ WF_vars(PopEmpty \/ PopFound)
  /\ SF_vars(PopFound)
  /\ WF_vars(PopMove)
  /\ WF_vars(PopDestroy)
  /\ WF_vars(PopRelease)

(* The consumer is a polling loop, as Logger's writer thread is. *)
ConsumerPolls == WF_vars(\E waits \in BOOLEAN : PopCall(waits))

Fairness == ProducerFairness /\ ConsumerFairness /\ ConsumerPolls

-----------------------------------------------------------------------------
(* Properties *)

TypeOK ==
  /\ tail \in Index /\ head \in Index
  /\ slots \in [Index -> Values \cup {Raw}]
  /\ ppc \in {"idle", "check", "construct", "publish"}
  /\ pushing \in Values \cup {Raw} /\ pushWaits \in BOOLEAN /\ headSeen \in Index
  /\ cpc \in {"idle", "check", "move", "destroy", "release"}
  /\ popping \in Values \cup {Raw} /\ popWaits \in BOOLEAN /\ tailSeen \in Index
  /\ peeked \in Values \cup {Raw}
  /\ accepted \in Seq(Values) /\ taken \in Seq(Values)

(* No slot is used by both threads at once, whatever stale index either    *)
(* one loaded: the producer constructs only into storage whose previous    *)
(* object is destroyed (tryPush line 105), the consumer moves out of and   *)
(* destroys only a constructed object (tryPop lines 150-156).              *)
NoSlotRace ==
  /\ ppc = "construct" => slots[tail] = Raw
  /\ cpc \in {"move", "destroy"} => slots[head] \in Values
  /\ ppc \in {"construct", "publish"} /\ cpc \in {"move", "destroy", "release"} => tail # head

(* Elements come out in the order they went in: none lost, none duplicated,*)
(* none torn or out of thin air, across every wrap of the ring (tryPush    *)
(* and tryPop together).                                                   *)
DeliversInOrder ==
  /\ Len(taken) <= Len(accepted)
  /\ \A k \in 1 .. Len(taken) : taken[k] = accepted[k]

(* The wrapped indices never alias full and empty: their distance, which   *)
(* is sizeApprox's arithmetic, is the number of elements accepted and not  *)
(* yet released (at most Capacity - 1, capacity()).                        *)
IndicesCountElements == Distance(head, tail) = Len(accepted) - Len(taken)

(* The pointer front() returned stays good until the consumer's next pop:  *)
(* its slot still holds the element the next pop will return, although     *)
(* the producer keeps pushing meanwhile (lines 184-192).                   *)
FrontStaysOldest ==
  peeked # Raw =>
    /\ Len(taken) < Len(accepted)
    /\ slots[head] = peeked
    /\ peeked = accepted[Len(taken) + 1]

(* The inductive invariant behind the properties above: the views are      *)
(* behind the indices in ring order, the slots from head to tail hold the  *)
(* elements not yet popped, in order, and every other slot is raw storage  *)
(* except the one the producer is filling.                                 *)
ViewsBehind ==
  /\ Distance(headSeen, head) + Distance(head, tail) = Distance(headSeen, tail)
  /\ Distance(head, tailSeen) + Distance(tailSeen, tail) = Distance(head, tail)

Stored ==
  \A i \in Index : Distance(head, i) < Distance(head, tail) =>
    slots[i] = IF cpc = "release" /\ i = head THEN Raw
               ELSE accepted[Len(taken) + 1 + Distance(head, i)]

Unused ==
  \A i \in Index : Distance(head, i) >= Distance(head, tail) =>
    slots[i] = IF ppc = "publish" /\ i = tail THEN pushing ELSE Raw

InCall ==
  /\ ppc \in {"check", "construct", "publish"} => pushing \in Values
  /\ ppc \in {"construct", "publish"} => NextIndex(tail) # headSeen
  /\ cpc \in {"move", "destroy", "release"} => head # tailSeen
  /\ cpc \in {"destroy", "release"} => popping = accepted[Len(taken) + 1]
  /\ peeked # Raw => cpc = "idle" /\ head # tailSeen /\ peeked = slots[head]

RingInvariant ==
  /\ DeliversInOrder
  /\ IndicesCountElements
  /\ ViewsBehind
  /\ Stored
  /\ Unused
  /\ InCall

(* The ring implements the atomic bounded FIFO: a push takes effect at the *)
(* release store of the tail, a pop when the element is moved out.         *)
MovedOut == cpc \in {"destroy", "release"}
Offset(i, k) == IF i + k >= Capacity THEN i + k - Capacity ELSE i + k
First == IF MovedOut THEN 1 ELSE 0
Contents == [k \in 1 .. Distance(head, tail) - First |-> slots[Offset(head, k - 1 + First)]]
Returned == IF MovedOut THEN Append(taken, popping) ELSE taken

FIFO == INSTANCE BoundedFIFO WITH Bound <- Capacity - 1, queue <- Contents, taken <- Returned
ImplementsFIFO == FIFO!Spec

(* tryPush and tryPop are wait-free: a call of one thread returns if that  *)
(* thread alone keeps running (README: wait-free guarantees).              *)
TriesAreWaitFree ==
  /\ ProducerFairness => (ppc # "idle" /\ ~pushWaits ~> ppc = "idle")
  /\ ConsumerFairness => (cpc # "idle" /\ ~popWaits ~> cpc = "idle")

(* As long as the consumer polls, a spinning push returns (push, emplace)  *)
(* and every accepted element is handed over (popWait), though each load   *)
(* may return a stale index: with no more than MaxPushes of them, the ring *)
(* is emptied again and again.                                             *)
WaitingEnds ==
  Fairness =>
    /\ ppc # "idle" ~> ppc = "idle"
    /\ []<>(taken = accepted)
=============================================================================
