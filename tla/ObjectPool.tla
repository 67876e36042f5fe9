----------------------------- MODULE ObjectPool -----------------------------
(***************************************************************************)
(* ObjectPool (include/core/MemoryArena.hpp): a lock-free stack of free    *)
(* slots, linked through the slots themselves.  allocate pops the head by  *)
(* compare-and-swap, deallocate pushes; any thread may call either, on any *)
(* object.  One action per access to what the threads share.               *)
(*                                                                         *)
(* A slot is a union of the object and the link: an object's bytes read as *)
(* a link are Object, a pointer to nowhere.                                *)
(*                                                                         *)
(* Loads return the latest value.  An acquire load that returns an older   *)
(* one cannot be told from the same load made earlier, which is a          *)
(* behaviour of this model; the exchanges act on the latest value anyway.  *)
(***************************************************************************)
EXTENDS Naturals, Sequences, FiniteSets

CONSTANTS
  PoolCapacity,   (* Capacity *)
  Allocators,     (* The threads that call allocate. *)
  Deallocators,   (* The threads that call deallocate. *)
  MayThrow,       (* Whether the constructor of T may throw. *)
  Nil, Object, NoAnswer

Slots == 1 .. PoolCapacity
Threads == Allocators \cup Deallocators

ASSUME PoolAssumption ==
  /\ PoolCapacity \in Nat \ {0}
  /\ MayThrow \in BOOLEAN
  /\ Nil \notin Slots /\ Object \notin Slots /\ NoAnswer \notin Slots
  /\ Nil # Object /\ Nil # NoAnswer

VARIABLES
  freeList,   (* m_freeList: a slot, or Nil. *)
  next,       (* next of each slot; Object while it is the object's storage. *)
  allocated,  (* m_allocatedCount *)
  pc,         (* Where each thread is in its call. *)
  oldHead,    (* The local oldHead of each thread. *)
  newHead,    (* The local newHead of popFreeSlot. *)
  slot,       (* The slot a call of deallocate returns to the list. *)
  live,       (* The slots of the objects handed out. *)
  lost,       (* The slots of objects whose constructor threw. *)
  free        (* History: the list of free slots as the exchanges have made it. *)

locals == <<oldHead, newHead, slot>>
pool == <<freeList, next, allocated, pc, locals, live, lost, free>>

Goto(t, label) == pc' = [pc EXCEPT ![t] = label]

(* The call returns; its locals are gone. *)
Return(t) ==
  /\ Goto(t, "idle")
  /\ oldHead' = [oldHead EXCEPT ![t] = Nil]
  /\ newHead' = [newHead EXCEPT ![t] = Nil]
  /\ slot' = [slot EXCEPT ![t] = Nil]

PoolInit ==
  /\ freeList = 1
  /\ next = [s \in Slots |-> IF s < PoolCapacity THEN s + 1 ELSE Nil]
  /\ allocated = 0
  /\ pc = [t \in Threads |-> "idle"]
  /\ oldHead = [t \in Threads |-> Nil]
  /\ newHead = [t \in Threads |-> Nil]
  /\ slot = [t \in Threads |-> Nil]
  /\ live = {}
  /\ lost = {}
  /\ free = [i \in Slots |-> i]

(* Both compare-and-swap loops start over from the head they load. *)
Reload(t, label) ==
  /\ oldHead' = [oldHead EXCEPT ![t] = freeList]
  /\ Goto(t, label)

-----------------------------------------------------------------------------
(* allocate *)

(* With no free slot in sight the call returns nullptr. *)
PopLabel == IF freeList = Nil THEN "refused" ELSE "readNext"

AllocateCall(t) ==
  /\ t \in Allocators
  /\ pc[t] = "idle"
  /\ Reload(t, PopLabel)
  /\ UNCHANGED <<freeList, next, allocated, newHead, slot, live, lost, free>>

(* Through a pointer to nowhere there is no next step, the program is gone. *)
PopReadNext(t) ==
  /\ pc[t] = "readNext"
  /\ oldHead[t] \in Slots
  /\ newHead' = [newHead EXCEPT ![t] = next[oldHead[t]]]
  /\ Goto(t, "swapHead")
  /\ UNCHANGED <<freeList, next, allocated, oldHead, slot, live, lost, free>>

PopSwap(t) ==
  /\ pc[t] = "swapHead"
  /\ freeList = oldHead[t]
  /\ freeList' = newHead[t]
  /\ free' = SubSeq(free, 2, Len(free))
  /\ Goto(t, "popped")
  /\ UNCHANGED <<next, allocated, locals, live, lost>>

(* Mutant: the failed exchange does not bring the head it found. *)
PopRetryUnchanged(t) ==
  /\ pc[t] = "swapHead"
  /\ Goto(t, "readNext")
  /\ UNCHANGED <<freeList, next, allocated, locals, live, lost, free>>

(* Mutant: a failed exchange makes the call give up. *)
PopRetryGivesUp(t) ==
  /\ pc[t] = "swapHead"
  /\ Goto(t, "refused")
  /\ UNCHANGED <<freeList, next, allocated, locals, live, lost, free>>

(* compare_exchange_weak failed: another thread changed the head, or       *)
(* nobody did.                                                             *)
PopRetry(t) ==
  /\ pc[t] = "swapHead"
  /\ Reload(t, PopLabel)
  /\ UNCHANGED <<freeList, next, allocated, newHead, slot, live, lost, free>>

AllocateRefused(t) ==
  /\ pc[t] = "refused"
  /\ Return(t)
  /\ UNCHANGED <<freeList, next, allocated, live, lost, free>>

CountAllocated(t) ==
  /\ pc[t] = "popped"
  /\ allocated' = allocated + 1
  /\ Goto(t, "construct")
  /\ UNCHANGED <<freeList, next, locals, live, lost, free>>

(* The storage takes the place of the link.  If the constructor throws,    *)
(* nothing gives the slot back.                                            *)
Construct(t) ==
  /\ pc[t] = "construct"
  /\ next' = [next EXCEPT ![oldHead[t]] = Object]
  /\ \/ live' = live \cup {oldHead[t]} /\ UNCHANGED lost
     \/ MayThrow /\ lost' = lost \cup {oldHead[t]} /\ UNCHANGED live
  /\ Return(t)
  /\ UNCHANGED <<freeList, allocated, free>>

-----------------------------------------------------------------------------
(* deallocate *)

(* The object is destroyed and the head loaded; a null pointer is ignored. *)
DeallocateCall(t, s) ==
  /\ t \in Deallocators
  /\ pc[t] = "idle"
  /\ s \in live
  /\ live' = live \ {s}
  /\ slot' = [slot EXCEPT ![t] = s]
  /\ Reload(t, "link")
  /\ UNCHANGED <<freeList, next, allocated, newHead, lost, free>>

PushLink(t) ==
  /\ pc[t] = "link"
  /\ next' = [next EXCEPT ![slot[t]] = oldHead[t]]
  /\ Goto(t, "swapSlot")
  /\ UNCHANGED <<freeList, allocated, locals, live, lost, free>>

PushSwap(t) ==
  /\ pc[t] = "swapSlot"
  /\ freeList = oldHead[t]
  /\ freeList' = slot[t]
  /\ free' = <<slot[t]>> \o free
  /\ Goto(t, "pushed")
  /\ UNCHANGED <<next, allocated, locals, live, lost>>

(* Mutant: the slot keeps the link to the head it lost the race for. *)
PushRetryUnlinked(t) ==
  /\ pc[t] = "swapSlot"
  /\ Reload(t, "swapSlot")
  /\ UNCHANGED <<freeList, next, allocated, newHead, slot, live, lost, free>>

PushRetry(t) ==
  /\ pc[t] = "swapSlot"
  /\ Reload(t, "link")
  /\ UNCHANGED <<freeList, next, allocated, newHead, slot, live, lost, free>>

(* Mutant: the count is not taken back. *)
CountDeallocatedNot(t) ==
  /\ pc[t] = "pushed"
  /\ Return(t)
  /\ UNCHANGED <<freeList, next, allocated, live, lost, free>>

CountDeallocated(t) ==
  /\ pc[t] = "pushed"
  /\ allocated' = allocated - 1
  /\ Return(t)
  /\ UNCHANGED <<freeList, next, live, lost, free>>

-----------------------------------------------------------------------------
(* A thread's step inside a call. *)
PoolStep(t) ==
  \/ PopReadNext(t) \/ PopSwap(t) \/ PopRetry(t)
  \/ AllocateRefused(t) \/ CountAllocated(t) \/ Construct(t)
  \/ PushLink(t) \/ PushSwap(t) \/ PushRetry(t) \/ CountDeallocated(t)

PoolNext ==
  \E t \in Threads :
    \/ AllocateCall(t)
    \/ \E s \in live : DeallocateCall(t, s)
    \/ PoolStep(t)

PoolSpec == PoolInit /\ [][PoolNext]_pool

(* Threads keep running inside their calls, and where exchanges that could *)
(* succeed are tried again and again not all of them fail spuriously.      *)
PoolFairness ==
  /\ \A t \in Threads : WF_pool(PoolStep(t))
  /\ SF_pool(\E t \in Threads : PopSwap(t) \/ PushSwap(t))

-----------------------------------------------------------------------------
(* Properties *)

InCall(label) == {t \in Threads : pc[t] \in label}

(* Slots that are neither free nor with a caller, by the thread that has   *)
(* them in its hands.                                                      *)
Popped == [t \in InCall({"popped", "construct"}) |-> oldHead[t]]
Returning == [t \in InCall({"link", "swapSlot"}) |-> slot[t]]

Held == live \cup lost \cup {Returning[t] : t \in DOMAIN Returning}
InHands == {Popped[t] : t \in DOMAIN Popped}
FreeSlots == {free[i] : i \in DOMAIN free}

PoolTypeOK ==
  /\ freeList \in Slots \cup {Nil}
  /\ next \in [Slots -> Slots \cup {Nil, Object}]
  /\ allocated \in Nat
  /\ pc \in [Threads -> {"idle", "readNext", "swapHead", "refused", "popped", "construct",
                         "link", "swapSlot", "pushed"}]
  /\ oldHead \in [Threads -> Slots \cup {Nil}]
  /\ newHead \in [Threads -> Slots \cup {Nil, Object}]
  /\ slot \in [Threads -> Slots \cup {Nil}]
  /\ live \subseteq Slots
  /\ lost \subseteq Slots
  /\ free \in Seq(Slots)

(* The links in memory spell out the list. *)
LinksMatchFree ==
  /\ freeList = IF free = <<>> THEN Nil ELSE free[1]
  /\ \A i \in 1 .. Len(free) : next[free[i]] = IF i = Len(free) THEN Nil ELSE free[i + 1]

(* "Uses a free-list with atomic operations for thread-safe allocation":   *)
(* allocate gives no slot to two calls, nor one that a caller still holds. *)
HandedOutOnce ==
  /\ \A t, u \in DOMAIN Popped : Popped[t] = Popped[u] => t = u
  /\ \A t, u \in DOMAIN Returning : Returning[t] = Returning[u] => t = u
  /\ \A t \in DOMAIN Returning : Returning[t] \notin live \cup lost
  /\ live \cap lost = {}
  /\ InHands \cap Held = {}

(* Every slot is in one place: once in the free list, or with one thread   *)
(* in the middle of a call, or with the callers, or lost.                  *)
EachSlotInOnePlace ==
  /\ HandedOutOnce
  /\ \A i, j \in DOMAIN free : free[i] = free[j] => i = j
  /\ FreeSlots \cap (InHands \cup Held) = {}
  /\ FreeSlots \cup InHands \cup Held = Slots

(* No interleaving of allocate and deallocate (popFreeSlot, pushFreeSlot)  *)
(* loses a slot, hands one out twice or leaves the list pointing into an   *)
(* object that is in use.  True as long as one thread allocates.           *)
SlotsHaveOneOwner == PoolTypeOK /\ LinksMatchFree /\ EachSlotInOnePlace

(* The counter is not changed together with the list, so in the middle of  *)
(* calls it may be off, even above the capacity (availableCount then       *)
(* wraps); it is off by exactly the calls that are between the two.        *)
CountSettles ==
  allocated + Cardinality(InCall({"popped"})) + Len(free)
    = PoolCapacity + Cardinality(InCall({"pushed"}))

(* allocate and deallocate take effect at one point each, the exchange or  *)
(* the load that finds the list empty, and only then is a call refused.    *)
AbstractPool ==
  INSTANCE SlotPool WITH
    Capacity <- PoolCapacity,
    out <- Held,
    answer <- [t \in Threads |->
                 IF t \in InCall({"popped", "construct"}) THEN oldHead[t]
                 ELSE IF pc[t] = "refused" THEN Nil ELSE NoAnswer]

ImplementsSlotPool == AbstractPool!Spec

(* Lock-freedom: while threads are in the loops, some call gets through.   *)
SomeCallGetsThrough ==
  InCall({"readNext", "swapHead", "link", "swapSlot"}) # {}
    ~> InCall({"refused", "popped", "pushed"}) # {}
=============================================================================
