------------------------- MODULE MemoryArena_proofs -------------------------
(***************************************************************************)
(* The object pool with one allocating thread, for every capacity and      *)
(* every set of threads that give objects back, and the arena, for every   *)
(* size and every mix of calls.                                            *)
(***************************************************************************)
EXTENDS ObjectPool, LinearArena, Integers, FiniteSetTheorems, TLAPS

(* The stack is safe as long as one thread pops: with two, a head can be   *)
(* popped and pushed back between the load of its link and the exchange.   *)
OneAllocator == \A t, u \in Allocators : t = u

HasPopped(t) == pc[t] \in {"popped", "construct"}
Returns(t) == pc[t] \in {"link", "swapSlot"}
IsFree(s) == \E i \in 1 .. Len(free) : free[i] = s

(* What each thread has loaded is still so when it tries its exchange, or  *)
(* the exchange fails.  The slot the allocating thread saw on top stays in *)
(* the list, for nobody else takes any out, and the links of slots in the  *)
(* list do not change.                                                     *)
LocalsHold ==
  \A t \in Threads :
    /\ pc[t] \in {"readNext", "swapHead", "refused"} \/ HasPopped(t) => t \in Allocators
    /\ pc[t] \in {"readNext", "swapHead"} => IsFree(oldHead[t])
    /\ pc[t] = "swapHead" => newHead[t] = next[oldHead[t]]
    /\ HasPopped(t) => oldHead[t] \in Slots
    /\ Returns(t) => slot[t] \in Slots
    /\ pc[t] = "swapSlot" => next[slot[t]] = oldHead[t]

(* EachSlotInOnePlace, thread by thread. *)
Apart ==
  /\ live \cap lost = {}
  /\ \A i, j \in 1 .. Len(free) : free[i] = free[j] => i = j
  /\ \A s \in live \cup lost : ~IsFree(s)
  /\ \A t \in Threads :
       /\ HasPopped(t) => ~IsFree(oldHead[t]) /\ oldHead[t] \notin live \cup lost
       /\ Returns(t) => ~IsFree(slot[t]) /\ slot[t] \notin live \cup lost
  /\ \A t, u \in Threads :
       /\ Returns(t) /\ Returns(u) /\ slot[t] = slot[u] => t = u
       /\ Returns(t) /\ HasPopped(u) => slot[t] # oldHead[u]

Everywhere ==
  \A s \in Slots :
    \/ IsFree(s)
    \/ s \in live \cup lost
    \/ \E t \in Threads : HasPopped(t) /\ oldHead[t] = s
    \/ \E t \in Threads : Returns(t) /\ slot[t] = s

PoolInv == PoolTypeOK /\ LinksMatchFree /\ LocalsHold /\ Apart /\ Everywhere /\ CountSettles

-----------------------------------------------------------------------------
(* Lists of slots *)

(* Only the empty list has no entry. *)
LEMMA EmptyList ==
  ASSUME NEW S, NEW q \in Seq(S)
  PROVE  q = <<>> <=> Len(q) = 0
OBVIOUS

(* The entries of a list. *)
LEMMA Entry ==
  ASSUME NEW S, NEW q \in Seq(S), NEW i \in 1 .. Len(q)
  PROVE  q[i] \in S
OBVIOUS

(* Dropping the first entry of a list moves the others up. *)
LEMMA DropFirst ==
  ASSUME NEW S, NEW q \in Seq(S), q # <<>>
  PROVE  /\ SubSeq(q, 2, Len(q)) = Tail(q)
         /\ Tail(q) \in Seq(S)
         /\ Len(q) \in Nat \ {0}
         /\ Len(Tail(q)) = Len(q) - 1
         /\ \A i \in 1 .. Len(q) - 1 : Tail(q)[i] = q[i + 1]
OBVIOUS

(* Putting an entry in front of a list moves the others down. *)
LEMMA PutFirst ==
  ASSUME NEW S, NEW q \in Seq(S), NEW s \in S
  PROVE  LET r == <<s>> \o q IN
         /\ r \in Seq(S)
         /\ Len(q) \in Nat
         /\ Len(r) = Len(q) + 1
         /\ r[1] = s
         /\ \A i \in 1 .. Len(q) : r[i + 1] = q[i]
         /\ \A i \in 1 .. Len(q) + 1 : r[i] = IF i = 1 THEN s ELSE q[i - 1]
OBVIOUS

(* A list of different slots is no longer than there are slots, and        *)
(* shorter if one is missing.                                              *)
LEMMA DifferentSlots ==
  ASSUME NEW q \in Seq(Slots),
         \A i, j \in 1 .. Len(q) : q[i] = q[j] => i = j
  PROVE  /\ Len(q) <= PoolCapacity
         /\ \A s \in Slots : (\A i \in 1 .. Len(q) : q[i] # s) => Len(q) < PoolCapacity
<1> DEFINE D == 1 .. Len(q)
<1>1. Len(q) \in Nat /\ PoolCapacity \in Nat /\ q \in [D -> Slots]
  BY PoolAssumption
<1>2. /\ IsFiniteSet(Slots) /\ Cardinality(Slots) = PoolCapacity
      /\ IsFiniteSet(D) /\ Cardinality(D) = Len(q)
  <2>1. /\ IsFiniteSet(1 .. PoolCapacity)
        /\ Cardinality(1 .. PoolCapacity) = IF 1 > PoolCapacity THEN 0 ELSE PoolCapacity - 1 + 1
        /\ IsFiniteSet(D)
        /\ Cardinality(D) = IF 1 > Len(q) THEN 0 ELSE Len(q) - 1 + 1
    BY <1>1, FS_Interval, SMTT(30)
  <2> QED BY <1>1, <2>1, PoolAssumption DEF Slots
<1>3. ASSUME NEW T, T \in SUBSET Slots, \A i \in D : q[i] \in T
      PROVE  Len(q) <= Cardinality(T)
  <2>1. q \in Injection(D, T)
    BY <1>1, <1>3 DEF Injection, IsInjective
  <2>2. IsFiniteSet(T)
    BY <1>2, <1>3, FS_Subset
  <2> QED BY <1>2, <2>1, <2>2, FS_Injection
<1>4. Len(q) <= PoolCapacity
  BY <1>1, <1>2, <1>3
<1>5. ASSUME NEW s \in Slots, \A i \in D : q[i] # s
      PROVE  Len(q) < PoolCapacity
  <2>1. Cardinality(Slots \ {s}) = PoolCapacity - 1
    BY <1>2, FS_RemoveElement
  <2>2. Len(q) <= Cardinality(Slots \ {s})
    BY <1>1, <1>3, <1>5
  <2> QED BY <1>1, <2>1, <2>2
<1> QED BY <1>4, <1>5

-----------------------------------------------------------------------------
(* The pool *)

(* How many threads are at a label before and after one of them moves. *)
LEMMA CountMoves ==
  ASSUME IsFiniteSet(Threads), PoolTypeOK, NEW t \in Threads, NEW label, Goto(t, label),
         NEW at
  PROVE  /\ Cardinality(InCall({at})) \in Nat
         /\ Cardinality(InCall({at}))' =
              IF label = at /\ pc[t] # at THEN Cardinality(InCall({at})) + 1
              ELSE IF label # at /\ pc[t] = at THEN Cardinality(InCall({at})) - 1
              ELSE Cardinality(InCall({at}))
<1>1. InCall({at}) \in SUBSET Threads
  BY DEF InCall
<1>2. IsFiniteSet(InCall({at})) /\ Cardinality(InCall({at})) \in Nat
  BY <1>1, FS_Subset, FS_CardinalityType
<1>3. InCall({at})' = IF label = at THEN InCall({at}) \cup {t} ELSE InCall({at}) \ {t}
  BY DEF InCall, Goto, PoolTypeOK
<1>4. t \in InCall({at}) <=> pc[t] = at
  BY DEF InCall
<1> DEFINE C == InCall({at})
<1> HIDE DEF C
<1>5. /\ Cardinality(C \cup {t}) = IF t \in C THEN Cardinality(C) ELSE Cardinality(C) + 1
      /\ Cardinality(C \ {t}) = IF t \in C THEN Cardinality(C) - 1 ELSE Cardinality(C)
  BY <1>2, FS_AddElement, FS_RemoveElement DEF C
<1> QED
  BY <1>2, <1>3, <1>4, <1>5 DEF C

(* The count of allocated objects is taken back only when there is one. *)
LEMMA CountIsPositive ==
  ASSUME IsFiniteSet(Threads), OneAllocator, PoolInv,
         NEW t \in Threads, pc[t] = "pushed"
  PROVE  allocated \in Nat \ {0}
<1> DEFINE pushed == InCall({"pushed"})
           popped == InCall({"popped"})
           n == Len(free)
<1>1. /\ IsFiniteSet(pushed) /\ Cardinality(pushed) \in Nat
      /\ IsFiniteSet(popped) /\ Cardinality(popped) \in Nat
  BY FS_Subset, FS_CardinalityType DEF InCall
<1>2. Cardinality(pushed) # 0
  BY <1>1, FS_EmptySet DEF InCall
<1>3. /\ allocated \in Nat /\ PoolCapacity \in Nat /\ n \in Nat
      /\ allocated + Cardinality(popped) + n = PoolCapacity + Cardinality(pushed)
  BY PoolAssumption DEF PoolInv, PoolTypeOK, CountSettles
<1>4. Cardinality(popped) + n <= PoolCapacity
  <2>1. free \in Seq(Slots) /\ \A i, j \in 1 .. Len(free) : free[i] = free[j] => i = j
    BY DEF PoolInv, PoolTypeOK, Apart
  <2>4. n <= PoolCapacity
    BY <2>1, DifferentSlots
  <2>5. n \in Nat /\ PoolCapacity \in Nat
    BY <1>3
  <2>2. CASE popped = {}
    <3>1. Cardinality(popped) = 0
      BY <2>2, FS_EmptySet
    <3> HIDE DEF popped, n
    <3> QED BY <2>4, <2>5, <3>1
  <2>3. CASE popped # {}
    <3>1. PICK u \in Threads : pc[u] = "popped"
      BY <2>3 DEF InCall
    <3>2. popped = {u}
      BY <3>1 DEF InCall, OneAllocator, PoolInv, LocalsHold, HasPopped
    <3>3. oldHead[u] \in Slots /\ ~IsFree(oldHead[u])
      BY <3>1 DEF PoolInv, LocalsHold, Apart, HasPopped
    <3>4. n < PoolCapacity
      BY <2>1, <3>3, DifferentSlots DEF IsFree
    <3>5. Cardinality(popped) = 1
      BY <3>2, FS_Singleton
    <3> HIDE DEF popped, n
    <3> QED BY <2>5, <3>4, <3>5
  <2> QED BY <2>2, <2>3
<1> HIDE DEF pushed, popped, n
<1> QED BY <1>1, <1>2, <1>3, <1>4

(* A pool as it is made satisfies the invariant. *)
LEMMA PoolInitInv == PoolInit /\ IsFiniteSet(Threads) => PoolInv
<1> SUFFICES ASSUME PoolInit, IsFiniteSet(Threads)  PROVE PoolInv
  OBVIOUS
<1>1. free \in Seq(Slots) /\ Len(free) = PoolCapacity /\ PoolCapacity \in Nat \ {0}
  BY PoolAssumption DEF PoolInit, Slots
<1>2. PoolTypeOK
  BY <1>1, PoolAssumption DEF PoolInit, PoolTypeOK, Slots
<1>3. LinksMatchFree
  BY <1>1 DEF PoolInit, LinksMatchFree, Slots
<1>4. LocalsHold /\ Apart
  BY <1>1 DEF PoolInit, LocalsHold, Apart, HasPopped, Returns, Slots
<1>5. Everywhere
  BY <1>1 DEF PoolInit, Everywhere, IsFree, Slots
<1>6. CountSettles
  <2>1. InCall({"popped"}) = {} /\ InCall({"pushed"}) = {}
    BY DEF PoolInit, InCall
  <2>2. Cardinality(InCall({"popped"})) = 0 /\ Cardinality(InCall({"pushed"})) = 0
    BY <2>1, FS_EmptySet
  <2> QED BY <1>1, <2>2 DEF PoolInit, CountSettles
<1> QED BY <1>2, <1>3, <1>4, <1>5, <1>6 DEF PoolInv

(* The two counts after a thread went from one label to another. *)
LEMMA CountsMove ==
  ASSUME IsFiniteSet(Threads), PoolTypeOK, NEW t \in Threads,
         NEW from, NEW label, pc[t] = from, Goto(t, label), from # label
  PROVE  /\ Cardinality(InCall({"popped"})) \in Nat
         /\ Cardinality(InCall({"pushed"})) \in Nat
         /\ Cardinality(InCall({"popped"}))' = Cardinality(InCall({"popped"})) +
              (IF label = "popped" THEN 1 ELSE IF from = "popped" THEN 0 - 1 ELSE 0)
         /\ Cardinality(InCall({"pushed"}))' = Cardinality(InCall({"pushed"})) +
              (IF label = "pushed" THEN 1 ELSE IF from = "pushed" THEN 0 - 1 ELSE 0)
<1>1. /\ Cardinality(InCall({"popped"})) \in Nat
      /\ Cardinality(InCall({"popped"}))' =
           IF label = "popped" /\ pc[t] # "popped" THEN Cardinality(InCall({"popped"})) + 1
           ELSE IF label # "popped" /\ pc[t] = "popped" THEN Cardinality(InCall({"popped"})) - 1
           ELSE Cardinality(InCall({"popped"}))
  BY CountMoves, ZenonT(60)
<1>2. /\ Cardinality(InCall({"pushed"})) \in Nat
      /\ Cardinality(InCall({"pushed"}))' =
           IF label = "pushed" /\ pc[t] # "pushed" THEN Cardinality(InCall({"pushed"})) + 1
           ELSE IF label # "pushed" /\ pc[t] = "pushed" THEN Cardinality(InCall({"pushed"})) - 1
           ELSE Cardinality(InCall({"pushed"}))
  BY CountMoves, ZenonT(60)
<1> QED BY <1>1, <1>2

(* The counts agree as long as no thread passes the exchange or the count. *)
LEMMA CountStays ==
  ASSUME IsFiniteSet(Threads), PoolTypeOK, CountSettles,
         NEW t \in Threads, NEW label, Goto(t, label),
         {pc[t], label} \cap {"popped", "pushed"} = {},
         UNCHANGED <<allocated, free>>
  PROVE  CountSettles'
<1>1. /\ Cardinality(InCall({"popped"}))' = Cardinality(InCall({"popped"}))
      /\ Cardinality(InCall({"pushed"}))' = Cardinality(InCall({"pushed"}))
  BY CountMoves
<1> QED BY <1>1 DEF CountSettles

(* Every step of every thread keeps the invariant. *)
LEMMA PoolInvNext ==
  ASSUME IsFiniteSet(Threads), OneAllocator, PoolInv, PoolNext
  PROVE  PoolInv'
<1> USE DEF HasPopped, Returns, IsFree
<1>1. PICK t \in Threads :
        \/ AllocateCall(t)
        \/ \E s \in live : DeallocateCall(t, s)
        \/ PoolStep(t)
  BY DEF PoolNext
<1>2. /\ PoolTypeOK /\ LinksMatchFree /\ LocalsHold /\ Apart /\ Everywhere /\ CountSettles
      /\ free \in Seq(Slots) /\ Len(free) \in Nat /\ PoolCapacity \in Nat
      /\ allocated \in Nat
  BY PoolAssumption DEF PoolInv, PoolTypeOK
<1>3. /\ freeList # Nil => IsFree(freeList) /\ freeList \in Slots
      /\ freeList \in Slots => free # <<>> /\ freeList = free[1]
      /\ \A s : IsFree(s) => s \in Slots
  BY <1>2, PoolAssumption DEF LinksMatchFree, PoolTypeOK
<1>4. CASE AllocateCall(t)
  <2>1. PoolTypeOK'
    BY <1>2, <1>4, PoolAssumption DEF PoolTypeOK, AllocateCall, Reload, Goto, PopLabel
  <2>2. LinksMatchFree'
    BY <1>2, <1>4 DEF LinksMatchFree, AllocateCall
  <2>3. LocalsHold'
    BY <1>2, <1>3, <1>4 DEF LocalsHold, PoolTypeOK, AllocateCall, Reload, Goto, PopLabel
  <2>4. Apart'
    BY <1>2, <1>4 DEF Apart, PoolTypeOK, AllocateCall, Reload, Goto, PopLabel
  <2>5. Everywhere'
    BY <1>2, <1>4 DEF Everywhere, PoolTypeOK, AllocateCall, Reload, Goto, PopLabel
  <2>6. CountSettles'
    BY <1>2, <1>4, CountStays DEF AllocateCall, Reload, PopLabel
  <2> QED BY <2>1, <2>2, <2>3, <2>4, <2>5, <2>6 DEF PoolInv
<1>5. CASE PopReadNext(t)
  <2>1. PoolTypeOK'
    BY <1>2, <1>5 DEF PoolTypeOK, PopReadNext, Goto
  <2>2. LinksMatchFree'
    BY <1>2, <1>5 DEF LinksMatchFree, PopReadNext
  <2>3. LocalsHold'
    BY <1>2, <1>5 DEF LocalsHold, PoolTypeOK, PopReadNext, Goto
  <2>4. Apart'
    BY <1>2, <1>5 DEF Apart, PoolTypeOK, PopReadNext, Goto
  <2>5. Everywhere'
    BY <1>2, <1>5 DEF Everywhere, PoolTypeOK, PopReadNext, Goto
  <2>6. CountSettles'
    BY <1>2, <1>5, CountStays DEF PopReadNext
  <2> QED BY <2>1, <2>2, <2>3, <2>4, <2>5, <2>6 DEF PoolInv
<1>6. CASE PopSwap(t)
  <2>1. /\ IsFree(oldHead[t]) /\ freeList = oldHead[t] /\ freeList = free[1] /\ free # <<>>
        /\ newHead[t] = next[free[1]] /\ t \in Allocators /\ free[1] \in Slots
    BY <1>2, <1>3, <1>6 DEF LocalsHold, PopSwap
  <2>2. /\ free' \in Seq(Slots) /\ Len(free) > 0 /\ Len(free)' = Len(free) - 1
        /\ free' = <<>> <=> Len(free) = 1
        /\ \A i \in 1 .. Len(free)' : free'[i] = free[i + 1] /\ i + 1 \in 1 .. Len(free)
    <3>1. /\ free' = Tail(free) /\ Tail(free) \in Seq(Slots)
          /\ Len(free) \in Nat \ {0} /\ Len(Tail(free)) = Len(free) - 1
          /\ \A i \in 1 .. Len(free) - 1 : Tail(free)[i] = free[i + 1]
      BY <1>2, <1>6, <2>1, DropFirst DEF PopSwap
    <3>2. Tail(free) = <<>> <=> Len(Tail(free)) = 0
      BY <3>1, EmptyList
    <3> QED BY <3>1, <3>2
  <2>3. next[free[1]] = IF Len(free) = 1 THEN Nil ELSE free[2]
    BY <1>2, <2>2 DEF LinksMatchFree
  <2>4. \A i \in 1 .. Len(free) : i # 1 => i - 1 \in 1 .. Len(free)' /\ free'[i - 1] = free[i]
    BY <1>2, <2>2
  <2>5. \A s : IsFree(s)' <=> IsFree(s) /\ s # free[1]
    BY <1>2, <2>2, <2>4 DEF Apart
  <2>6. PoolTypeOK'
    BY <1>2, <1>6, <2>1, <2>2, <2>3, SMTT(30) DEF PoolTypeOK, PopSwap, Goto, locals
  <2>7. LinksMatchFree'
    BY <1>2, <1>6, <2>1, <2>2, <2>3 DEF LinksMatchFree, PopSwap
  <2> HIDE DEF IsFree
  <2>8. LocalsHold'
    BY <1>2, <1>6, <2>1, <2>5, OneAllocator, ZenonT(60)
          DEF LocalsHold, PoolTypeOK, PopSwap, Goto, locals, OneAllocator
  <2>9. Apart'
    <3>1. (\A i, j \in 1 .. Len(free) : free[i] = free[j] => i = j)'
      <4>1. \A i, j \in 1 .. Len(free) : free[i] = free[j] => i = j
        BY <1>2 DEF Apart
      <4>2. \A i \in 1 .. Len(free)' : i + 1 \in 1 .. Len(free) /\ free'[i] = free[i + 1]
        BY <2>2
      <4>3. SUFFICES ASSUME NEW i \in 1 .. Len(free)', NEW j \in 1 .. Len(free)', free'[i] = free'[j]
                     PROVE  i = j
        OBVIOUS
      <4>4. i + 1 = j + 1
        BY <4>1, <4>2, <4>3, Zenon
      <4> QED BY <4>4
    <3>2. \A s \in live \cup lost : ~IsFree(s)'
      BY <1>2, <2>5 DEF Apart
    <3> QED BY <1>2, <1>6, <2>1, <2>5, <3>1, <3>2, ZenonT(60)
          DEF Apart, PoolTypeOK, PopSwap, Goto, locals
  <2>10. Everywhere'
    BY <1>2, <1>6, <2>1, <2>5, ZenonT(60) DEF Everywhere, PoolTypeOK, PopSwap, Goto, locals
  <2>11. CountSettles'
    <3>1. /\ Cardinality(InCall({"popped"}))' = Cardinality(InCall({"popped"})) + 1
          /\ Cardinality(InCall({"pushed"}))' = Cardinality(InCall({"pushed"}))
          /\ Cardinality(InCall({"popped"})) \in Nat
          /\ Cardinality(InCall({"pushed"})) \in Nat
      <4>1. pc[t] = "swapHead" /\ Goto(t, "popped")
        BY <1>6 DEF PopSwap
      <4> QED BY <1>2, <4>1, CountsMove
    <3> QED BY <1>2, <1>6, <2>2, <3>1 DEF CountSettles, PopSwap
  <2> QED BY <2>6, <2>7, <2>8, <2>9, <2>10, <2>11 DEF PoolInv
<1>7. CASE PopRetry(t)
  <2>1. PoolTypeOK'
    BY <1>2, <1>7, PoolAssumption DEF PoolTypeOK, PopRetry, Reload, Goto, PopLabel
  <2>2. LinksMatchFree'
    BY <1>2, <1>7 DEF LinksMatchFree, PopRetry
  <2>3. LocalsHold'
    BY <1>2, <1>3, <1>7 DEF LocalsHold, PoolTypeOK, PopRetry, Reload, Goto, PopLabel
  <2>4. Apart'
    BY <1>2, <1>7 DEF Apart, PoolTypeOK, PopRetry, Reload, Goto, PopLabel
  <2>5. Everywhere'
    BY <1>2, <1>7 DEF Everywhere, PoolTypeOK, PopRetry, Reload, Goto, PopLabel
  <2>6. CountSettles'
    BY <1>2, <1>7, CountStays DEF PopRetry, Reload, PopLabel
  <2> QED BY <2>1, <2>2, <2>3, <2>4, <2>5, <2>6 DEF PoolInv
<1>8. CASE AllocateRefused(t)
  <2>1. PoolTypeOK'
    BY <1>2, <1>8 DEF PoolTypeOK, AllocateRefused, Return, Goto
  <2>2. LinksMatchFree'
    BY <1>2, <1>8 DEF LinksMatchFree, AllocateRefused
  <2>3. LocalsHold'
    BY <1>2, <1>8 DEF LocalsHold, PoolTypeOK, AllocateRefused, Return, Goto
  <2>4. Apart'
    BY <1>2, <1>8 DEF Apart, PoolTypeOK, AllocateRefused, Return, Goto
  <2>5. Everywhere'
    BY <1>2, <1>8 DEF Everywhere, PoolTypeOK, AllocateRefused, Return, Goto
  <2>6. CountSettles'
    BY <1>2, <1>8, CountStays DEF AllocateRefused, Return
  <2> QED BY <2>1, <2>2, <2>3, <2>4, <2>5, <2>6 DEF PoolInv
<1>9. CASE CountAllocated(t)
  <2>1. PoolTypeOK'
    BY <1>2, <1>9 DEF PoolTypeOK, CountAllocated, Goto, locals
  <2>2. LinksMatchFree'
    BY <1>2, <1>9 DEF LinksMatchFree, CountAllocated
  <2>3. LocalsHold'
    BY <1>2, <1>9 DEF LocalsHold, PoolTypeOK, CountAllocated, Goto, locals
  <2>4. Apart'
    BY <1>2, <1>9 DEF Apart, PoolTypeOK, CountAllocated, Goto, locals
  <2>5. Everywhere'
    BY <1>2, <1>9 DEF Everywhere, PoolTypeOK, CountAllocated, Goto, locals
  <2>6. CountSettles'
    <3>1. /\ Cardinality(InCall({"popped"}))' = Cardinality(InCall({"popped"})) - 1
          /\ Cardinality(InCall({"pushed"}))' = Cardinality(InCall({"pushed"}))
          /\ Cardinality(InCall({"popped"})) \in Nat
          /\ Cardinality(InCall({"pushed"})) \in Nat
      <4>1. pc[t] = "popped" /\ Goto(t, "construct")
        BY <1>9 DEF CountAllocated
      <4> QED BY <1>2, <4>1, CountsMove
    <3> QED BY <1>2, <1>9, <3>1 DEF CountSettles, CountAllocated
  <2> QED BY <2>1, <2>2, <2>3, <2>4, <2>5, <2>6 DEF PoolInv
<1>10. CASE Construct(t)
  <2>1. /\ oldHead[t] \in Slots /\ ~IsFree(oldHead[t]) /\ oldHead[t] \notin live \cup lost
        /\ \A i \in 1 .. Len(free) : next'[free[i]] = next[free[i]]
        /\ next' \in [Slots -> Slots \cup {Nil, Object}]
    BY <1>2, <1>10 DEF LocalsHold, Apart, PoolTypeOK, Construct
  <2>2. PoolTypeOK'
    BY <1>2, <1>10, <2>1 DEF PoolTypeOK, Construct, Return, Goto
  <2>3. LinksMatchFree'
    BY <1>2, <1>10, <2>1 DEF LinksMatchFree, Construct
  <2>4. LocalsHold'
    <3>1. \A s \in Slots : s # oldHead[t] => next'[s] = next[s]
      BY <1>10, <2>1 DEF Construct
    <3>2. \A u \in Threads : pc[u] = "swapSlot" => slot[u] # oldHead[t] /\ slot[u] \in Slots
      BY <1>2, <1>10 DEF Apart, LocalsHold, Construct
    <3>3. \A u \in Threads : pc[u] \in {"readNext", "swapHead"} => oldHead[u] # oldHead[t] /\ oldHead[u] \in Slots
      BY <1>2, <1>3, <2>1 DEF LocalsHold
    <3> QED BY <1>2, <1>10, <2>1, <3>1, <3>2, <3>3 DEF LocalsHold, PoolTypeOK, Construct, Return, Goto
  <2>5. Apart'
    BY <1>2, <1>10, <2>1, OneAllocator DEF Apart, LocalsHold, PoolTypeOK, Construct, Return, Goto, OneAllocator
  <2>6. Everywhere'
    BY <1>2, <1>10, <2>1 DEF Everywhere, PoolTypeOK, Construct, Return, Goto
  <2>7. CountSettles'
    BY <1>2, <1>10, CountStays DEF Construct, Return
  <2> QED BY <2>2, <2>3, <2>4, <2>5, <2>6, <2>7 DEF PoolInv
<1>11. CASE \E s \in live : DeallocateCall(t, s)
  <2>1. PICK s \in live : DeallocateCall(t, s)
    BY <1>11
  <2>2. s \in Slots /\ ~IsFree(s) /\ s \notin lost
    BY <1>2 DEF PoolTypeOK, Apart
  <2>3. PoolTypeOK'
    BY <1>2, <2>1, <2>2 DEF PoolTypeOK, DeallocateCall, Reload, Goto
  <2>4. LinksMatchFree'
    BY <1>2, <2>1 DEF LinksMatchFree, DeallocateCall
  <2>5. LocalsHold'
    BY <1>2, <2>1, <2>2 DEF LocalsHold, PoolTypeOK, DeallocateCall, Reload, Goto
  <2>6. Apart'
    BY <1>2, <2>1, <2>2 DEF Apart, PoolTypeOK, DeallocateCall, Reload, Goto
  <2>7. Everywhere'
    BY <1>2, <2>1, <2>2 DEF Everywhere, PoolTypeOK, DeallocateCall, Reload, Goto
  <2>8. CountSettles'
    BY <1>2, <2>1, CountStays DEF DeallocateCall, Reload
  <2> QED BY <2>3, <2>4, <2>5, <2>6, <2>7, <2>8 DEF PoolInv
<1>12. CASE PushLink(t)
  <2>1. /\ slot[t] \in Slots /\ ~IsFree(slot[t])
        /\ \A i \in 1 .. Len(free) : next'[free[i]] = next[free[i]]
        /\ next' \in [Slots -> Slots \cup {Nil, Object}]
        /\ next'[slot[t]] = oldHead[t]
        /\ \A s \in Slots : s # slot[t] => next'[s] = next[s]
    BY <1>2, <1>12 DEF LocalsHold, Apart, PoolTypeOK, PushLink
  <2>2. PoolTypeOK'
    BY <1>2, <1>12, <2>1 DEF PoolTypeOK, PushLink, Goto, locals
  <2>3. LinksMatchFree'
    BY <1>2, <1>12, <2>1 DEF LinksMatchFree, PushLink
  <2>4. LocalsHold'
    <3>1. \A u \in Threads : pc[u] = "swapSlot" => slot[u] # slot[t] /\ slot[u] \in Slots
      BY <1>2, <1>12 DEF Apart, LocalsHold, PushLink
    <3>2. \A u \in Threads : pc[u] \in {"readNext", "swapHead"} => oldHead[u] # slot[t] /\ oldHead[u] \in Slots
      BY <1>2, <1>3, <2>1 DEF LocalsHold
    <3> QED BY <1>2, <1>12, <2>1, <3>1, <3>2 DEF LocalsHold, PoolTypeOK, PushLink, Goto, locals
  <2>5. Apart'
    BY <1>2, <1>12, <2>1 DEF Apart, PoolTypeOK, PushLink, Goto, locals
  <2>6. Everywhere'
    BY <1>2, <1>12, <2>1 DEF Everywhere, PoolTypeOK, PushLink, Goto, locals
  <2>7. CountSettles'
    BY <1>2, <1>12, CountStays DEF PushLink
  <2> QED BY <2>2, <2>3, <2>4, <2>5, <2>6, <2>7 DEF PoolInv
<1>13. CASE PushSwap(t)
  <2> DEFINE s == slot[t]
  <2>1. /\ s \in Slots /\ ~IsFree(s) /\ s \notin live \cup lost
        /\ next[s] = freeList
    BY <1>2, <1>13 DEF LocalsHold, Apart, PushSwap
  <2> HIDE DEF s
  <2>2. /\ free' \in Seq(Slots) /\ Len(free)' = Len(free) + 1 /\ free' # <<>>
        /\ free'[1] = s
        /\ \A i \in 1 .. Len(free) : free'[i + 1] = free[i]
        /\ \A i \in 1 .. Len(free)' : free'[i] = IF i = 1 THEN s ELSE free[i - 1]
    BY <1>2, <1>13, <2>1, PutFirst DEF PushSwap, s
  <2>3. \A x : IsFree(x)' <=> IsFree(x) \/ x = s
    <3>1. /\ \A i \in 1 .. Len(free) : i + 1 \in 1 .. Len(free)'
          /\ \A i \in 1 .. Len(free)' : i # 1 => i - 1 \in 1 .. Len(free)
          /\ 1 \in 1 .. Len(free)'
      BY <1>2, <2>2
    <3> QED BY <2>2, <3>1
  <2>4. PoolTypeOK'
    BY <1>2, <1>13, <2>1, <2>2 DEF PoolTypeOK, PushSwap, Goto, locals, s
  <2>5. LinksMatchFree'
    <3>1. freeList' = s /\ next' = next
      BY <1>13 DEF PushSwap, s
    <3>2. ASSUME NEW i \in 1 .. Len(free)'
          PROVE  next'[free'[i]] = IF i = Len(free)' THEN Nil ELSE free'[i + 1]
      <4>1. CASE i = 1
        <5>1. freeList = IF Len(free) = 0 THEN Nil ELSE free[1]
          BY <1>2 DEF LinksMatchFree
        <5>2. Len(free) > 0 => 1 \in 1 .. Len(free) /\ free'[1 + 1] = free[1]
          BY <1>2, <2>2
        <5> QED BY <1>2, <2>1, <2>2, <3>1, <4>1, <5>1, <5>2
      <4>2. CASE i # 1
        <5>1. i - 1 \in 1 .. Len(free) /\ free'[i] = free[i - 1]
          BY <1>2, <2>2, <4>2
        <5>2. next[free[i - 1]] = IF i - 1 = Len(free) THEN Nil ELSE free[(i - 1) + 1]
          BY <1>2, <5>1 DEF LinksMatchFree
        <5>3. i # Len(free)' => i \in 1 .. Len(free) /\ free'[i + 1] = free[i]
          BY <1>2, <2>2
        <5> QED BY <1>2, <2>2, <3>1, <5>1, <5>2, <5>3
      <4> QED BY <4>1, <4>2
    <3> QED BY <2>2, <3>1, <3>2 DEF LinksMatchFree
  <2> HIDE DEF IsFree
  <2>6. LocalsHold'
    BY <1>2, <1>13, <2>1, <2>3 DEF LocalsHold, PoolTypeOK, PushSwap, Goto, locals
  <2>7. Apart'
    <3>1. (\A i, j \in 1 .. Len(free) : free[i] = free[j] => i = j)'
      <4>1. \A i, j \in 1 .. Len(free) : free[i] = free[j] => i = j
        BY <1>2 DEF Apart
      <4>2. SUFFICES ASSUME NEW i \in 1 .. Len(free)', NEW j \in 1 .. Len(free)', free'[i] = free'[j]
                     PROVE  i = j
        OBVIOUS
      <4>3. \A k \in 1 .. Len(free)' : k # 1 => k - 1 \in 1 .. Len(free) /\ free'[k] = free[k - 1]
        BY <1>2, <2>2
      <4>4. \A k \in 1 .. Len(free)' : k # 1 => free'[k] # s
        BY <2>1, <4>3, Zenon DEF IsFree
      <4>5. CASE i = 1 \/ j = 1
        BY <2>2, <4>2, <4>4, <4>5, Zenon
      <4>6. CASE i # 1 /\ j # 1
        <5>1. i - 1 = j - 1
          BY <4>1, <4>2, <4>3, <4>6, Zenon
        <5> QED BY <5>1
      <4> QED BY <4>5, <4>6
    <3> QED BY <1>2, <1>13, <2>1, <2>3, <3>1 DEF Apart, PoolTypeOK, PushSwap, Goto, locals, s
  <2>8. Everywhere'
    BY <1>2, <1>13, <2>1, <2>3 DEF Everywhere, PoolTypeOK, PushSwap, Goto, locals, s
  <2>9. CountSettles'
    <3>1. /\ Cardinality(InCall({"popped"}))' = Cardinality(InCall({"popped"}))
          /\ Cardinality(InCall({"pushed"}))' = Cardinality(InCall({"pushed"})) + 1
          /\ Cardinality(InCall({"popped"})) \in Nat
          /\ Cardinality(InCall({"pushed"})) \in Nat
      <4>1. pc[t] = "swapSlot" /\ Goto(t, "pushed")
        BY <1>13 DEF PushSwap
      <4> QED BY <1>2, <4>1, CountsMove
    <3>2. allocated' = allocated
      BY <1>13 DEF PushSwap
    <3>3. Len(free)' = Len(free) + 1
      BY <2>2
    <3> QED BY <1>2, <3>1, <3>2, <3>3 DEF CountSettles
  <2> QED BY <2>4, <2>5, <2>6, <2>7, <2>8, <2>9 DEF PoolInv
<1>14. CASE PushRetry(t)
  <2>1. PoolTypeOK'
    BY <1>2, <1>14 DEF PoolTypeOK, PushRetry, Reload, Goto
  <2>2. LinksMatchFree'
    BY <1>2, <1>14 DEF LinksMatchFree, PushRetry
  <2>3. LocalsHold'
    BY <1>2, <1>14 DEF LocalsHold, PoolTypeOK, PushRetry, Reload, Goto
  <2>4. Apart'
    BY <1>2, <1>14 DEF Apart, PoolTypeOK, PushRetry, Reload, Goto
  <2>5. Everywhere'
    BY <1>2, <1>14 DEF Everywhere, PoolTypeOK, PushRetry, Reload, Goto
  <2>6. CountSettles'
    BY <1>2, <1>14, CountStays DEF PushRetry, Reload
  <2> QED BY <2>1, <2>2, <2>3, <2>4, <2>5, <2>6 DEF PoolInv
<1>15. CASE CountDeallocated(t)
  <2>1. allocated \in Nat \ {0}
    BY <1>15, CountIsPositive DEF CountDeallocated
  <2>2. PoolTypeOK'
    BY <1>2, <1>15, <2>1 DEF PoolTypeOK, CountDeallocated, Return, Goto
  <2>3. LinksMatchFree'
    BY <1>2, <1>15 DEF LinksMatchFree, CountDeallocated
  <2>4. LocalsHold'
    BY <1>2, <1>15 DEF LocalsHold, PoolTypeOK, CountDeallocated, Return, Goto
  <2>5. Apart'
    BY <1>2, <1>15 DEF Apart, PoolTypeOK, CountDeallocated, Return, Goto
  <2>6. Everywhere'
    BY <1>2, <1>15 DEF Everywhere, PoolTypeOK, CountDeallocated, Return, Goto
  <2>7. CountSettles'
    <3>1. /\ Cardinality(InCall({"popped"}))' = Cardinality(InCall({"popped"}))
          /\ Cardinality(InCall({"pushed"}))' = Cardinality(InCall({"pushed"})) - 1
          /\ Cardinality(InCall({"popped"})) \in Nat
          /\ Cardinality(InCall({"pushed"})) \in Nat
      <4>1. pc[t] = "pushed" /\ Goto(t, "idle")
        BY <1>15 DEF CountDeallocated, Return
      <4> QED BY <1>2, <4>1, CountsMove
    <3> QED BY <1>2, <1>15, <2>1, <3>1 DEF CountSettles, CountDeallocated
  <2> QED BY <2>2, <2>3, <2>4, <2>5, <2>6, <2>7 DEF PoolInv
<1> QED
  BY <1>1, <1>4, <1>5, <1>6, <1>7, <1>8, <1>9, <1>10, <1>11, <1>12, <1>13, <1>14, <1>15
     DEF PoolStep

(* With one allocating thread, whatever the capacity and however many      *)
(* threads give objects back: the pool (allocate, deallocate and their     *)
(* exchange loops) keeps the invariant.                                    *)
THEOREM PoolInvariant ==
  ASSUME OneAllocator, IsFiniteSet(Threads)
  PROVE  PoolSpec => []PoolInv
<1>1. PoolInit => PoolInv
  BY PoolInitInv
<1>2. PoolInv /\ [PoolNext]_pool => PoolInv'
  <2> SUFFICES ASSUME PoolInv, [PoolNext]_pool  PROVE PoolInv'
    OBVIOUS
  <2>1. CASE PoolNext
    BY <2>1, PoolInvNext
  <2>2. CASE UNCHANGED pool
    BY <2>2 DEF PoolInv, pool, locals, PoolTypeOK, LinksMatchFree, LocalsHold, Apart,
                Everywhere, CountSettles, HasPopped, Returns, IsFree, InCall
  <2> QED BY <2>1, <2>2
<1> QED BY <1>1, <1>2, PTL DEF PoolSpec

(* The invariant says, thread by thread, that every slot is in one place.  *)
LEMMA OnePlace ==
  ASSUME OneAllocator, PoolInv
  PROVE  SlotsHaveOneOwner
<1>1. /\ PoolTypeOK /\ LinksMatchFree /\ LocalsHold /\ Apart /\ Everywhere
      /\ free \in Seq(Slots) /\ DOMAIN free = 1 .. Len(free)
  BY DEF PoolInv, PoolTypeOK
<1>2. /\ DOMAIN Popped = {t \in Threads : HasPopped(t)}
      /\ \A t \in DOMAIN Popped : Popped[t] = oldHead[t]
      /\ DOMAIN Returning = {t \in Threads : Returns(t)}
      /\ \A t \in DOMAIN Returning : Returning[t] = slot[t]
  BY DEF Popped, Returning, InCall, HasPopped, Returns
<1>3. \A s : s \in FreeSlots <=> IsFree(s)
  BY <1>1 DEF FreeSlots, IsFree
<1>4. \A s : s \in InHands <=> \E t \in Threads : HasPopped(t) /\ oldHead[t] = s
  BY <1>2 DEF InHands
<1>5. \A s : s \in Held <=> s \in live \cup lost \/ \E t \in Threads : Returns(t) /\ slot[t] = s
  BY <1>2 DEF Held
<1>6. \A t, u \in DOMAIN Popped : Popped[t] = Popped[u] => t = u
  BY <1>1, <1>2 DEF LocalsHold, OneAllocator
<1>7. /\ \A t, u \in DOMAIN Returning : Returning[t] = Returning[u] => t = u
      /\ \A t \in DOMAIN Returning : Returning[t] \notin live \cup lost
      /\ live \cap lost = {}
  BY <1>1, <1>2 DEF Apart
<1>8. InHands \cap Held = {}
  BY <1>1, <1>4, <1>5 DEF Apart
<1>9. FreeSlots \cap (InHands \cup Held) = {}
  BY <1>1, <1>3, <1>4, <1>5 DEF Apart
<1>10. FreeSlots \cup InHands \cup Held = Slots
  <2>1. ASSUME NEW s, s \in FreeSlots \cup InHands \cup Held  PROVE s \in Slots
    <3>1. s \in FreeSlots => s \in Slots
      BY <1>1, <1>3 DEF IsFree
    <3>2. s \in InHands => s \in Slots
      BY <1>1, <1>4 DEF LocalsHold
    <3>3. s \in Held => s \in Slots
      BY <1>1, <1>5 DEF LocalsHold, PoolTypeOK
    <3> QED BY <2>1, <3>1, <3>2, <3>3
  <2>2. ASSUME NEW s \in Slots  PROVE s \in FreeSlots \cup InHands \cup Held
    BY <1>1, <1>3, <1>4, <1>5 DEF Everywhere
  <2> QED BY <2>1, <2>2
<1>11. \A i, j \in DOMAIN free : free[i] = free[j] => i = j
  BY <1>1 DEF Apart
<1> QED
  BY <1>1, <1>6, <1>7, <1>8, <1>9, <1>10, <1>11
     DEF SlotsHaveOneOwner, EachSlotInOnePlace, HandedOutOnce

(* No interleaving of allocate and deallocate loses a slot, hands one out  *)
(* twice or leaves the list pointing into an object in use.                *)
THEOREM PoolKeepsSlotsApart ==
  ASSUME OneAllocator, IsFiniteSet(Threads)
  PROVE  PoolSpec => []SlotsHaveOneOwner
<1>1. PoolInv => SlotsHaveOneOwner
  BY OnePlace
<1> QED BY <1>1, PoolInvariant, PTL

(* m_allocatedCount is off by exactly the calls between exchange and count.*)
THEOREM PoolCountSettles ==
  ASSUME OneAllocator, IsFiniteSet(Threads)
  PROVE  PoolSpec => []CountSettles
<1>1. PoolInv => CountSettles
  BY DEF PoolInv
<1> QED BY <1>1, PoolInvariant, PTL

-----------------------------------------------------------------------------
(* The pool implements the stack of slots *)

(* What each call of allocate has been given and has not yet returned. *)
Answers ==
  [t \in Threads |-> IF t \in InCall({"popped", "construct"}) THEN oldHead[t]
                     ELSE IF pc[t] = "refused" THEN Nil ELSE NoAnswer]

(* The answers as a function of the labels. *)
LEMMA AnswerAt ==
  \A t \in Threads :
    Answers[t] = IF HasPopped(t) THEN oldHead[t]
                 ELSE IF pc[t] = "refused" THEN Nil ELSE NoAnswer
BY DEF Answers, InCall, HasPopped

(* The same in the next state. *)
LEMMA AnswerNext ==
  \A t \in Threads :
    Answers'[t] = IF HasPopped(t)' THEN oldHead'[t]
                  ELSE IF pc'[t] = "refused" THEN Nil ELSE NoAnswer
BY DEF Answers, InCall, HasPopped

(* What a step that moves one thread does to what the callers hold and to  *)
(* the answers.                                                            *)
LEMMA MovesOneAnswer ==
  ASSUME PoolTypeOK, PoolTypeOK', NEW t \in Threads,
         \A u \in Threads : u # t => pc'[u] = pc[u] /\ oldHead'[u] = oldHead[u]
  PROVE  Answers' = [Answers EXCEPT ![t] = Answers'[t]]
<1>1. /\ Answers = [u \in Threads |-> Answers[u]]
      /\ Answers' = [u \in Threads |-> Answers'[u]]
  BY DEF Answers
<1>2. \A u \in Threads : u # t => Answers'[u] = Answers[u]
  BY AnswerAt, AnswerNext DEF HasPopped
<1> HIDE DEF Answers
<1> QED BY <1>1, <1>2

(* What the callers hold. *)
LEMMA HeldIs ==
  \A s : s \in Held <=> s \in live \cup lost \/ \E t \in Threads : Returns(t) /\ slot[t] = s
BY DEF Held, Returning, InCall, Returns

(* The same in the next state. *)
LEMMA HeldNext ==
  \A s : s \in Held' <=> s \in live' \cup lost' \/ \E t \in Threads : Returns(t)' /\ slot'[t] = s
BY DEF Held, Returning, InCall, Returns

(* While nobody starts or ends a return, the callers only gain what is     *)
(* constructed.                                                            *)
LEMMA HeldGains ==
  ASSUME NEW S, live' \cup lost' = (live \cup lost) \cup S,
         \A u \in Threads : /\ Returns(u)' <=> Returns(u)
                            /\ Returns(u) => slot'[u] = slot[u]
  PROVE  Held' = Held \cup S
<1>1. \A s : s \in Held' <=> s \in Held \cup S
  BY HeldIs, HeldNext
<1> QED BY <1>1

(* Every step of the pool is a step of the abstract stack or none at all.  *)
LEMMA PoolStepImplements ==
  ASSUME OneAllocator, PoolInv, PoolInv', PoolNext
  PROVE  [AbstractPool!Next]_AbstractPool!poolVars
<1>1. PICK t \in Threads :
        \/ AllocateCall(t)
        \/ \E s \in live : DeallocateCall(t, s)
        \/ PoolStep(t)
  BY DEF PoolNext
<1>2. /\ PoolTypeOK /\ LinksMatchFree /\ LocalsHold /\ Apart
      /\ free \in Seq(Slots) /\ PoolTypeOK'
  BY DEF PoolInv, PoolTypeOK
<1>3. \A u \in Threads : u # t => pc'[u] = pc[u] /\ oldHead'[u] = oldHead[u]
  BY <1>1, <1>2
     DEF PoolTypeOK, AllocateCall, DeallocateCall, PoolStep, PopReadNext, PopSwap, PopRetry,
         AllocateRefused, CountAllocated, Construct, PushLink, PushSwap, PushRetry,
         CountDeallocated, Reload, Return, Goto, locals
<1>4. Answers' = [Answers EXCEPT ![t] = Answers'[t]]
  BY <1>2, <1>3, MovesOneAnswer
<1>5. Answers'[t] = Answers[t] => Answers' = Answers
  BY <1>4 DEF Answers
<1>6. /\ AbstractPool!Next <=>
           \/ \E u \in Threads :
                \/ AbstractPool!Grant(u) \/ AbstractPool!Refuse(u) \/ AbstractPool!Answer(u)
           \/ \E s \in Held : AbstractPool!Deallocate(s)
      /\ UNCHANGED AbstractPool!poolVars <=> UNCHANGED <<free, Held, Answers>>
  BY DEF AbstractPool!Next, AbstractPool!poolVars, Answers
<1>7. /\ AbstractPool!Grant(t) <=>
           /\ Answers[t] = NoAnswer /\ free # <<>>
           /\ Answers' = [Answers EXCEPT ![t] = Head(free)] /\ free' = Tail(free) /\ Held' = Held
      /\ AbstractPool!Refuse(t) <=>
           /\ Answers[t] = NoAnswer /\ free = <<>>
           /\ Answers' = [Answers EXCEPT ![t] = Nil] /\ free' = free /\ Held' = Held
      /\ AbstractPool!Answer(t) <=>
           /\ Answers[t] # NoAnswer
           /\ Held' = IF Answers[t] = Nil THEN Held ELSE Held \cup {Answers[t]}
           /\ Answers' = [Answers EXCEPT ![t] = NoAnswer] /\ free' = free
  BY DEF AbstractPool!Grant, AbstractPool!Refuse, AbstractPool!Answer, Answers
<1>8. /\ Answers[t] = IF HasPopped(t) THEN oldHead[t] ELSE IF pc[t] = "refused" THEN Nil ELSE NoAnswer
      /\ Answers'[t] = IF HasPopped(t)' THEN oldHead'[t]
                       ELSE IF pc'[t] = "refused" THEN Nil ELSE NoAnswer
  BY AnswerAt, AnswerNext
<1>9. freeList = Nil <=> free = <<>>
  <2>1. free # <<>> => 1 \in 1 .. Len(free) /\ free[1] \in Slots
    BY <1>2, EmptyList
  <2> QED BY <1>2, <2>1, PoolAssumption DEF LinksMatchFree
<1>10. ASSUME pc'[t] = PopLabel, oldHead'[t] = freeList, ~HasPopped(t), pc[t] # "refused",
              UNCHANGED <<live, lost, slot, free>>, ~Returns(t)
       PROVE  AbstractPool!Refuse(t) \/ UNCHANGED <<free, Held, Answers>>
  <2>1. Held' = Held
    <3>1. \A u \in Threads : /\ Returns(u)' <=> Returns(u)
                             /\ Returns(u) => slot'[u] = slot[u]
      BY <1>3, <1>10 DEF Returns, PopLabel
    <3>2. live' \cup lost' = (live \cup lost) \cup {}
      BY <1>10
    <3>3. Held' = Held \cup {}
      BY <3>1, <3>2, HeldGains
    <3> QED BY <3>3
  <2>2. CASE freeList = Nil
    BY <1>4, <1>7, <1>8, <1>9, <1>10, <2>1, <2>2 DEF PopLabel, HasPopped
  <2>3. CASE freeList # Nil
    BY <1>5, <1>8, <1>10, <2>1, <2>3 DEF PopLabel, HasPopped
  <2> QED BY <2>2, <2>3
<1>11. CASE AllocateCall(t)
  <2>1. pc'[t] = PopLabel /\ oldHead'[t] = freeList
    BY <1>2, <1>11 DEF PoolTypeOK, AllocateCall, Reload, Goto
  <2>2. AbstractPool!Refuse(t) \/ UNCHANGED <<free, Held, Answers>>
    BY <1>10, <1>11, <2>1 DEF AllocateCall, HasPopped, Returns
  <2> QED BY <1>6, <2>2
<1>12. CASE PopRetry(t)
  <2>1. pc'[t] = PopLabel /\ oldHead'[t] = freeList
    BY <1>2, <1>12 DEF PoolTypeOK, PopRetry, Reload, Goto
  <2>2. AbstractPool!Refuse(t) \/ UNCHANGED <<free, Held, Answers>>
    BY <1>10, <1>12, <2>1 DEF PopRetry, HasPopped, Returns
  <2> QED BY <1>6, <2>2
<1>13. CASE PopReadNext(t) \/ CountAllocated(t)
  <2>1. Answers'[t] = Answers[t]
    BY <1>2, <1>8, <1>13 DEF PoolTypeOK, PopReadNext, CountAllocated, Goto, HasPopped, locals
  <2>2. UNCHANGED <<live, lost, slot, free>> /\ ~Returns(t) /\ ~Returns(t)'
    BY <1>2, <1>13 DEF PoolTypeOK, PopReadNext, CountAllocated, Goto, Returns, locals
  <2>3. Held' = Held
    <3>1. \A u \in Threads : /\ Returns(u)' <=> Returns(u)
                             /\ Returns(u) => slot'[u] = slot[u]
      BY <1>3, <2>2 DEF Returns
    <3>2. live' \cup lost' = (live \cup lost) \cup {}
      BY <2>2
    <3>3. Held' = Held \cup {}
      BY <3>1, <3>2, HeldGains
    <3> QED BY <3>3
  <2> QED BY <1>5, <1>6, <2>1, <2>2, <2>3
<1>14. CASE PopSwap(t)
  <2>1. free # <<>> /\ freeList = Head(free) /\ oldHead[t] = Head(free) /\ free' = Tail(free)
    <3>1. IsFree(oldHead[t]) /\ freeList = oldHead[t]
      BY <1>2, <1>14 DEF LocalsHold, PopSwap
    <3>2. free # <<>> /\ freeList = free[1]
      BY <1>2, <3>1, EmptyList DEF IsFree, LinksMatchFree
    <3>3. SubSeq(free, 2, Len(free)) = Tail(free)
      BY <1>2, <3>2, DropFirst
    <3> QED BY <1>2, <1>14, <3>1, <3>2, <3>3 DEF PopSwap
  <2>2. Answers[t] = NoAnswer /\ Answers'[t] = Head(free)
    BY <1>2, <1>8, <1>14, <2>1 DEF PoolTypeOK, PopSwap, Goto, HasPopped, locals
  <2>3. UNCHANGED <<live, lost, slot>> /\ ~Returns(t) /\ ~Returns(t)'
    BY <1>2, <1>14 DEF PoolTypeOK, PopSwap, Goto, Returns, locals
  <2>4. Held' = Held
    BY <1>3, <2>3, HeldIs, HeldNext DEF Returns
  <2>5. AbstractPool!Grant(t)
    BY <1>4, <1>7, <2>1, <2>2, <2>4
  <2> QED BY <1>6, <2>5
<1>15. CASE AllocateRefused(t) \/ Construct(t)
  <2>1. Answers'[t] = NoAnswer
    BY <1>2, <1>8, <1>15 DEF PoolTypeOK, AllocateRefused, Construct, Return, Goto, HasPopped
  <2>2. ~Returns(t) /\ ~Returns(t)' /\ free' = free
    BY <1>2, <1>15 DEF PoolTypeOK, AllocateRefused, Construct, Return, Goto, Returns
  <2>3. \A u \in Threads : /\ Returns(u)' <=> Returns(u)
                           /\ Returns(u) => slot'[u] = slot[u]
    BY <1>2, <1>3, <1>15, <2>2 DEF PoolTypeOK, AllocateRefused, Construct, Return, Goto, Returns
  <2>4. CASE AllocateRefused(t)
    <3>1. Answers[t] = Nil
      BY <1>8, <2>4 DEF AllocateRefused, HasPopped
    <3>2. Held' = Held
      <4>1. live' \cup lost' = (live \cup lost) \cup {}
        BY <2>4 DEF AllocateRefused
      <4>2. Held' = Held \cup {}
        BY <2>3, <4>1, HeldGains
      <4> QED BY <4>2
    <3> QED BY <1>4, <1>6, <1>7, <2>1, <2>2, <3>1, <3>2, PoolAssumption
  <2>5. CASE Construct(t)
    <3>1. Answers[t] = oldHead[t] /\ oldHead[t] \in Slots
      BY <1>2, <1>8, <2>5 DEF Construct, HasPopped, LocalsHold
    <3>2. live' \cup lost' = (live \cup lost) \cup {oldHead[t]}
      BY <2>5 DEF Construct
    <3>3. Held' = Held \cup {oldHead[t]}
      BY <2>3, <3>2, HeldGains
    <3> QED BY <1>4, <1>6, <1>7, <2>1, <2>2, <3>1, <3>3, PoolAssumption
  <2> QED BY <1>15, <2>4, <2>5
<1>16. CASE \E s \in live : DeallocateCall(t, s)
  <2>1. PICK s \in live : DeallocateCall(t, s)
    BY <1>16
  <2>2. /\ pc[t] = "idle" /\ pc'[t] = "link" /\ slot'[t] = s /\ live' = live \ {s}
        /\ lost' = lost /\ free' = free
        /\ \A u \in Threads : u # t => slot'[u] = slot[u]
    BY <1>2, <2>1 DEF PoolTypeOK, DeallocateCall, Reload, Goto
  <2>3. Held' = Held
    BY <1>2, <1>3, <2>2, HeldIs, HeldNext DEF Returns
  <2>4. Answers'[t] = Answers[t]
    BY <1>8, <2>2 DEF HasPopped
  <2> QED BY <1>5, <1>6, <2>2, <2>3, <2>4
<1>17. CASE PushLink(t) \/ PushRetry(t)
  <2>1. Answers'[t] = Answers[t]
    BY <1>2, <1>8, <1>17 DEF PoolTypeOK, PushLink, PushRetry, Reload, Goto, HasPopped, locals
  <2>2. UNCHANGED <<live, lost, slot, free>> /\ Returns(t) /\ Returns(t)'
    BY <1>2, <1>17 DEF PoolTypeOK, PushLink, PushRetry, Reload, Goto, Returns, locals
  <2>3. Held' = Held
    BY <1>3, <2>2, HeldIs, HeldNext DEF Returns
  <2> QED BY <1>5, <1>6, <2>1, <2>2, <2>3
<1>18. CASE PushSwap(t)
  <2>1. /\ UNCHANGED <<live, lost, slot>> /\ Returns(t) /\ ~Returns(t)'
        /\ free' = <<slot[t]>> \o free
    BY <1>2, <1>18 DEF PoolTypeOK, PushSwap, Goto, Returns, locals
  <2>2. Answers'[t] = Answers[t]
    BY <1>2, <1>8, <1>18 DEF PoolTypeOK, PushSwap, Goto, HasPopped, locals
  <2>3. slot[t] \in Held
    BY <2>1, HeldIs
  <2>4. Held' = Held \ {slot[t]}
    BY <1>2, <1>3, <2>1, HeldIs, HeldNext DEF Apart, Returns
  <2>5. AbstractPool!Deallocate(slot[t])
    BY <1>5, <2>1, <2>2, <2>3, <2>4 DEF AbstractPool!Deallocate, Answers
  <2> QED BY <1>6, <2>3, <2>5
<1>19. CASE CountDeallocated(t)
  <2>1. Answers'[t] = Answers[t]
    BY <1>2, <1>8, <1>19 DEF PoolTypeOK, CountDeallocated, Return, Goto, HasPopped
  <2>2. UNCHANGED <<live, lost, free>> /\ ~Returns(t) /\ ~Returns(t)'
        /\ \A u \in Threads : u # t => slot'[u] = slot[u]
    BY <1>2, <1>19 DEF PoolTypeOK, CountDeallocated, Return, Goto, Returns
  <2>3. Held' = Held
    BY <1>3, <2>2, HeldIs, HeldNext, SMTT(30) DEF Returns
  <2> QED BY <1>5, <1>6, <2>1, <2>2, <2>3
<1> QED
  BY <1>1, <1>11, <1>12, <1>13, <1>14, <1>15, <1>16, <1>17, <1>18, <1>19 DEF PoolStep

(* allocate and deallocate take effect at one point each: with one         *)
(* allocating thread every behaviour of the pool is one of the abstract    *)
(* stack, so a call is refused only when no slot is free.                  *)
THEOREM PoolImplementsStack ==
  ASSUME OneAllocator, IsFiniteSet(Threads)
  PROVE  PoolSpec => ImplementsSlotPool
<1>1. PoolInit => AbstractPool!Init
  <2> SUFFICES ASSUME PoolInit  PROVE AbstractPool!Init
    OBVIOUS
  <2>1. Held = {}
    BY HeldIs DEF PoolInit, Returns
  <2> QED BY <2>1 DEF PoolInit, AbstractPool!Init, InCall, Slots
<1>2. PoolInv /\ PoolInv' /\ [PoolNext]_pool => [AbstractPool!Next]_AbstractPool!poolVars
  <2> SUFFICES ASSUME PoolInv, PoolInv', [PoolNext]_pool
               PROVE  [AbstractPool!Next]_AbstractPool!poolVars
    OBVIOUS
  <2>1. CASE PoolNext
    BY <2>1, PoolStepImplements
  <2>2. CASE UNCHANGED pool
    BY <2>2 DEF pool, locals, AbstractPool!poolVars, Held, Returning, InCall
  <2> QED BY <2>1, <2>2
<1> QED
  BY <1>1, <1>2, PoolInvariant, PTL DEF PoolSpec, ImplementsSlotPool, AbstractPool!Spec

-----------------------------------------------------------------------------
(* The arena *)

(* Division with a remainder, among the natural numbers. *)
LEMMA Division ==
  ASSUME NEW n \in Nat, NEW a \in Nat \ {0}
  PROVE  /\ n % a \in 0 .. a - 1
         /\ \E q \in Nat : n = a * q + (n % a)
         /\ n < a => n % a = n
<1>1. n \div a \in Nat /\ n = a * (n \div a) + (n % a) /\ n % a \in 0 .. a - 1
  BY Z3
<1>2. n < a => n % a = n
  BY Z3
<1> QED BY <1>1, <1>2

(* Without a remainder it is a multiple. *)
LEMMA Quotient ==
  ASSUME NEW n \in Nat, NEW a \in Nat \ {0}, n % a = 0
  PROVE  \E q \in Nat : n = a * q
<1>1. PICK q \in Nat : n = a * q + (n % a)
  BY Division
<1>2. a * q \in Nat
  OBVIOUS
<1>3. n = a * q + 0
  BY <1>1
<1>4. n = a * q
  BY <1>2, <1>3
<1> QED BY <1>4

(* A multiple has no remainder. *)
LEMMA Multiple ==
  ASSUME NEW q \in Nat, NEW a \in Nat \ {0}
  PROVE  (a * q) % a = 0
BY Z3

(* The sum of two multiples is one. *)
LEMMA SumOfMultiples ==
  ASSUME NEW a \in Nat \ {0}, NEW m \in Nat, NEW n \in Nat, m % a = 0, n % a = 0
  PROVE  (m + n) % a = 0
<1>1. PICK p \in Nat : m = a * p
  BY Quotient
<1>2. PICK q \in Nat : n = a * q
  BY Quotient
<1>3. m + n = a * (p + q) /\ p + q \in Nat
  BY <1>1, <1>2
<1> QED BY <1>3, Multiple

(* A multiple of a multiple is one. *)
LEMMA MultipleOfMultiple ==
  ASSUME NEW a \in Nat \ {0}, NEW m \in Nat \ {0}, NEW n \in Nat, m % a = 0, n % m = 0
  PROVE  n % a = 0
<1>1. PICK p \in Nat : m = a * p
  BY Quotient
<1>2. PICK q \in Nat : n = m * q
  BY Quotient
<1>3. n = a * (p * q) /\ p * q \in Nat
  BY <1>1, <1>2, Z3
<1> QED BY <1>3, Multiple

(* AlignUp gives the first multiple of the alignment that is not below n,  *)
(* as long as the sum in it does not wrap.                                 *)
LEMMA AlignUpIsFirstMultiple ==
  ASSUME NEW n \in Nat, NEW a \in Nat \ {0}, n + a <= WordSize, WordSize \in Nat
  PROVE  /\ AlignUp(n, a) \in Nat
         /\ AlignUp(n, a) % a = 0
         /\ n <= AlignUp(n, a)
         /\ AlignUp(n, a) < n + a
         /\ \A m \in Nat : n <= m /\ m % a = 0 => AlignUp(n, a) <= m
<1> DEFINE end == n + a - 1
<1>1. end \in Nat /\ end < WordSize
  OBVIOUS
<1>2. end % WordSize = end
  <2>1. WordSize \in Nat \ {0}
    BY <1>1
  <2> HIDE DEF end
  <2> QED BY <1>1, <2>1, Division
<1>3. AlignUp(n, a) = end - (end % a)
  BY <1>2 DEF AlignUp
<1>4. PICK q \in Nat : end = a * q + (end % a)
  BY <1>1, Division
<1>5. end % a \in 0 .. a - 1
  BY <1>1, Division
<1> DEFINE r == end % a
<1>6. a * q \in Nat /\ AlignUp(n, a) = a * q
  <2>1. a * q \in Nat
    OBVIOUS
  <2> QED BY <1>1, <1>3, <1>4, <1>5, <2>1
<1>7. (a * q) % a = 0
  BY Multiple
<1>8. a * q \in Nat /\ a * q >= n /\ a * q < n + a
  <2>1. r \in 0 .. a - 1 /\ n + a - 1 = a * q + r
    BY <1>4, <1>5
  <2> HIDE DEF r
  <2> QED BY <1>6, <2>1
<1>9. ASSUME NEW m \in Nat, n <= m, m % a = 0
      PROVE  a * q <= m
  <2>1. PICK p \in Nat : m = a * p
    BY <1>9, Quotient
  <2>2. SUFFICES ASSUME m < a * q  PROVE FALSE
    BY <1>8
  <2>3. p < q
    BY <2>1, <2>2, Z3
  <2>4. a * (p + 1) <= a * q
    BY <2>3, Z3
  <2>5. a * (p + 1) = m + a
    BY <2>1, Z3
  <2> QED BY <1>8, <1>9, <2>4, <2>5
<1> QED BY <1>6, <1>7, <1>8, <1>9

(* Whatever mix of sizes and alignments is asked for, the blocks handed    *)
(* out since the last reset lie one after the other inside the buffer,     *)
(* each aligned in memory (LinearArena::allocate, reset).                  *)
THEOREM ArenaBlocksSound == ArenaSpec => []BlocksSound
<1>1. ArenaInit => BlocksSound
  BY ArenaAssumption DEF ArenaInit, BlocksSound, ArenaTypeOK
<1>2. ASSUME BlocksSound, NEW a \in Alignments, NEW size \in Sizes, ArenaAllocate(a, size)
      PROVE  BlocksSound'
  <2> DEFINE aligned == AlignUp(offset, a)
             block == [at |-> aligned, size |-> size, alignment |-> a]
             n == Len(blocks)
  <2>1. /\ ArenaSize \in Nat /\ CacheLine \in Nat \ {0} /\ WordSize \in Nat
        /\ a \in Nat \ {0} /\ size \in Nat /\ CacheLine % a = 0
        /\ ArenaSize + a + size < WordSize
        /\ base \in Nat /\ base % CacheLine = 0
        /\ offset \in Nat /\ offset <= ArenaSize
    BY <1>2, ArenaAssumption DEF BlocksSound, ArenaTypeOK
  <2>2. aligned \in Nat /\ aligned % a = 0 /\ offset <= aligned /\ aligned < offset + a
    BY <2>1, AlignUpIsFirstMultiple
  <2> HIDE DEF aligned
  <2>3. /\ (aligned + size) % WordSize = aligned + size
        /\ offset' = aligned + size /\ aligned + size <= ArenaSize
        /\ blocks' = Append(blocks, block) /\ base' = base
    <3>1. aligned + size \in Nat /\ aligned + size < WordSize /\ WordSize \in Nat \ {0}
      BY <2>1, <2>2
    <3>2. (aligned + size) % WordSize = aligned + size
      BY <3>1, Division
    <3> QED BY <1>2, <3>2 DEF ArenaAllocate, aligned
  <2>4. (base + aligned) % a = 0
    <3>1. base % a = 0
      BY <2>1, MultipleOfMultiple
    <3> QED BY <2>1, <2>2, <3>1, SumOfMultiples
  <2>5. /\ n \in Nat
        /\ block \in [at : 0 .. ArenaSize, size : Nat, alignment : Alignments]
        /\ blocks \in Seq([at : 0 .. ArenaSize, size : Nat, alignment : Alignments])
    BY <1>2, <2>1, <2>2, <2>3 DEF BlocksSound, ArenaTypeOK
  <2>6. /\ blocks' \in Seq([at : 0 .. ArenaSize, size : Nat, alignment : Alignments])
        /\ DOMAIN blocks = 1 .. n /\ DOMAIN blocks' = 1 .. n + 1
        /\ \A i \in 1 .. n : blocks'[i] = blocks[i]
        /\ blocks'[n + 1] = block
    BY <2>3, <2>5
  <2>7. ArenaTypeOK'
    BY <1>2, <2>1, <2>2, <2>3, <2>6 DEF BlocksSound, ArenaTypeOK
  <2>8. ASSUME NEW i \in 1 .. n + 1
        PROVE  /\ (base' + blocks'[i].at) % blocks'[i].alignment = 0
               /\ End(blocks'[i]) <= offset'
               /\ \A j \in 1 .. i - 1 : End(blocks'[j]) <= blocks'[i].at
    <3>1. \A j \in 1 .. n : /\ (base + blocks[j].at) % blocks[j].alignment = 0
                            /\ End(blocks[j]) <= offset
                            /\ \A k \in 1 .. j - 1 : End(blocks[k]) <= blocks[j].at
      BY <1>2, <2>6 DEF BlocksSound
    <3>2. \A j \in 1 .. n : End(blocks[j]) \in Nat
      <4>1. ASSUME NEW j \in 1 .. n  PROVE blocks[j].at \in Nat /\ blocks[j].size \in Nat
        <5>1. blocks[j] \in [at : 0 .. ArenaSize, size : Nat, alignment : Alignments]
          BY <2>5, Entry
        <5> QED BY <2>1, <5>1
      <4> QED BY <4>1 DEF End
    <3>3. CASE i = n + 1
      <4>1. \A j \in 1 .. n : End(blocks[j]) <= aligned
        BY <2>1, <2>2, <3>1, <3>2
      <4> QED BY <2>3, <2>4, <2>5, <2>6, <3>3, <4>1, <2>1, <2>2 DEF End
    <3>4. CASE i # n + 1
      <4>1. i \in 1 .. n /\ \A j \in 1 .. i - 1 : j \in 1 .. n
        BY <2>5, <3>4
      <4>2. End(blocks[i]) <= offset'
        <5>1. End(blocks[i]) \in Nat /\ End(blocks[i]) <= offset
          BY <3>1, <3>2, <4>1
        <5>2. offset' = aligned + size
          BY <2>3
        <5> HIDE DEF End
        <5> QED BY <2>1, <2>2, <5>1, <5>2
      <4> QED BY <2>3, <2>6, <3>1, <4>1, <4>2
    <3> QED BY <3>3, <3>4
  <2> QED BY <2>6, <2>7, <2>8 DEF BlocksSound, End
<1>3. BlocksSound /\ ArenaReset => BlocksSound'
  BY ArenaAssumption DEF BlocksSound, ArenaTypeOK, ArenaReset
<1>4. BlocksSound /\ UNCHANGED arena => BlocksSound'
  BY DEF BlocksSound, ArenaTypeOK, arena, End
<1>5. BlocksSound /\ [ArenaNext]_arena => BlocksSound'
  BY <1>2, <1>3, <1>4 DEF ArenaNext
<1> QED BY <1>1, <1>5, PTL DEF ArenaSpec
=============================================================================
