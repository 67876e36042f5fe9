-------------------------- MODULE SPSCQueue_proofs --------------------------
(***************************************************************************)
(* Proofs about SPSCQueue and the logger on top of it, for every capacity, *)
(* set of elements and length of run: typing, the inductive invariants,    *)
(* and the safety properties that follow from them.                        *)
(*                                                                         *)
(* Of the logger: nothing is written out of order, the writer leaves       *)
(* nothing behind, and flush leaves at most one message.  The invariant of *)
(* the ring carries over, and ties what each thread has loaded to the      *)
(* indices it is about to compare.                                         *)
(***************************************************************************)
EXTENDS AsyncLogger, TLAPS

(* NextIndex steps around the ring (INDEX_MASK arithmetic). *)
LEMMA NextIndexSteps ==
  ASSUME NEW i \in Index
  PROVE  /\ NextIndex(i) = IF i = Capacity - 1 THEN 0 ELSE i + 1
         /\ NextIndex(i) \in Index
  BY CapacityAssumption DEF NextIndex, Index

(* Distance stays below Capacity and is zero only between equal indices. *)
LEMMA DistanceRange ==
  ASSUME NEW i \in Index, NEW j \in Index
  PROVE  /\ Distance(i, j) \in 0 .. Capacity - 1
         /\ Distance(i, j) = 0 <=> i = j
  BY CapacityAssumption DEF Distance, Index

(* Zero is an index. *)
LEMMA ZeroIndex == 0 \in Index
  BY CapacityAssumption DEF Index

(* Distances grow by one as their far end steps, until it meets the near   *)
(* end, and shrink by one as their near end steps.                         *)
LEMMA FarEndSteps ==
  ASSUME NEW i \in Index, NEW j \in Index
  PROVE  Distance(i, NextIndex(j)) = IF NextIndex(j) = i THEN 0 ELSE Distance(i, j) + 1
  BY NextIndexSteps, CapacityAssumption DEF Distance, Index

LEMMA NearEndSteps ==
  ASSUME NEW i \in Index, NEW j \in Index
  PROVE  Distance(NextIndex(i), j) = IF i = j THEN Capacity - 1 ELSE Distance(i, j) - 1
  BY NextIndexSteps, CapacityAssumption DEF Distance, Index

(* An index is followed by i exactly when it is as far ahead of i as can be. *)
LEMMA FullDistance ==
  ASSUME NEW i \in Index, NEW j \in Index
  PROVE  NextIndex(j) = i <=> Distance(i, j) = Capacity - 1
  BY NextIndexSteps, CapacityAssumption DEF Distance, Index

(* A distance determines its far end. *)
LEMMA DistanceInjective ==
  ASSUME NEW i \in Index, NEW j \in Index, NEW k \in Index, Distance(i, j) = Distance(i, k)
  PROVE  j = k
  BY CapacityAssumption DEF Distance, Index

(* What a load moves stays in ring order with the other indices: the       *)
(* producer's view of the head (near end) and the consumer's view of the   *)
(* tail (middle).                                                          *)
LEMMA ViewAdvances ==
  ASSUME NEW first \in Index, NEW seen \in Index, NEW now \in Index, NEW i \in Loadable(seen, now),
         Distance(first, seen) + Distance(seen, now) = Distance(first, now)
  PROVE  /\ i \in Index
         /\ Distance(first, i) + Distance(i, now) = Distance(first, now)
  BY CapacityAssumption DEF Distance, Index, Loadable

LEMMA ViewStaysBehind ==
  ASSUME NEW seen \in Index, NEW now \in Index, NEW last \in Index, NEW i \in Loadable(seen, now),
         Distance(seen, now) + Distance(now, last) = Distance(seen, last)
  PROVE  /\ i \in Index
         /\ Distance(i, now) + Distance(now, last) = Distance(i, last)
  BY CapacityAssumption DEF Distance, Index, Loadable

(* The ranges of the distances the invariant speaks of. *)
LEMMA Ranges ==
  ASSUME TypeOK
  PROVE  /\ Distance(head, tail) \in 0 .. Capacity - 1
         /\ Distance(headSeen, head) \in 0 .. Capacity - 1
         /\ Distance(headSeen, tail) \in 0 .. Capacity - 1
         /\ Distance(head, tailSeen) \in 0 .. Capacity - 1
         /\ Distance(tailSeen, tail) \in 0 .. Capacity - 1
         /\ Distance(head, head) = 0 /\ Distance(tail, tail) = 0
         /\ head = tail <=> Distance(head, tail) = 0
         /\ head = tailSeen <=> Distance(head, tailSeen) = 0
  BY DistanceRange DEF TypeOK

(* Where a store of the tail is about to happen, there is room for it. *)
LEMMA RoomToPublish ==
  ASSUME TypeOK, ViewsBehind, NextIndex(tail) # headSeen
  PROVE  Distance(head, tail) < Capacity - 1 /\ NextIndex(tail) # head
<1>1. Distance(headSeen, tail) # Capacity - 1
  BY FullDistance DEF TypeOK
<1>2. Distance(head, tail) < Capacity - 1
  BY <1>1, Ranges, CapacityAssumption DEF ViewsBehind
<1> QED
  BY <1>2, FullDistance, CapacityAssumption DEF TypeOK

-----------------------------------------------------------------------------
Inv == TypeOK /\ RingInvariant

(* An empty ring satisfies the invariant. *)
LEMMA RingInit == Init => Inv
  BY ZeroIndex, DistanceRange
     DEF Init, Inv, TypeOK, RingInvariant, DeliversInOrder, IndicesCountElements,
         ViewsBehind, Stored, Unused, InCall

(* Both threads preserve the invariant: one step per action. *)
LEMMA RingStep ==
  ASSUME Inv, [Next]_vars
  PROVE  Inv'
<1> USE DEF Inv, TypeOK, RingInvariant
<1>a. /\ Distance(head, tail) \in 0 .. Capacity - 1
      /\ Distance(headSeen, head) \in 0 .. Capacity - 1
      /\ Distance(headSeen, tail) \in 0 .. Capacity - 1
      /\ Distance(head, tailSeen) \in 0 .. Capacity - 1
      /\ Distance(tailSeen, tail) \in 0 .. Capacity - 1
      /\ Distance(head, head) = 0 /\ Distance(tail, tail) = 0
      /\ head = tail <=> Distance(head, tail) = 0
      /\ head = tailSeen <=> Distance(head, tailSeen) = 0
  BY Ranges
<1>b. Capacity \in Nat \ {0}
  BY CapacityAssumption
<1>c. \A i \in Index : /\ Distance(head, i) \in 0 .. Capacity - 1
                       /\ i = head <=> Distance(head, i) = 0
                       /\ Distance(head, i) = Distance(head, tail) => i = tail
  BY DistanceRange, DistanceInjective
<1>1. ASSUME NEW v \in Values, NEW waits \in BOOLEAN, PushCall(v, waits) PROVE Inv'
  BY <1>1 DEF PushCall, consumerVars, DeliversInOrder, IndicesCountElements,
       ViewsBehind, Stored, Unused, InCall
<1>2. CASE PushFull
  <2>1. /\ headSeen' \in Index
        /\ Distance(headSeen', head) + Distance(head, tail) = Distance(headSeen', tail)
    <3>1. PICK h \in Loadable(headSeen, head) : headSeen' = h
      BY <1>2 DEF PushFull
    <3> QED
      BY <3>1, ViewStaysBehind DEF ViewsBehind
  <2> QED
    BY <2>1, <1>2 DEF PushFull, consumerVars, DeliversInOrder, IndicesCountElements,
       ViewsBehind, Stored, Unused, InCall
<1>3. CASE PushRoom
  <2>1. /\ headSeen' \in Index
        /\ Distance(headSeen', head) + Distance(head, tail) = Distance(headSeen', tail)
    <3>1. PICK h \in Loadable(headSeen, head) : headSeen' = h
      BY <1>3 DEF PushRoom
    <3> QED
      BY <3>1, ViewStaysBehind DEF ViewsBehind
  <2> QED
    BY <2>1, <1>3 DEF PushRoom, consumerVars, DeliversInOrder, IndicesCountElements,
       ViewsBehind, Stored, Unused, InCall
<1>4. CASE PushConstruct
  <2>1. TypeOK'
    BY <1>4 DEF PushConstruct, consumerVars
  <2>2. DeliversInOrder' /\ IndicesCountElements' /\ ViewsBehind'
    BY <1>4 DEF PushConstruct, consumerVars, DeliversInOrder, IndicesCountElements, ViewsBehind
  <2>3. Stored'
    BY <1>4, <1>a, <1>c DEF PushConstruct, consumerVars, Stored
  <2>4. Unused'
    BY <1>4 DEF PushConstruct, consumerVars, Unused
  <2>5. InCall'
    BY <1>4, <1>a, DistanceRange DEF PushConstruct, consumerVars, InCall, ViewsBehind
  <2> QED
    BY <2>1, <2>2, <2>3, <2>4, <2>5
<1>5. CASE PushPublish
  <2>1. /\ tail' = NextIndex(tail) /\ tail' \in Index
        /\ pushing \in Values
        /\ NextIndex(tail) # headSeen
    BY <1>5, NextIndexSteps DEF PushPublish, InCall
  <2>2. Distance(head, tail) < Capacity - 1 /\ tail' # head
    BY <2>1, RoomToPublish
  <2>3. TypeOK'
    BY <1>5, <2>1 DEF PushPublish, consumerVars
  <2>4. /\ Distance(head, tail') = Distance(head, tail) + 1
        /\ Distance(headSeen, tail') = Distance(headSeen, tail) + 1
    BY <2>1, <2>2, FarEndSteps
  <2>5. DeliversInOrder' /\ IndicesCountElements'
    BY <1>5, <2>1, <2>4 DEF PushPublish, consumerVars, DeliversInOrder, IndicesCountElements
  <2>6. ViewsBehind'
    <3>1. tail' # tailSeen
      BY <2>1, <2>4, <1>a, <1>b DEF ViewsBehind
    <3>2. Distance(tailSeen, tail') = Distance(tailSeen, tail) + 1
      BY <3>1, <2>1, FarEndSteps
    <3> QED
      <4>1. /\ head' = head /\ headSeen' = headSeen /\ tailSeen' = tailSeen
        BY <1>5 DEF PushPublish, consumerVars
      <4>2. /\ Distance(headSeen, head) + Distance(head, tail') = Distance(headSeen, tail')
            /\ Distance(head, tailSeen) + Distance(tailSeen, tail') = Distance(head, tail')
        BY <3>2, <2>4, <1>a, <1>b, SMTT(30) DEF ViewsBehind
      <4> QED
        BY <4>1, <4>2 DEF ViewsBehind
  <2>7. slots[tail] = pushing
    BY <1>5, <1>a DEF PushPublish, Unused
  <2>8. Stored'
    <3> SUFFICES ASSUME NEW i \in Index, Distance(head, i) < Distance(head, tail)'
                 PROVE  slots[i] = IF cpc = "release" /\ i = head THEN Raw
                          ELSE accepted'[Len(taken) + 1 + Distance(head, i)]
      BY <1>5 DEF PushPublish, consumerVars, Stored
    <3>1. CASE i = tail
      <4>1. cpc = "release" => i # head
        BY <3>1, <1>a DEF InCall, ViewsBehind
      <4> QED
        BY <1>5, <3>1, <4>1, <2>7, <1>a DEF PushPublish, IndicesCountElements, DeliversInOrder
    <3>2. CASE i # tail
      <4>1. Distance(head, i) < Distance(head, tail)
        BY <3>2, <1>5, <2>4, <1>a, <1>c DEF PushPublish
      <4>2. Len(taken) + 1 + Distance(head, i) \in 1 .. Len(accepted)
        BY <4>1, <1>a, <1>c DEF IndicesCountElements, DeliversInOrder
      <4> QED
        BY <1>5, <4>1, <4>2, <2>1 DEF PushPublish, Stored
    <3> QED
      BY <3>1, <3>2
  <2>9. Unused'
    <3> SUFFICES ASSUME NEW i \in Index, Distance(head, i) >= Distance(head, tail')
                 PROVE  slots[i] = Raw
      BY <1>5 DEF PushPublish, Unused
    <3>1. Distance(head, i) >= Distance(head, tail) /\ i # tail
      BY <2>4, <1>a, <1>b, <1>c
    <3> QED
      BY <3>1 DEF Unused
  <2>10. InCall'
    <3>1. cpc \in {"destroy", "release"} => accepted'[Len(taken) + 1] = accepted[Len(taken) + 1]
      BY <1>5, <2>1, <1>a DEF PushPublish, InCall, IndicesCountElements, DeliversInOrder, ViewsBehind
    <3> QED
      BY <1>5, <3>1 DEF PushPublish, consumerVars, InCall
  <2> QED
    BY <2>3, <2>5, <2>6, <2>8, <2>9, <2>10
<1>6. ASSUME NEW waits \in BOOLEAN, PopCall(waits) PROVE Inv'
  BY <1>6 DEF PopCall, producerVars, DeliversInOrder, IndicesCountElements,
       ViewsBehind, Stored, Unused, InCall
<1>7. CASE PopEmpty
  <2>1. /\ tailSeen' \in Index
        /\ Distance(head, tailSeen') + Distance(tailSeen', tail) = Distance(head, tail)
    <3>1. PICK t \in Loadable(tailSeen, tail) : tailSeen' = t
      BY <1>7 DEF PopEmpty
    <3> QED
      BY <3>1, ViewAdvances DEF ViewsBehind
  <2> QED
    BY <2>1, <1>7 DEF PopEmpty, producerVars, DeliversInOrder, IndicesCountElements,
       ViewsBehind, Stored, Unused, InCall
<1>8. CASE PopFound
  <2>1. /\ tailSeen' \in Index
        /\ Distance(head, tailSeen') + Distance(tailSeen', tail) = Distance(head, tail)
    <3>1. PICK t \in Loadable(tailSeen, tail) : tailSeen' = t
      BY <1>8 DEF PopFound
    <3> QED
      BY <3>1, ViewAdvances DEF ViewsBehind
  <2> QED
    BY <2>1, <1>8 DEF PopFound, producerVars, DeliversInOrder, IndicesCountElements,
       ViewsBehind, Stored, Unused, InCall
<1>9. CASE PopMove
  <2>1. popping' = accepted[Len(taken) + 1]
    BY <1>9, <1>a, <1>c DEF PopMove, Stored, InCall, ViewsBehind
  <2> QED
    BY <1>9, <2>1 DEF PopMove, producerVars, DeliversInOrder, IndicesCountElements,
       ViewsBehind, Stored, Unused, InCall
<1>10. CASE PopDestroy
  <2>1. head # tail
    BY <1>10, <1>a DEF PopDestroy, InCall, ViewsBehind
  <2>2. TypeOK'
    BY <1>10 DEF PopDestroy, producerVars
  <2>3. DeliversInOrder' /\ IndicesCountElements' /\ ViewsBehind' /\ InCall'
    BY <1>10 DEF PopDestroy, producerVars, DeliversInOrder, IndicesCountElements, ViewsBehind, InCall
  <2>4. Stored'
    BY <1>10 DEF PopDestroy, producerVars, Stored
  <2>5. Unused'
    BY <1>10, <2>1, <1>a, <1>c DEF PopDestroy, producerVars, Unused
  <2> QED
    BY <2>2, <2>3, <2>4, <2>5
<1>11. CASE PopRelease
  <2>1. /\ head' = NextIndex(head) /\ head' \in Index
        /\ head # tail /\ head # tailSeen
        /\ popping = accepted[Len(taken) + 1]
    BY <1>11, <1>a, NextIndexSteps DEF PopRelease, InCall, ViewsBehind
  <2>2. Len(taken) + 1 \in 1 .. Len(accepted)
    BY <2>1, <1>a DEF IndicesCountElements, DeliversInOrder
  <2>3. TypeOK'
    BY <1>11, <2>1, <2>2 DEF PopRelease, producerVars
  <2>4. /\ Distance(head', tail) = Distance(head, tail) - 1
        /\ Distance(head', tailSeen) = Distance(head, tailSeen) - 1
    BY <2>1, NearEndSteps
  <2>5. \A i \in Index : Distance(head', i) = IF i = head THEN Capacity - 1 ELSE Distance(head, i) - 1
    BY <2>1, NearEndSteps
  <2>6. DeliversInOrder' /\ IndicesCountElements'
    BY <1>11, <2>1, <2>2, <2>4, <1>a DEF PopRelease, producerVars, DeliversInOrder, IndicesCountElements
  <2>7. ViewsBehind'
    <3>1. head' # headSeen
      <4>1. Distance(headSeen, head) # Capacity - 1
        BY <2>1, <1>a DEF ViewsBehind
      <4> QED
        BY <4>1, <2>1, FullDistance
    <3>2. Distance(headSeen, head') = Distance(headSeen, head) + 1
      BY <3>1, <2>1, FarEndSteps
    <3> QED
      <4>1. /\ tail' = tail /\ headSeen' = headSeen /\ tailSeen' = tailSeen
        BY <1>11 DEF PopRelease, producerVars
      <4>2. /\ Distance(headSeen, head') + Distance(head', tail) = Distance(headSeen, tail)
            /\ Distance(head', tailSeen) + Distance(tailSeen, tail) = Distance(head', tail)
        <5>1. Distance(headSeen, head') + Distance(head', tail) = Distance(headSeen, tail)
          BY <3>2, <2>4, <1>a DEF ViewsBehind
        <5>2. Distance(head', tailSeen) + Distance(tailSeen, tail) = Distance(head', tail)
          BY <2>4, <1>a DEF ViewsBehind
        <5> QED
          BY <5>1, <5>2
      <4> QED
        BY <4>1, <4>2 DEF ViewsBehind
  <2>8. Stored'
    <3> SUFFICES ASSUME NEW i \in Index, Distance(head', i) < Distance(head', tail)
                 PROVE  slots[i] = accepted[Len(taken') + 1 + Distance(head', i)]
      BY <1>11 DEF PopRelease, Stored
    <3>1. /\ i # head
          /\ Distance(head', i) = Distance(head, i) - 1
          /\ Distance(head, i) < Distance(head, tail)
      BY <2>4, <2>5, <1>a, <1>b, <1>c
    <3>2. Len(taken') = Len(taken) + 1
      BY <1>11, <2>1, <2>2 DEF PopRelease
    <3>3. Len(taken) + 1 + Distance(head, i) = Len(taken') + 1 + Distance(head', i)
      BY <3>1, <3>2, <1>c
    <3> QED
      BY <3>1, <3>3 DEF Stored
  <2>9. Unused'
    <3>1. slots[head] = Raw
      BY <1>11, <2>1, <1>a, <1>c DEF PopRelease, Stored
    <3> QED
      BY <1>11, <2>1, <2>4, <2>5, <3>1, <1>a, <1>b, <1>c, SMTT(30)
          DEF PopRelease, producerVars, Unused
  <2>10. InCall'
    BY <1>11, RawAssumption DEF PopRelease, producerVars, InCall
  <2> QED
    BY <2>3, <2>6, <2>7, <2>8, <2>9, <2>10
<1>12. CASE Front
  <2>1. PICK t \in Loadable(tailSeen, tail) :
           tailSeen' = t /\ peeked' = IF head = t THEN Raw ELSE slots[head]
    BY <1>12 DEF Front
  <2>2. /\ tailSeen' \in Index
        /\ Distance(head, tailSeen') + Distance(tailSeen', tail) = Distance(head, tail)
    BY <2>1, ViewAdvances DEF ViewsBehind
  <2> QED
    BY <2>1, <2>2, <1>12 DEF Front, producerVars, DeliversInOrder, IndicesCountElements,
       ViewsBehind, Stored, Unused, InCall
<1>13. CASE UNCHANGED vars
  BY <1>13 DEF vars, producerVars, consumerVars, DeliversInOrder, IndicesCountElements,
       ViewsBehind, Stored, Unused, InCall
<1> QED
  BY <1>1, <1>2, <1>3, <1>4, <1>5, <1>6, <1>7, <1>8, <1>9, <1>10, <1>11, <1>12, <1>13
     DEF Next, Producer, Consumer

(* The invariant holds in every reachable state. *)
THEOREM Invariance == Spec => []Inv
<1>1. Init => Inv
  BY RingInit
<1>2. Inv /\ [Next]_vars => Inv'
  BY RingStep
<1> QED
  BY <1>1, <1>2, PTL DEF Spec

(* Typing, and the invariant that explains the ring, for every capacity,   *)
(* every set of elements and every number of pushes.                       *)
THEOREM TypeAndRingInvariant == Spec => [](TypeOK /\ RingInvariant)
BY Invariance DEF Inv

(* The slots are never used by both threads at once, for every capacity. *)
THEOREM SlotsAreExclusive == Spec => []NoSlotRace
<1>1. Inv => NoSlotRace
  <2> SUFFICES ASSUME Inv PROVE NoSlotRace
    OBVIOUS
  <2> USE DEF Inv, TypeOK, RingInvariant
  <2>1. /\ Distance(head, tail) \in 0 .. Capacity - 1
        /\ Distance(head, head) = 0
        /\ head # tail => Distance(head, tail) # 0
        /\ Distance(head, tailSeen) \in 0 .. Capacity - 1
        /\ Distance(tailSeen, tail) \in 0 .. Capacity - 1
        /\ head # tailSeen => Distance(head, tailSeen) # 0
    BY Ranges
  <2>2. cpc \in {"move", "destroy", "release"} => Distance(head, tail) # 0
    BY <2>1 DEF InCall, ViewsBehind
  <2>3. ppc = "construct" => slots[tail] = Raw
    BY <2>1 DEF Unused
  <2>4. cpc \in {"move", "destroy"} => slots[head] \in Values
    <3> SUFFICES ASSUME cpc \in {"move", "destroy"} PROVE slots[head] \in Values
      OBVIOUS
    <3>1. slots[head] = accepted[Len(taken) + 1]
      BY <2>1, <2>2 DEF Stored
    <3>2. Len(taken) + 1 \in 1 .. Len(accepted)
      BY <2>1, <2>2 DEF IndicesCountElements, DeliversInOrder
    <3> QED
      BY <3>1, <3>2
  <2> QED
    BY <2>1, <2>2, <2>3, <2>4 DEF NoSlotRace
<1> QED
  BY <1>1, Invariance, PTL

(* What front() returned is what the next pop returns, for every capacity. *)
THEOREM FrontIsStable == Spec => []FrontStaysOldest
<1>1. Inv => FrontStaysOldest
  <2> SUFFICES ASSUME Inv, peeked # Raw
               PROVE  /\ Len(taken) < Len(accepted)
                      /\ slots[head] = peeked
                      /\ peeked = accepted[Len(taken) + 1]
    BY DEF FrontStaysOldest
  <2> USE DEF Inv, TypeOK, RingInvariant
  <2>1. /\ Distance(head, tail) \in 0 .. Capacity - 1
        /\ Distance(head, head) = 0
        /\ Distance(head, tailSeen) \in 0 .. Capacity - 1
        /\ Distance(tailSeen, tail) \in 0 .. Capacity - 1
        /\ head # tailSeen => Distance(head, tailSeen) # 0
    BY Ranges
  <2>2. cpc = "idle" /\ Distance(head, tail) > 0 /\ peeked = slots[head]
    BY <2>1 DEF InCall, ViewsBehind
  <2> QED
    BY <2>1, <2>2 DEF Stored, IndicesCountElements, DeliversInOrder
<1> QED
  BY <1>1, Invariance, PTL

(* Elements are popped in push order, none lost and none duplicated. *)
THEOREM InOrderDelivery == Spec => []DeliversInOrder
<1>1. Inv => DeliversInOrder
  BY DEF Inv, RingInvariant
<1> QED
  BY <1>1, Invariance, PTL

-----------------------------------------------------------------------------
(* Refinement *)

(* The elements the abstract queue holds, told from the histories. *)
Remaining == [k \in 1 .. Len(accepted) - Len(Returned) |-> accepted[Len(Returned) + k]]

ContentsAgree == Contents = Remaining

(* Walking k slots ahead of the head ends at distance k from it. *)
LEMMA OffsetDistance ==
  ASSUME NEW i \in Index, NEW k \in 0 .. Capacity - 1
  PROVE  Offset(i, k) \in Index /\ Distance(i, Offset(i, k)) = k
  BY CapacityAssumption DEF Offset, Distance, Index

(* An element moved out is the next of the accepted ones. *)
LEMMA ReturnedIsPrefix ==
  ASSUME Inv
  PROVE  /\ Returned \in Seq(Values)
         /\ Len(Returned) = Len(taken) + First
         /\ First \in {0, 1}
         /\ Distance(head, tail) - First \in 0 .. Capacity - 1
         /\ Len(accepted) - Len(Returned) = Distance(head, tail) - First
<1> USE DEF Inv, TypeOK, RingInvariant
<1>1. /\ Distance(head, tail) \in 0 .. Capacity - 1
      /\ Distance(head, tailSeen) \in 0 .. Capacity - 1
      /\ Distance(tailSeen, tail) \in 0 .. Capacity - 1
      /\ head # tailSeen => Distance(head, tailSeen) # 0
  BY Ranges
<1>2. CASE MovedOut
  <2>1. Distance(head, tail) > 0
    BY <1>1, <1>2 DEF MovedOut, InCall, ViewsBehind
  <2>2. popping \in Values
    BY <1>2, <2>1, <1>1 DEF MovedOut, InCall, IndicesCountElements, DeliversInOrder
  <2> QED
    BY <1>1, <1>2, <2>1, <2>2, CapacityAssumption DEF Returned, First, IndicesCountElements, DeliversInOrder
<1>3. CASE ~MovedOut
  BY <1>1, <1>3, CapacityAssumption DEF Returned, First, IndicesCountElements
<1> QED
  BY <1>2, <1>3

(* The slots read from the head are exactly what remains to be returned. *)
LEMMA ContentsAreRemaining ==
  ASSUME Inv
  PROVE  ContentsAgree
<1>1. ASSUME NEW k \in 1 .. Distance(head, tail) - First
      PROVE  slots[Offset(head, k - 1 + First)] = accepted[Len(Returned) + k]
  <2> DEFINE i == Offset(head, k - 1 + First)
  <2>1. Distance(head, tail) \in 0 .. Capacity - 1 /\ Distance(head, head) = 0
    BY DistanceRange DEF Inv, TypeOK
  <2>2. k - 1 + First \in 0 .. Capacity - 1
    BY <2>1, ReturnedIsPrefix, CapacityAssumption
  <2>3. i \in Index /\ Distance(head, i) = k - 1 + First
    BY <2>2, OffsetDistance DEF Inv, TypeOK
  <2>4. Distance(head, i) < Distance(head, tail)
    BY <2>1, <2>3, ReturnedIsPrefix
  <2>5. ~(cpc = "release" /\ i = head)
    BY <2>1, <2>3 DEF First, MovedOut
  <2>6. slots[i] = accepted[Len(taken) + 1 + Distance(head, i)]
    BY <2>3, <2>4, <2>5 DEF Inv, RingInvariant, Stored
  <2>7. Len(taken) + 1 + Distance(head, i) = Len(Returned) + k
    <3>1. Len(taken) \in Nat /\ First \in {0, 1} /\ Len(Returned) = Len(taken) + First
      BY ReturnedIsPrefix DEF Inv, TypeOK
    <3> QED
      BY <3>1, <2>3
  <2> QED
    BY <2>6, <2>7
<1> QED
  BY <1>1, ReturnedIsPrefix DEF Contents, Remaining, ContentsAgree

(* Every behaviour of the ring is a behaviour of the atomic bounded FIFO: a *)
(* release store of the tail is a Push, moving an element out is a Pop,     *)
(* and every other step leaves the queue as it is.                          *)
THEOREM RingImplementsFIFO == Spec => ImplementsFIFO
<1>1. Init => FIFO!Init
  <2> SUFFICES ASSUME Init PROVE Contents = <<>> /\ Returned = <<>>
    BY DEF FIFO!Init
  <2>1. Distance(0, 0) = 0
    BY CapacityAssumption DEF Distance
  <2> QED
    BY <2>1 DEF Init, Contents, Returned, First, MovedOut
<1>2. Inv /\ ContentsAgree /\ ContentsAgree' /\ [Next]_vars => [FIFO!Next]_(FIFO!vars)
  <2> SUFFICES ASSUME Inv, Contents = Remaining, Contents' = Remaining', [Next]_vars
               PROVE  \/ \E v \in Values : /\ Len(Remaining) < Capacity - 1
                                           /\ Remaining' = Append(Remaining, v)
                                           /\ Returned' = Returned
                      \/ /\ Remaining # <<>>
                         /\ Returned' = Append(Returned, Head(Remaining))
                         /\ Remaining' = Tail(Remaining)
                      \/ Remaining' = Remaining /\ Returned' = Returned
    BY DEF FIFO!Next, FIFO!Push, FIFO!Pop, FIFO!vars, ContentsAgree
  <2> USE DEF Inv, TypeOK, RingInvariant
  <2>1. ASSUME accepted' = accepted, Returned' = Returned
        PROVE  Remaining' = Remaining /\ Returned' = Returned
    BY <2>1 DEF Remaining
  <2>2. CASE PushPublish
    <3>1. Returned' = Returned
      BY <2>2 DEF PushPublish, consumerVars, Returned, MovedOut
    <3>2. accepted' = Append(accepted, pushing) /\ pushing \in Values
      BY <2>2 DEF PushPublish, InCall
    <3>3. Distance(head, tail) < Capacity - 1
      BY <2>2, RoomToPublish DEF PushPublish, InCall
    <3>4. /\ Len(Returned) \in Nat /\ Len(accepted) \in Nat
          /\ Len(accepted) - Len(Returned) \in Nat
          /\ Len(accepted) - Len(Returned) < Capacity - 1
      <4>1. /\ Returned \in Seq(Values) /\ First \in {0, 1}
            /\ Distance(head, tail) - First \in 0 .. Capacity - 1
            /\ Len(accepted) - Len(Returned) = Distance(head, tail) - First
        BY ReturnedIsPrefix
      <4> QED
        <5>1. Len(Returned) \in Nat /\ Len(accepted) \in Nat
          BY <4>1
        <5>2. Distance(head, tail) \in Nat
          BY Ranges, CapacityAssumption
        <5>3. /\ Distance(head, tail) - First \in Nat
              /\ Distance(head, tail) - First < Capacity - 1
          BY <4>1, <5>2, <3>3, CapacityAssumption
        <5> QED
          BY <4>1, <5>1, <5>3
    <3>5. Len(Remaining) = Len(accepted) - Len(Returned)
      BY <3>4 DEF Remaining
    <3>6. Remaining' = Append(Remaining, pushing)
      BY <3>1, <3>2, <3>4 DEF Remaining
    <3> QED
      BY <3>1, <3>2, <3>4, <3>5, <3>6
  <2>3. CASE PopMove
    <3>1. Returned = taken /\ Returned' = Append(taken, slots[head]) /\ accepted' = accepted
      BY <2>3 DEF PopMove, producerVars, Returned, MovedOut
    <3>2. slots[head] = accepted[Len(taken) + 1] /\ Distance(head, tail) > 0
      <4>1. Distance(head, tail) > 0
        BY <2>3, Ranges DEF PopMove, InCall, ViewsBehind
      <4>2. Len(taken) + 1 + 0 = Len(taken) + 1
        OBVIOUS
      <4> QED
        BY <2>3, <4>1, <4>2, Ranges DEF PopMove, Stored
    <3>3. /\ Len(accepted) - Len(taken) > 0
          /\ Len(taken) \in Nat /\ Len(accepted) \in Nat
      BY <3>2 DEF IndicesCountElements
    <3>4. Remaining # <<>> /\ Head(Remaining) = slots[head]
      <4>1. Remaining \in Seq(Values) /\ Len(Remaining) = Len(accepted) - Len(taken)
        BY <3>1, <3>3 DEF Remaining
      <4>2. Remaining[1] = accepted[Len(taken) + 1]
        BY <3>1, <3>3 DEF Remaining
      <4> QED
        BY <4>1, <4>2, <3>2, <3>3
    <3>5. Len(Returned') = Len(taken) + 1
      BY <3>1, <3>2, <3>3
    <3>6. Remaining' = Tail(Remaining)
      BY <3>1, <3>3, <3>5, SMTT(30) DEF Remaining
    <3> QED
      BY <3>1, <3>4, <3>6
  <2>4. CASE PopRelease
    BY <2>1, <2>4 DEF PopRelease, producerVars, Returned, MovedOut
  <2>5. ASSUME NEW v \in Values, NEW waits \in BOOLEAN, PushCall(v, waits)
        PROVE  accepted' = accepted /\ Returned' = Returned
    BY <2>5 DEF PushCall, consumerVars, Returned, MovedOut
  <2>6. PushFull \/ PushRoom \/ PushConstruct => accepted' = accepted /\ Returned' = Returned
    BY DEF PushFull, PushRoom, PushConstruct, consumerVars, Returned, MovedOut
  <2>7. ASSUME NEW waits \in BOOLEAN, PopCall(waits)
        PROVE  accepted' = accepted /\ Returned' = Returned
    BY <2>7 DEF PopCall, Returned, MovedOut
  <2>8. PopEmpty \/ PopFound \/ PopDestroy \/ Front => accepted' = accepted /\ Returned' = Returned
    BY DEF PopEmpty, PopFound, PopDestroy, Front, Returned, MovedOut
  <2>9. UNCHANGED vars => accepted' = accepted /\ Returned' = Returned
    BY DEF vars, consumerVars, Returned, MovedOut
  <2> QED
    BY <2>1, <2>2, <2>3, <2>4, <2>5, <2>6, <2>7, <2>8, <2>9 DEF Next, Producer, Consumer
<1>3. Inv => ContentsAgree
  BY ContentsAreRemaining
<1> QED
  BY <1>1, <1>2, <1>3, Invariance, PTL DEF Spec, ImplementsFIFO, FIFO!Spec

-----------------------------------------------------------------------------
(* The logger *)

LoggerTypeOK ==
  /\ running \in BOOLEAN
  /\ apc \in {"run", "flushing", "flushed", "joining", "closed"}
  /\ wpc \in {"loop", "asking", "pop", "write", "ended"}
  /\ opc \in [Callers -> {"idle", "loadHead", "loadTail", "returned"}]
  /\ headLoaded \in [Callers -> Index]
  /\ size \in [Callers -> Nat]

(* Which calls each thread can be in where. *)
Phases ==
  /\ apc # "run" => ppc = "idle"
  /\ apc = "flushing" <=> apc # "flushed" /\ opc["producer"] # "idle"
  /\ apc = "flushed" => opc["producer"] = "returned"
  /\ wpc = "pop" <=> cpc # "idle"
  /\ wpc = "asking" <=> opc["consumer"] # "idle"
  /\ running <=> apc \notin {"joining", "closed"}
  /\ wpc \in {"asking", "ended"} => ~running
  /\ ~popWaits /\ peeked = Raw

(* A caller of empty() compares its own index, which it knows exactly,     *)
(* with the last it loaded of the other thread's.                          *)
Loads ==
  /\ opc["producer"] = "loadTail" => headLoaded["producer"] = headSeen
  /\ opc["producer"] = "returned" => size["producer"] = Distance(headSeen, tail)
  /\ opc["consumer"] # "idle" => tailSeen = tail
  /\ opc["consumer"] = "loadTail" => headLoaded["consumer"] = head
  /\ opc["consumer"] = "returned" => size["consumer"] = Distance(head, tail)

(* What was popped is written, but for the message in the writer's hands.  *)
Hands ==
  /\ written \in Seq(Values)
  /\ taken = IF wpc = "write" THEN Append(written, popping) ELSE written

(* Emptiness, once acted upon, is still there. *)
Emptied ==
  /\ apc = "flushed" => size["producer"] = 0
  /\ wpc = "ended" => taken = accepted

LoggerInv == Inv /\ LoggerTypeOK /\ Phases /\ Loads /\ Hands /\ Emptied

-----------------------------------------------------------------------------
(* The ring under the logger *)

(* The parts of the ring's invariant that a load does not touch. *)
ring == <<tail, head, slots, ppc, pushing, pushWaits, cpc, popping, popWaits, peeked, accepted, taken>>

(* Outside a push, the producer may load the head. *)
LEMMA ProducerLoads ==
  ASSUME Inv, ppc = "idle", headSeen' \in Loadable(headSeen, head), UNCHANGED <<ring, tailSeen>>
  PROVE  Inv'
<1> USE DEF Inv, TypeOK, RingInvariant
<1>1. /\ headSeen' \in Index
      /\ Distance(headSeen', head) + Distance(head, tail) = Distance(headSeen', tail)
  BY ViewStaysBehind DEF ViewsBehind
<1>2. TypeOK'
  BY <1>1 DEF ring
<1>3. DeliversInOrder' /\ IndicesCountElements' /\ Stored' /\ Unused'
  BY DEF ring, DeliversInOrder, IndicesCountElements, Stored, Unused
<1>4. ViewsBehind' /\ InCall'
  BY <1>1 DEF ring, ViewsBehind, InCall
<1> QED BY <1>2, <1>3, <1>4

(* Outside a pop, and with nothing peeked at, the consumer may load the    *)
(* tail.                                                                   *)
LEMMA ConsumerLoads ==
  ASSUME Inv, cpc = "idle", peeked = Raw, tailSeen' \in Loadable(tailSeen, tail),
         UNCHANGED <<ring, headSeen>>
  PROVE  Inv'
<1> USE DEF Inv, TypeOK, RingInvariant
<1>1. /\ tailSeen' \in Index
      /\ Distance(head, tailSeen') + Distance(tailSeen', tail) = Distance(head, tail)
  BY ViewAdvances DEF ViewsBehind
<1>2. TypeOK'
  BY <1>1 DEF ring
<1>3. DeliversInOrder' /\ IndicesCountElements' /\ Stored' /\ Unused'
  BY DEF ring, DeliversInOrder, IndicesCountElements, Stored, Unused
<1>4. ViewsBehind' /\ InCall'
  BY <1>1 DEF ring, ViewsBehind, InCall
<1> QED BY <1>2, <1>3, <1>4

(* The latest tail may always be loaded; once seen, no other can be. *)
LEMMA LatestLoad ==
  ASSUME NEW i \in Index, NEW j \in Index
  PROVE  /\ j \in Loadable(i, j)
         /\ Loadable(j, j) = {j}
<1>1. Distance(j, j) = 0 /\ \A k \in Index : Distance(j, k) \in Nat /\ (Distance(j, k) = 0 <=> j = k)
  BY DistanceRange, CapacityAssumption
<1>2. Distance(i, j) \in Nat
  BY DistanceRange, CapacityAssumption
<1> QED BY <1>1, <1>2 DEF Loadable

(* The size empty() compares with zero is the distance around the ring. *)
LEMMA SizeIsDistance == \A h, t : SizeOf(h, t) = Distance(h, t)
BY DEF SizeOf, Distance

(* The destructor's drain leaves an empty ring and all of it written. *)
LEMMA Drained ==
  ASSUME LoggerInv, JoinAndDrain
  PROVE  LoggerInv'
<1> USE DEF LoggerInv, Inv, TypeOK, RingInvariant
<1>1. /\ ppc = "idle" /\ cpc = "idle" /\ peeked = Raw /\ wpc = "ended"
      /\ opc["producer"] = "idle" /\ opc["consumer"] = "idle"
  BY DEF JoinAndDrain, Phases, LoggerTypeOK
<1>2. /\ Distance(tail, tail) = 0 /\ Distance(headSeen, tail) \in Nat
      /\ \A i \in Index : Distance(tail, i) \in Nat
  BY DistanceRange, CapacityAssumption
<1>3. TypeOK'
  BY DEF JoinAndDrain, producerVars
<1>4. DeliversInOrder' /\ IndicesCountElements' /\ ViewsBehind'
  BY <1>2 DEF JoinAndDrain, producerVars, DeliversInOrder, IndicesCountElements, ViewsBehind
<1>5. Stored' /\ Unused' /\ InCall'
  BY <1>1, <1>2 DEF JoinAndDrain, producerVars, Stored, Unused, InCall
<1>6. LoggerTypeOK' /\ Phases'
  BY <1>1 DEF JoinAndDrain, producerVars, callVars, LoggerTypeOK, Phases
<1>7. Loads' /\ Emptied'
  BY <1>1 DEF JoinAndDrain, callVars, Loads, Emptied
<1>8. Hands'
  <2>1. written = accepted
    BY <1>1 DEF Hands, Emptied
  <2>2. SubSeq(accepted, Len(accepted) + 1, Len(accepted)) = <<>>
    OBVIOUS
  <2>3. accepted \o <<>> = accepted
    OBVIOUS
  <2> QED
    BY <1>1, <2>1, <2>2, <2>3 DEF Hands, JoinAndDrain, Emptied
<1> QED BY <1>3, <1>4, <1>5, <1>6, <1>7, <1>8

-----------------------------------------------------------------------------
(* The logger *)

(* Every step of the application and of the writer keeps the invariant. *)
LEMMA LoggerStep ==
  ASSUME LoggerInv, NextLogger
  PROVE  LoggerInv'
<1> USE DEF Callers
<1>1. /\ Inv /\ TypeOK /\ LoggerTypeOK /\ Phases /\ Loads /\ Hands /\ Emptied
      /\ tail \in Index /\ head \in Index /\ headSeen \in Index /\ tailSeen \in Index
  BY DEF LoggerInv, Inv, TypeOK
<1>2. CASE Log
  <2>1. Next
    BY <1>2 DEF Log, Next, Producer
  <2>2. Inv'
    BY <1>1, <2>1, RingStep
  <2>3. apc = "run" /\ opc["producer"] = "idle" /\ running
        /\ opc["consumer"] = "idle" /\ wpc \notin {"asking", "ended"}
    BY <1>1, <1>2 DEF Log, Phases, LoggerTypeOK
  <2>4. UNCHANGED <<head, cpc, popping, popWaits, tailSeen, peeked, taken, callVars, loggerVars>>
    BY <1>2 DEF Log, PushCall, PushFull, PushRoom, PushConstruct, PushPublish, consumerVars
  <2>5. LoggerTypeOK' /\ Phases'
    BY <1>1, <2>3, <2>4 DEF LoggerTypeOK, Phases, callVars, loggerVars
  <2>6. Loads' /\ Hands' /\ Emptied'
    BY <1>1, <2>3, <2>4 DEF Loads, Hands, Emptied, callVars, loggerVars
  <2> QED BY <2>2, <2>5, <2>6 DEF LoggerInv
<1>3. CASE Flush
  <2>1. Inv' /\ UNCHANGED vars
    BY <1>1, <1>3, RingStep DEF Flush
  <2>2. UNCHANGED <<ppc, cpc, popWaits, peeked, head, tail, headSeen, tailSeen, accepted, taken, popping>>
    BY <2>1 DEF vars, producerVars, consumerVars
  <2>3. LoggerTypeOK' /\ Phases'
    BY <1>1, <1>3, <2>2 DEF Flush, ObserveCall, LoggerTypeOK, Phases
  <2>4. Loads' /\ Hands' /\ Emptied'
    BY <1>1, <1>3, <2>2 DEF Flush, ObserveCall, LoggerTypeOK, Loads, Hands, Emptied
  <2> QED BY <2>1, <2>3, <2>4 DEF LoggerInv
<1>4. CASE apc = "flushing" /\ ObserveHead("producer") /\ UNCHANGED loggerVars
  <2>1. PICK h \in Loadable(headSeen, head) : headLoaded' = [headLoaded EXCEPT !["producer"] = h] /\ headSeen' = h
    BY <1>4 DEF ObserveHead
  <2>2. h \in Index
    BY <2>1 DEF Loadable
  <2>3. UNCHANGED <<ring, tailSeen>> /\ ppc = "idle"
    BY <1>1, <1>4 DEF ObserveHead, consumerVars, ring, Phases
  <2>4. Inv'
    BY <1>1, <2>1, <2>3, ProducerLoads
  <2>5. LoggerTypeOK' /\ Phases'
    BY <1>1, <1>4, <2>1, <2>2, <2>3 DEF ObserveHead, LoggerTypeOK, Phases, ring, loggerVars
  <2>6. Loads' /\ Hands' /\ Emptied'
    BY <1>1, <1>4, <2>1, <2>2, <2>3 DEF ObserveHead, LoggerTypeOK, Loads, Hands, Emptied, ring, loggerVars
  <2> QED BY <2>4, <2>5, <2>6 DEF LoggerInv
<1>5. CASE apc = "flushing" /\ ObserveTail("producer") /\ UNCHANGED loggerVars
  <2>1. size' = [size EXCEPT !["producer"] = SizeOf(headLoaded["producer"], tail)] /\ tailSeen' = tailSeen
    BY <1>5 DEF ObserveTail
  <2>2. SizeOf(headLoaded["producer"], tail) = Distance(headSeen, tail) /\ Distance(headSeen, tail) \in Nat
    BY <1>1, <1>5, SizeIsDistance, DistanceRange, CapacityAssumption DEF ObserveTail, Loads
  <2>3. UNCHANGED <<ring, tailSeen, headSeen>> /\ UNCHANGED vars
    BY <1>5, <2>1 DEF ObserveTail, consumerVars, producerVars, ring, vars
  <2>4. Inv'
    BY <1>1, <2>3, RingStep
  <2>5. LoggerTypeOK' /\ Phases'
    BY <1>1, <1>5, <2>1, <2>2, <2>3 DEF ObserveTail, LoggerTypeOK, Phases, ring, loggerVars
  <2>6. Loads' /\ Hands' /\ Emptied'
    BY <1>1, <1>5, <2>1, <2>2, <2>3 DEF ObserveTail, LoggerTypeOK, Loads, Hands, Emptied, ring, loggerVars
  <2> QED BY <2>4, <2>5, <2>6 DEF LoggerInv
<1>6. CASE FlushAsked
  <2>1. Inv' /\ UNCHANGED vars
    BY <1>1, <1>6, RingStep DEF FlushAsked
  <2>2. UNCHANGED <<ppc, cpc, popWaits, peeked, head, tail, headSeen, tailSeen, accepted, taken, popping>>
    BY <2>1 DEF vars, producerVars, consumerVars
  <2>3. LoggerTypeOK' /\ Phases'
    BY <1>1, <1>6, <2>2 DEF FlushAsked, ObserveCall, callVars, LoggerTypeOK, Phases
  <2>4. Loads' /\ Hands' /\ Emptied'
    BY <1>1, <1>6, <2>2 DEF FlushAsked, ObserveCall, callVars, LoggerTypeOK, Loads, Hands, Emptied
  <2> QED BY <2>1, <2>3, <2>4 DEF LoggerInv
<1>7. CASE FlushReturns
  <2>1. Inv' /\ UNCHANGED vars
    BY <1>1, <1>7, RingStep DEF FlushReturns
  <2>2. UNCHANGED <<ppc, cpc, popWaits, peeked, head, tail, headSeen, tailSeen, accepted, taken, popping>>
    BY <2>1 DEF vars, producerVars, consumerVars
  <2>3. LoggerTypeOK' /\ Phases'
    BY <1>1, <1>7, <2>2 DEF FlushReturns, ObserveReturn, LoggerTypeOK, Phases
  <2>4. Loads' /\ Hands' /\ Emptied'
    BY <1>1, <1>7, <2>2 DEF FlushReturns, ObserveReturn, LoggerTypeOK, Loads, Hands, Emptied
  <2> QED BY <2>1, <2>3, <2>4 DEF LoggerInv
<1>8. CASE Destroy
  <2>1. Inv' /\ UNCHANGED vars
    BY <1>1, <1>8, RingStep DEF Destroy, ovars
  <2>2. UNCHANGED <<ppc, cpc, popWaits, peeked, head, tail, headSeen, tailSeen, accepted, taken, popping, opc, headLoaded, size>>
    BY <1>8, <2>1 DEF Destroy, ovars, callVars, vars, producerVars, consumerVars
  <2>3. LoggerTypeOK' /\ Phases'
    BY <1>1, <1>8, <2>2 DEF Destroy, LoggerTypeOK, Phases
  <2>4. Loads' /\ Hands' /\ Emptied'
    BY <1>1, <1>8, <2>2 DEF Destroy, LoggerTypeOK, Loads, Hands, Emptied
  <2> QED BY <2>1, <2>3, <2>4 DEF LoggerInv
<1>9. CASE JoinAndDrain
  BY <1>9, Drained
<1>10. CASE LoopRuns
  <2>1. Inv'
    <3>1. Next
      BY <1>10 DEF LoopRuns, Next, Consumer
    <3> QED BY <1>1, <3>1, RingStep
  <2>2. UNCHANGED <<ppc, head, tail, headSeen, tailSeen, accepted, taken, popping>>
    BY <1>10 DEF LoopRuns, PopCall, producerVars
  <2>3. LoggerTypeOK' /\ Phases'
    BY <1>1, <1>10, <2>2 DEF LoopRuns, PopCall, callVars, LoggerTypeOK, Phases
  <2>4. Loads' /\ Hands' /\ Emptied'
    BY <1>1, <1>10, <2>2 DEF LoopRuns, PopCall, callVars, LoggerTypeOK, Loads, Hands, Emptied
  <2> QED BY <2>1, <2>3, <2>4 DEF LoggerInv
<1>11. CASE LoopStops
  <2>1. tailSeen' \in Loadable(tailSeen, tail) /\ tailSeen' = tail
    BY <1>1, <1>11, LatestLoad DEF LoopStops
  <2>2. UNCHANGED <<ring, headSeen>> /\ cpc = "idle" /\ peeked = Raw
    BY <1>1, <1>11 DEF LoopStops, producerVars, ring, Phases
  <2>3. Inv'
    BY <1>1, <2>1, <2>2, ConsumerLoads
  <2>4. LoggerTypeOK' /\ Phases'
    BY <1>1, <1>11, <2>2 DEF LoopStops, ObserveCall, ring, LoggerTypeOK, Phases
  <2>5. Loads' /\ Hands' /\ Emptied'
    BY <1>1, <1>11, <2>1, <2>2 DEF LoopStops, ObserveCall, ring, LoggerTypeOK, Loads, Hands, Emptied, Phases
  <2> QED BY <2>3, <2>4, <2>5 DEF LoggerInv
<1>12. CASE wpc = "asking" /\ ObserveHead("consumer") /\ UNCHANGED loggerVars
  <2>1. headLoaded' = [headLoaded EXCEPT !["consumer"] = head] /\ headSeen' = headSeen
    BY <1>12 DEF ObserveHead
  <2>2. UNCHANGED <<ring, tailSeen, headSeen>> /\ UNCHANGED vars
    BY <1>12, <2>1 DEF ObserveHead, consumerVars, producerVars, ring, vars
  <2>3. Inv'
    BY <1>1, <2>2, RingStep
  <2>4. LoggerTypeOK' /\ Phases'
    BY <1>1, <1>12, <2>1, <2>2 DEF ObserveHead, LoggerTypeOK, Phases, ring, loggerVars
  <2>5. Loads' /\ Hands' /\ Emptied'
    BY <1>1, <1>12, <2>1, <2>2 DEF ObserveHead, LoggerTypeOK, Loads, Hands, Emptied, ring, loggerVars
  <2> QED BY <2>3, <2>4, <2>5 DEF LoggerInv
<1>13. CASE wpc = "asking" /\ ObserveTail("consumer") /\ UNCHANGED loggerVars
  <2>1. size' = [size EXCEPT !["consumer"] = Distance(head, tail)] /\ tailSeen' = tail
    <3>1. PICK t \in Loadable(tailSeen, tail) :
             size' = [size EXCEPT !["consumer"] = SizeOf(headLoaded["consumer"], t)] /\ tailSeen' = t
      BY <1>13 DEF ObserveTail
    <3>2. tailSeen = tail /\ headLoaded["consumer"] = head
      BY <1>1, <1>13 DEF ObserveTail, Loads
    <3>3. t = tail
      BY <1>1, <3>1, <3>2, LatestLoad
    <3> QED BY <3>1, <3>2, <3>3, SizeIsDistance
  <2>2. UNCHANGED <<ring, tailSeen, headSeen>> /\ UNCHANGED vars /\ Distance(head, tail) \in Nat
    BY <1>1, <1>13, <2>1, DistanceRange, CapacityAssumption
       DEF ObserveTail, consumerVars, producerVars, ring, vars, Loads
  <2>3. Inv'
    BY <1>1, <2>2, RingStep
  <2>4. LoggerTypeOK' /\ Phases'
    BY <1>1, <1>13, <2>1, <2>2 DEF ObserveTail, LoggerTypeOK, Phases, ring, loggerVars
  <2>5. Loads' /\ Hands' /\ Emptied'
    BY <1>1, <1>13, <2>1, <2>2 DEF ObserveTail, LoggerTypeOK, Loads, Hands, Emptied, ring, loggerVars
  <2> QED BY <2>3, <2>4, <2>5 DEF LoggerInv
<1>14. CASE LoopAsked
  <2>1. /\ opc["consumer"] = "returned" /\ ~running /\ cpc = "idle" /\ wpc = "asking"
        /\ size["consumer"] = Distance(head, tail)
    BY <1>1, <1>14 DEF LoopAsked, ObserveReturn, Phases, Loads
  <2>2. Inv'
    <3>1. [Next]_vars
      BY <1>14 DEF LoopAsked, Next, Consumer
    <3> QED BY <1>1, <3>1, RingStep
  <2>3. UNCHANGED <<ppc, head, tail, headSeen, tailSeen, accepted, taken, popping>>
    BY <1>14 DEF LoopAsked, PopCall, vars, producerVars, consumerVars
  <2>4. CASE size["consumer"] = 0
    <3>1. wpc' = "ended" /\ UNCHANGED vars
      BY <1>14, <2>4 DEF LoopAsked
    <3>2. UNCHANGED <<cpc, popWaits, peeked>>
      BY <3>1 DEF vars, consumerVars
    <3>3. taken = accepted
      <4>1. Len(accepted) = Len(taken) /\ accepted \in Seq(Values) /\ taken \in Seq(Values)
            /\ \A k \in 1 .. Len(taken) : taken[k] = accepted[k]
        BY <1>1, <2>1, <2>4 DEF Inv, TypeOK, RingInvariant, IndicesCountElements, DeliversInOrder
      <4> QED BY <4>1
    <3>4. LoggerTypeOK' /\ Phases'
      BY <1>1, <1>14, <2>1, <2>3, <3>1, <3>2 DEF LoopAsked, ObserveReturn, LoggerTypeOK, Phases
    <3>5. Loads' /\ Hands' /\ Emptied'
      BY <1>1, <1>14, <2>1, <2>3, <3>1, <3>2, <3>3
         DEF LoopAsked, ObserveReturn, LoggerTypeOK, Loads, Hands, Emptied
    <3> QED BY <2>2, <3>4, <3>5 DEF LoggerInv
  <2>5. CASE size["consumer"] # 0
    <3>1. wpc' = "pop" /\ PopCall(FALSE)
      BY <1>14, <2>5 DEF LoopAsked
    <3>2. LoggerTypeOK' /\ Phases'
      BY <1>1, <1>14, <2>1, <2>3, <3>1 DEF LoopAsked, ObserveReturn, PopCall, LoggerTypeOK, Phases
    <3>3. Loads' /\ Hands' /\ Emptied'
      BY <1>1, <1>14, <2>1, <2>3, <3>1
         DEF LoopAsked, ObserveReturn, LoggerTypeOK, Loads, Hands, Emptied
    <3> QED BY <2>2, <3>2, <3>3 DEF LoggerInv
  <2> QED BY <2>4, <2>5
<1>15. CASE WriterPops
  <2>1. Inv'
    <3>1. Next
      BY <1>15 DEF WriterPops, Next, Consumer
    <3> QED BY <1>1, <3>1, RingStep
  <2>2. /\ UNCHANGED <<ppc, head, tail, headSeen, accepted, taken, popWaits, peeked, callVars, loggerVars>>
        /\ cpc' # "idle" /\ wpc = "pop" /\ opc["consumer"] = "idle"
    BY <1>1, <1>15 DEF WriterPops, PopFound, PopMove, PopDestroy, producerVars, Phases
  <2>3. LoggerTypeOK' /\ Phases'
    BY <1>1, <2>2 DEF callVars, loggerVars, LoggerTypeOK, Phases
  <2>4. Loads' /\ Hands' /\ Emptied'
    BY <1>1, <2>2 DEF callVars, loggerVars, Loads, Hands, Emptied
  <2> QED BY <2>1, <2>3, <2>4 DEF LoggerInv
<1>16. CASE WriterSleeps
  <2>1. Inv'
    <3>1. Next
      BY <1>16 DEF WriterSleeps, Next, Consumer
    <3> QED BY <1>1, <3>1, RingStep
  <2>2. /\ UNCHANGED <<ppc, head, tail, headSeen, accepted, taken, popping, popWaits, peeked, callVars>>
        /\ UNCHANGED <<running, apc, written>> /\ wpc' = "loop"
        /\ cpc' = "idle" /\ wpc = "pop" /\ opc["consumer"] = "idle"
    BY <1>1, <1>16 DEF WriterSleeps, PopEmpty, producerVars, Phases
  <2>3. LoggerTypeOK' /\ Phases'
    BY <1>1, <2>2 DEF callVars, LoggerTypeOK, Phases
  <2>4. Loads' /\ Hands' /\ Emptied'
    BY <1>1, <2>2 DEF callVars, Loads, Hands, Emptied
  <2> QED BY <2>1, <2>3, <2>4 DEF LoggerInv
<1>17. CASE WriterPopped
  <2>1. Inv'
    <3>1. Next
      BY <1>17 DEF WriterPopped, Next, Consumer
    <3> QED BY <1>1, <3>1, RingStep
  <2>2. /\ UNCHANGED <<ppc, tail, headSeen, accepted, popping, popWaits, peeked, callVars>>
        /\ UNCHANGED <<running, apc, written>> /\ wpc' = "write"
        /\ taken' = Append(taken, popping)
        /\ cpc' = "idle" /\ wpc = "pop" /\ opc["consumer"] = "idle"
    BY <1>1, <1>17 DEF WriterPopped, PopRelease, producerVars, Phases
  <2>3. LoggerTypeOK' /\ Phases'
    BY <1>1, <2>2 DEF callVars, LoggerTypeOK, Phases
  <2>4. Loads' /\ Hands' /\ Emptied'
    BY <1>1, <2>2 DEF callVars, Loads, Hands, Emptied
  <2> QED BY <2>1, <2>3, <2>4 DEF LoggerInv
<1>18. CASE WriterWrites
  <2>1. Inv' /\ UNCHANGED vars
    BY <1>1, <1>18, RingStep DEF WriterWrites, ovars
  <2>2. UNCHANGED <<ppc, cpc, popWaits, peeked, head, tail, headSeen, tailSeen, accepted, taken, popping, opc, headLoaded, size>>
    BY <1>18, <2>1 DEF WriterWrites, ovars, callVars, vars, producerVars, consumerVars
  <2>3. LoggerTypeOK' /\ Phases'
    BY <1>1, <1>18, <2>2 DEF WriterWrites, LoggerTypeOK, Phases
  <2>4. written' = taken /\ taken \in Seq(Values)
    BY <1>1, <1>18 DEF WriterWrites, Hands, TypeOK
  <2>5. Loads' /\ Hands' /\ Emptied'
    BY <1>1, <1>18, <2>2, <2>4 DEF WriterWrites, LoggerTypeOK, Loads, Hands, Emptied
  <2> QED BY <2>1, <2>3, <2>5 DEF LoggerInv
<1> QED
  BY <1>2, <1>3, <1>4, <1>5, <1>6, <1>7, <1>8, <1>9, <1>10, <1>11, <1>12, <1>13, <1>14,
     <1>15, <1>16, <1>17, <1>18
     DEF NextLogger, Application, Writer, FlushLoads, LoopLoads

(* The logger keeps the invariant of its ring and its own. *)
THEOREM LoggerInvariant == SpecLogger => []LoggerInv
<1>1. InitLogger => LoggerInv
  <2> SUFFICES ASSUME InitLogger  PROVE LoggerInv
    OBVIOUS
  <2>1. Inv /\ Init
    BY RingInit DEF InitLogger, InitObserver
  <2>2. LoggerTypeOK
    BY ZeroIndex DEF InitLogger, InitObserver, LoggerTypeOK
  <2>3. Phases /\ Loads /\ Hands /\ Emptied
    BY <2>1 DEF InitLogger, InitObserver, Init, Phases, Loads, Hands, Emptied, Callers
  <2> QED BY <2>1, <2>2, <2>3 DEF LoggerInv
<1>2. LoggerInv /\ [NextLogger]_lvars => LoggerInv'
  <2> SUFFICES ASSUME LoggerInv, [NextLogger]_lvars  PROVE LoggerInv'
    OBVIOUS
  <2>1. CASE NextLogger
    BY <2>1, LoggerStep
  <2>2. CASE UNCHANGED lvars
    <3>1. UNCHANGED vars /\ UNCHANGED callVars /\ UNCHANGED loggerVars
      BY <2>2 DEF lvars, ovars
    <3>2. Inv'
      BY <3>1, RingStep DEF LoggerInv
    <3>3. UNCHANGED <<ppc, cpc, popWaits, peeked, head, tail, headSeen, tailSeen, accepted, taken, popping>>
      BY <3>1 DEF vars, producerVars, consumerVars
    <3> QED
      BY <3>1, <3>2, <3>3
         DEF LoggerInv, callVars, loggerVars, LoggerTypeOK, Phases, Loads, Hands, Emptied
  <2> QED BY <2>1, <2>2
<1> QED BY <1>1, <1>2, PTL DEF SpecLogger

(* What was popped is an initial part of what was accepted. *)
LEMMA TakenIsPrefix ==
  ASSUME LoggerInv
  PROVE  /\ accepted \in Seq(Values) /\ taken \in Seq(Values)
         /\ Len(taken) \in Nat /\ Len(accepted) \in Nat /\ Len(taken) <= Len(accepted)
         /\ taken = SubSeq(accepted, 1, Len(taken))
         /\ Len(taken) = Len(accepted) => taken = accepted
         /\ Len(accepted) - Len(taken) = Distance(head, tail)
<1>1. /\ accepted \in Seq(Values) /\ taken \in Seq(Values)
      /\ Len(taken) <= Len(accepted)
      /\ \A k \in 1 .. Len(taken) : taken[k] = accepted[k]
      /\ Len(accepted) - Len(taken) = Distance(head, tail)
  BY DEF LoggerInv, Inv, TypeOK, RingInvariant, DeliversInOrder, IndicesCountElements
<1> QED BY <1>1

(* To the producer empty() and sizeApprox() err high only, in the logger   *)
(* as in the ring: flush waits for that.                                   *)
THEOREM SizeErrsHighOnly == SpecLogger => []ProducerNeverUnderestimates
<1>1. LoggerInv => ProducerNeverUnderestimates
  <2> SUFFICES ASSUME LoggerInv, opc["producer"] = "returned"
               PROVE  size["producer"] >= Len(accepted) - Len(taken)
    BY DEF ProducerNeverUnderestimates
  <2>1. size["producer"] = Distance(headSeen, tail)
    BY DEF LoggerInv, Loads
  <2>2. Distance(headSeen, tail) >= Distance(head, tail)
    BY Ranges, CapacityAssumption DEF LoggerInv, Inv, RingInvariant, ViewsBehind
  <2> QED BY <2>1, <2>2, TakenIsPrefix
<1> QED BY <1>1, LoggerInvariant, PTL

(* Lines come out in the order they were logged, each once, none left out  *)
(* in between, through the destructor's drain too.                         *)
THEOREM LinesInOrder == SpecLogger => []WritesInOrder
<1>1. LoggerInv => WritesInOrder
  <2> SUFFICES ASSUME LoggerInv  PROVE WritesInOrder
    OBVIOUS
  <2>1. taken = IF wpc = "write" THEN Append(written, popping) ELSE written
    BY DEF LoggerInv, Hands
  <2>2. /\ written \in Seq(Values) /\ Len(written) \in Nat /\ Len(written) <= Len(taken)
        /\ \A k \in 1 .. Len(written) : written[k] = taken[k]
    <3>1. written \in Seq(Values)
      BY DEF LoggerInv, Hands
    <3>2. CASE wpc = "write"
      <4>1. taken = Append(written, popping)
        BY <2>1, <3>2
      <4> QED BY <3>1, <4>1
    <3>3. CASE wpc # "write"
      BY <2>1, <3>1, <3>3
    <3> QED BY <3>2, <3>3
  <2>3. /\ accepted \in Seq(Values) /\ Len(accepted) \in Nat /\ Len(taken) \in Nat
        /\ Len(taken) <= Len(accepted)
        /\ \A k \in 1 .. Len(taken) : taken[k] = accepted[k]
    BY TakenIsPrefix DEF LoggerInv, Inv, RingInvariant, DeliversInOrder
  <2>4. Len(written) <= Len(accepted) /\ \A k \in 1 .. Len(written) : written[k] = accepted[k]
    BY <2>2, <2>3
  <2>5. written = SubSeq(accepted, 1, Len(written))
    BY <2>2, <2>3, <2>4
  <2> QED BY <2>4, <2>5 DEF WritesInOrder
<1> QED BY <1>1, LoggerInvariant, PTL

(* The writer ends with every accepted message written, although it reads  *)
(* the flag and the ring at different times.                               *)
THEOREM WriterEndsDone == SpecLogger => []WriterLeavesNothing
<1>1. LoggerInv => WriterLeavesNothing
  BY DEF LoggerInv, Emptied, Hands, WriterLeavesNothing
<1> QED BY <1>1, LoggerInvariant, PTL

(* When flush stops waiting, every message but the one in the writer's     *)
(* hands has been written.                                                 *)
THEOREM FlushNearlyDone == SpecLogger => []FlushLeavesAtMostOne
<1>1. LoggerInv => FlushLeavesAtMostOne
  <2> SUFFICES ASSUME LoggerInv, apc = "flushed"
               PROVE  \/ written = accepted
                      \/ wpc = "write" /\ Append(written, popping) = accepted
    BY DEF FlushLeavesAtMostOne
  <2>1. Distance(headSeen, tail) = 0
    BY DEF LoggerInv, Phases, Loads, Emptied
  <2>2. Distance(head, tail) = 0
    BY <2>1, Ranges, CapacityAssumption DEF LoggerInv, Inv, RingInvariant, ViewsBehind
  <2>3. taken = accepted
    BY <2>2, TakenIsPrefix
  <2> QED BY <2>3 DEF LoggerInv, Hands
<1> QED BY <1>1, LoggerInvariant, PTL
=============================================================================
