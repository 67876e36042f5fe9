------------------------- MODULE CashCarryArbitrage -------------------------
(***************************************************************************)
(* StrategyBase and CashCarryArbitrage of                                  *)
(* include/strategy/StrategyEngine.hpp: the life cycle, the signal         *)
(* computed from the best prices of two books, the pair of orders for it,  *)
(* and the positions kept from fills.  Left out: the statistics, and the   *)
(* vector-returning wrappers.                                              *)
(***************************************************************************)
EXTENDS Integers, Sequences

CONSTANTS
  Spot, Futures,     (* The symbols of the two books. *)
  EntryThreshold, ExitThreshold,
  DefaultQty,
  MaxPosition,
  MaxHoldingPeriod

ASSUME StrategyAssumption ==
  /\ Spot # Futures
  /\ EntryThreshold \in Int /\ ExitThreshold \in Int
  /\ DefaultQty \in Nat \ {0} /\ MaxPosition \in Nat /\ MaxHoldingPeriod \in Nat

VARIABLES
  state,             (* m_state *)
  spotPosition, futuresPosition,
  entryTime,         (* 0 when flat *)
  lastSignal

strategyVars == <<state, spotPosition, futuresPosition, entryTime, lastSignal>>
tracking == <<spotPosition, futuresPosition, entryTime, lastSignal>>

InitStrategy ==
  /\ state = "Idle"
  /\ spotPosition = 0 /\ futuresPosition = 0
  /\ entryTime = 0
  /\ lastSignal = "None"

-----------------------------------------------------------------------------
(* Life cycle.  Both books are given, so onInitialize succeeds.            *)

Initialize ==
  /\ state \in {"Idle", "Stopped"}
  /\ state' = "Active"
  /\ spotPosition' = 0 /\ futuresPosition' = 0
  /\ entryTime' = 0
  /\ lastSignal' = "None"

Stop == state' = "Stopped" /\ UNCHANGED tracking

Pause == state = "Active" /\ state' = "Paused" /\ UNCHANGED tracking

Resume == state = "Paused" /\ state' = "Active" /\ UNCHANGED tracking

-----------------------------------------------------------------------------
(* The signal.  q holds the best prices: spotBid, spotAsk, futuresBid,     *)
(* futuresAsk.                                                             *)

Magnitude(n) == IF n < 0 THEN -n ELSE n

AtPositionLimit ==
  Magnitude(spotPosition) >= MaxPosition \/ Magnitude(futuresPosition) >= MaxPosition

(* What buying spot and selling futures earns now, and the reverse. *)
FuturesPremium(q) == q.futuresBid - q.spotAsk
SpotPremium(q) == q.spotBid - q.futuresAsk

(* The signal that reduces the position. *)
Closing == IF spotPosition > 0 THEN "SellSpot" ELSE "BuySpot"

BasisCollapsed(q) ==
  (IF spotPosition > 0 THEN FuturesPremium(q) ELSE SpotPremium(q)) < ExitThreshold

HeldTooLong(t) == entryTime > 0 /\ t - entryTime > MaxHoldingPeriod

ComputeSignal(q, invalid, t) ==
  IF \/ invalid \in {q.spotBid, q.spotAsk, q.futuresBid, q.futuresAsk}
     \/ AtPositionLimit
  THEN "None"
  ELSE IF FuturesPremium(q) > EntryThreshold THEN "BuySpot"
  ELSE IF SpotPremium(q) > EntryThreshold THEN "SellSpot"
  ELSE IF spotPosition # 0 /\ (BasisCollapsed(q) \/ HeldTooLong(t)) THEN Closing
  ELSE "None"

Order(symbol, side, price) ==
  [symbol |-> symbol, side |-> side, price |-> price, quantity |-> DefaultQty]

GenerateOrders(signal, q) ==
  CASE signal = "BuySpot" ->
         <<Order(Spot, "Buy", q.spotAsk), Order(Futures, "Sell", q.futuresBid)>>
    [] signal = "SellSpot" ->
         <<Order(Spot, "Sell", q.spotBid), Order(Futures, "Buy", q.futuresAsk)>>
    [] OTHER -> <<>>

(* onMarketDataInto: the orders for a tick; only an active strategy has    *)
(* any.                                                                    *)
OrdersFor(q, invalid, t) ==
  IF state = "Active" THEN GenerateOrders(ComputeSignal(q, invalid, t), q) ELSE <<>>

OnMarketData(q, invalid, t) ==
  /\ lastSignal' = LET signal == ComputeSignal(q, invalid, t)
                   IN  IF state = "Active" /\ signal # "None" THEN signal ELSE lastSignal
  /\ UNCHANGED <<state, spotPosition, futuresPosition, entryTime>>

-----------------------------------------------------------------------------
(* Mutant: the entry time survives the end of the position. *)
HandleOrderFillKeepsTime(qty, t) ==
  LET direction == CASE lastSignal = "BuySpot" -> 1 [] lastSignal = "SellSpot" -> -1 [] OTHER -> 0
      newSpot == spotPosition + direction * qty
      newFutures == futuresPosition - direction * qty
  IN  /\ spotPosition' = newSpot
      /\ futuresPosition' = newFutures
      /\ entryTime' = IF direction # 0 /\ entryTime = 0 THEN t ELSE entryTime
      /\ UNCHANGED <<state, lastSignal>>

(* handleOrderFill: whichever order was filled, the last signal decides    *)
(* what happens to both positions.                                         *)
HandleOrderFill(qty, t) ==
  LET direction == CASE lastSignal = "BuySpot" -> 1 [] lastSignal = "SellSpot" -> -1 [] OTHER -> 0
      newSpot == spotPosition + direction * qty
      newFutures == futuresPosition - direction * qty
  IN  /\ spotPosition' = newSpot
      /\ futuresPosition' = newFutures
      /\ entryTime' = IF newSpot = 0 /\ newFutures = 0 THEN 0
                      ELSE IF direction # 0 /\ entryTime = 0 THEN t ELSE entryTime
      /\ UNCHANGED <<state, lastSignal>>
=============================================================================
