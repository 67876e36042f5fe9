-------------------------- MODULE OrderEntryGateway --------------------------
(***************************************************************************)
(* OrderEntryGateway (include/gateway/OrderEntryGateway.hpp): the orders a *)
(* strategy has submitted, the checks made before one is sent, and the     *)
(* positions kept from the execution reports.  It is not thread-safe: one  *)
(* thread makes all the calls, and each action is a whole call.            *)
(*                                                                         *)
(* Both ways lead through QuickFixApplication (include/market_data/        *)
(* QuickFixApplication.hpp): m_sendCallback calls its send functions, which *)
(* send only while the session is logged on, and reports is its queue of   *)
(* execution reports.  The other end of the session is in GatewayExchange. *)
(***************************************************************************)
EXTENDS RateLimiter, Sequences, FiniteSets, SequencesExt, FiniteSetsExt

CONSTANTS
  Symbols,
  Requests,              (* The OrderRequests strategies make: [symbol, side, price, quantity]. *)
  MaxPositionPerSymbol, MaxPendingOrders, MaxOpenOrders,
  MaxOrderValue,         (* In units of price times quantity. *)
  EnableRiskChecks,      (* These are of GatewayConfig. *)
  SessionDrops,          (* Whether the session may log out. *)
  ReplaceQuantities,     (* The newQty of calls of replaceOrder: 0 keeps the quantity. *)
  MaxIds, MaxTime        (* Bounds of the model: client order ids, clock. *)

ASSUME GatewayAssumption ==
  /\ Requests \subseteq [symbol : Symbols, side : {"Buy", "Sell"}, price : Int, quantity : Int]
  /\ MaxPositionPerSymbol \in Nat
  /\ MaxPendingOrders \in Nat
  /\ MaxOpenOrders \in Nat
  /\ MaxOrderValue \in Int
  /\ ReplaceQuantities \subseteq Int
  /\ MaxIds \in Nat
  /\ MaxTime \in Nat

VARIABLES
  now,                   (* nowNanos *)
  ring,                  (* m_orderTimeHead, m_orderTimeCount, m_orderTimes *)
  nextOrderId,           (* m_nextOrderId *)
  orders,                (* m_orders *)
  pendingOrders,         (* m_pendingOrders *)
  positions,             (* m_positions, 0 for a symbol not in the map *)
  pendingPositions,      (* m_pendingPositions, likewise *)
  connected,             (* m_connected of QuickFixApplication *)
  missed,                (* History: whether a message has not left. *)
  sent,                  (* Outbound messages that left, not yet received. *)
  reports                (* Execution reports queued for the gateway. *)

tables == <<orders, pendingOrders, positions, pendingPositions>>
gatewayVars == <<now, ring, nextOrderId, tables, connected, missed, sent, reports>>

Terminal == {"Filled", "Canceled", "Rejected"}

(* isActive *)
Active == {"New", "PartiallyFilled", "PendingNew", "PendingCancel"}

OpenOrders == {id \in DOMAIN orders : orders[id].status \in Active}

Signed(side, quantity) == IF side = "Buy" THEN quantity ELSE -quantity
Magnitude(x) == IF x < 0 THEN -x ELSE x

GatewayInit ==
  /\ now = 0
  /\ ring = EmptyRing
  /\ nextOrderId = 1
  /\ orders = <<>>
  /\ pendingOrders = {}
  /\ positions = [s \in Symbols |-> 0]
  /\ pendingPositions = [s \in Symbols |-> 0]
  /\ connected = FALSE
  /\ missed = FALSE
  /\ sent = <<>>
  /\ reports = <<>>

Tick ==
  /\ now < MaxTime
  /\ now' = now + 1
  /\ UNCHANGED <<ring, nextOrderId, tables, connected, missed, sent, reports>>

(* sendNewOrder, sendCancelOrder and sendReplaceOrder return false while   *)
(* the session is down, and (void)m_sendCallback(message) ignores it: the  *)
(* gateway cannot tell a message that left from one that did not.  The     *)
(* session may go down, or come up, between the messages of one call: n of *)
(* them leave, the k-th to leave being messages[left[k]].                  *)
Send(messages) ==
  \E n \in 0 .. Len(messages) : \E left \in [1 .. n -> DOMAIN messages] :
    /\ \A j, k \in 1 .. n : j < k => left[j] < left[k]
    /\ connected = (\E k \in 1 .. n : left[k] = 1)
    /\ SessionDrops \/ n \in {0, Len(messages)}
    /\ sent' = sent \o [k \in 1 .. n |-> messages[left[k]]]
    /\ missed' = (missed \/ n # Len(messages))
    /\ connected' = (\E k \in 1 .. n : left[k] = Len(messages))

-----------------------------------------------------------------------------
(* Submission *)

(* Mutant: what is still pending does not count. *)
ExceedsByPositionAlone(r) ==
  Magnitude(positions[r.symbol] + Signed(r.side, r.quantity)) > MaxPositionPerSymbol

WouldExceedPositionLimit(r) ==
  Magnitude(positions[r.symbol] + pendingPositions[r.symbol] + Signed(r.side, r.quantity))
    > MaxPositionPerSymbol

(* Mutant: one more than the limits. *)
PassesLooseRiskChecks(r) ==
  /\ r.price > 0 /\ r.quantity > 0 /\ r.price * r.quantity <= MaxOrderValue
  /\ ~WouldExceedPositionLimit(r)
  /\ Cardinality(pendingOrders) <= MaxPendingOrders
  /\ Cardinality(OpenOrders) <= MaxOpenOrders

PassesRiskChecks(r) ==
  /\ r.price > 0
  /\ r.quantity > 0
  /\ r.price * r.quantity <= MaxOrderValue
  /\ ~WouldExceedPositionLimit(r)
  /\ Cardinality(pendingOrders) < MaxPendingOrders
  /\ Cardinality(OpenOrders) < MaxOpenOrders

(* Requests are counted by the rate limiter before the risk checks look at *)
(* them, and stay counted when these refuse.                               *)
Accepts(r) == Admits(ring, now) /\ (EnableRiskChecks => PassesRiskChecks(r))

NewOrder(r) ==
  [symbol |-> r.symbol, side |-> r.side, orderQty |-> r.quantity,
   filledQty |-> 0, remainingQty |-> r.quantity, status |-> "PendingNew"]

SubmitOrder(r) ==
  /\ nextOrderId <= MaxIds
  /\ ring' = AfterCheck(ring, now)
  /\ \/ /\ ~Accepts(r)
        /\ UNCHANGED <<nextOrderId, tables, connected, missed, sent>>
     \/ /\ Accepts(r)
        /\ nextOrderId' = nextOrderId + 1
        /\ orders' = [id \in DOMAIN orders \cup {nextOrderId} |->
                        IF id = nextOrderId THEN NewOrder(r) ELSE orders[id]]
        /\ pendingOrders' = pendingOrders \cup {nextOrderId}
        /\ pendingPositions' = [pendingPositions EXCEPT ![r.symbol] = @ + Signed(r.side, r.quantity)]
        /\ Send(<<[action |-> "New", id |-> nextOrderId, orig |-> 0, symbol |-> r.symbol,
                   side |-> r.side, quantity |-> r.quantity]>>)
        /\ UNCHANGED positions
  /\ UNCHANGED <<now, reports>>

-----------------------------------------------------------------------------
(* Cancel and replace *)

(* Mutant: the id of the request and that of the order change places. *)
CancelMessagesSwapped(ids) ==
  [k \in DOMAIN ids |->
     [action |-> "Cancel", id |-> ids[k], orig |-> nextOrderId + k - 1,
      symbol |-> orders[ids[k]].symbol, side |-> orders[ids[k]].side, quantity |-> 0]]

(* The cancel requests for a sequence of orders, ids drawn in that order. *)
CancelMessages(ids) ==
  [k \in DOMAIN ids |->
     [action |-> "Cancel", id |-> nextOrderId + k - 1, orig |-> ids[k],
      symbol |-> orders[ids[k]].symbol, side |-> orders[ids[k]].side, quantity |-> 0]]

Cancel(ids) ==
  /\ nextOrderId + Len(ids) - 1 <= MaxIds
  /\ nextOrderId' = nextOrderId + Len(ids)
  /\ orders' = [id \in DOMAIN orders |->
                  IF id \in ToSet(ids) THEN [orders[id] EXCEPT !.status = "PendingCancel"]
                                       ELSE orders[id]]
  /\ Send(CancelMessages(ids))
  /\ UNCHANGED <<now, ring, pendingOrders, positions, pendingPositions, reports>>

(* Mutant: an order that is done is cancelled like any other. *)
CancelAnyOrder(id) == id \in DOMAIN orders /\ Cancel(<<id>>)

(* Returns false and does nothing for an order that is unknown or done. *)
CancelOrder(id) == id \in OpenOrders /\ Cancel(<<id>>)

(* The orders are taken in the order of the hash map. *)
CancelAllOrders(symbol) ==
  \E ids \in SetToSeqs({id \in OpenOrders : orders[id].symbol = symbol}) :
    ids # <<>> /\ Cancel(ids)

(* Only the message is sent: neither the order nor the new id is recorded. *)
ReplaceOrder(id, newQty) ==
  /\ nextOrderId <= MaxIds
  /\ id \in OpenOrders
  /\ nextOrderId' = nextOrderId + 1
  /\ Send(<<[action |-> "Replace", id |-> nextOrderId, orig |-> id, symbol |-> orders[id].symbol,
             side |-> orders[id].side,
             quantity |-> IF newQty > 0 THEN newQty ELSE orders[id].orderQty]>>)
  /\ UNCHANGED <<now, ring, tables, reports>>

-----------------------------------------------------------------------------
(* Execution reports *)

(* Mutant: the case of EXEC_TYPE_CANCELED is missing. *)
StatusWithoutCanceled(execType) ==
  IF execType \in {"PartiallyFilled", "Filled", "Rejected"} THEN execType ELSE "New"

(* The switch on ExecType: any type it does not name becomes New. *)
StatusOf(execType) ==
  IF execType \in {"PartiallyFilled", "Filled", "Canceled", "Rejected"} THEN execType ELSE "New"

Updated(order, report) ==
  [order EXCEPT !.status = StatusOf(report.execType),
                !.filledQty = report.cum, !.remainingQty = report.leaves]

(* Mutant: an acknowledged order stays in the pending set. *)
StillPendingOnceNew(report) ==
  IF StatusOf(report.execType) \in Terminal THEN pendingOrders \ {report.id} ELSE pendingOrders

(* New, and cleanupOrder on a terminal status; a partial fill does not take *)
(* an order out of the set.                                                *)
PendingAfter(report) ==
  IF StatusOf(report.execType) = "PartiallyFilled" THEN pendingOrders
  ELSE pendingOrders \ {report.id}

(* Mutant: the cumulative quantity is taken for that of the fill. *)
FilledSoFar(report) ==
  IF StatusOf(report.execType) \in {"Filled", "PartiallyFilled"} THEN report.cum ELSE 0

(* updatePositionOnFill, with the quantity of this fill *)
Filled(report) ==
  IF StatusOf(report.execType) \in {"Filled", "PartiallyFilled"} THEN report.last ELSE 0

(* Mutant: a cancelled order keeps its reservation. *)
ReleasedOnFillOnly(report) == Filled(report)

(* ... and updatePositionOnCancel, with the remaining quantity the report  *)
(* has just overwritten: what stops being reserved.                        *)
Released(report) ==
  IF StatusOf(report.execType) \in {"Canceled", "Rejected"} THEN report.leaves ELSE Filled(report)

OnExecutionReport ==
  /\ reports # <<>>
  /\ reports' = Tail(reports)
  /\ LET report == Head(reports)
         id == report.id
     IN  \/ /\ id \notin DOMAIN orders
            /\ UNCHANGED tables
         \/ /\ id \in DOMAIN orders
            /\ orders' = [orders EXCEPT ![id] = Updated(@, report)]
            /\ pendingOrders' = PendingAfter(report)
            /\ positions' = [positions EXCEPT ![orders[id].symbol] =
                               @ + Signed(orders[id].side, Filled(report))]
            /\ pendingPositions' = [pendingPositions EXCEPT ![orders[id].symbol] =
                                      @ - Signed(orders[id].side, Released(report))]
  /\ UNCHANGED <<now, ring, nextOrderId, connected, missed, sent>>

GatewayNext ==
  \/ Tick
  \/ \E r \in Requests : SubmitOrder(r)
  \/ \E id \in DOMAIN orders : CancelOrder(id)
  \/ \E id \in DOMAIN orders, newQty \in ReplaceQuantities : ReplaceOrder(id, newQty)
  \/ \E symbol \in Symbols : CancelAllOrders(symbol)
  \/ OnExecutionReport

-----------------------------------------------------------------------------
(* Properties *)

Statuses == Terminal \cup Active

TypeOK ==
  /\ now \in 0 .. MaxTime /\ connected \in BOOLEAN
  /\ ring \in [head : RingSlot, count : 0 .. Limit, times : [RingSlot -> Nat]]
  /\ nextOrderId \in 1 .. MaxIds + 1
  /\ DOMAIN orders \subseteq 1 .. nextOrderId - 1
  /\ \A id \in DOMAIN orders :
       orders[id] \in [symbol : Symbols, side : {"Buy", "Sell"}, orderQty : Nat \ {0},
                       filledQty : Nat, remainingQty : Nat, status : Statuses]
  /\ pendingOrders \subseteq DOMAIN orders
  /\ positions \in [Symbols -> Int]
  /\ pendingPositions \in [Symbols -> Int]

Of(symbol) == {id \in DOMAIN orders : orders[id].symbol = symbol}

(* What each order can still trade, and what it has traded, signed. *)
SignedRemaining == [id \in DOMAIN orders |-> Signed(orders[id].side, orders[id].remainingQty)]
SignedFilled == [id \in DOMAIN orders |-> Signed(orders[id].side, orders[id].filledQty)]

(* What the last report of an order kept back: neither filled nor left. *)
Unstated(id) == orders[id].orderQty - orders[id].filledQty - orders[id].remainingQty

(* What stays reserved for it. *)
Reserved(id) == IF id \in OpenOrders THEN orders[id].remainingQty ELSE Unstated(id)
SignedReserved == [id \in DOMAIN orders |-> Signed(orders[id].side, Reserved(id))]

(* "Reserve position for pending order" (updatePositionOnOrder), "Release  *)
(* reserved position" (OnCancel): nothing is reserved but what the open    *)
(* orders could still trade.                                               *)
ReservesOpenQuantity ==
  \A s \in Symbols : pendingPositions[s] = SumFunctionOnSet(SignedRemaining, Of(s) \cap OpenOrders)

(* What submitOrder reserves is given back once, by the fills and by what  *)
(* the report that ends the order states as left.  So the pending position *)
(* is what the open orders could still trade, with the part of the closed  *)
(* ones their last report kept back, which stays reserved for ever.        *)
ReservationsAccounted ==
  /\ \A id \in DOMAIN orders : Unstated(id) >= 0 /\ (id \in OpenOrders => Unstated(id) = 0)
  /\ \A s \in Symbols : pendingPositions[s] = SumFunctionOnSet(SignedReserved, Of(s))

(* The position, accumulated from the quantity of each fill, equals the    *)
(* cumulative quantities the reports state, over all the orders ever sent. *)
PositionIsFilledQuantity ==
  \A s \in Symbols : positions[s] = SumFunctionOnSet(SignedFilled, Of(s))

(* "Maximum pending orders (not yet acknowledged)", "awaiting ack": the    *)
(* pending set has every order in PendingNew and none the exchange has     *)
(* answered.                                                               *)
PendingAwaitAck ==
  /\ \A id \in pendingOrders :
       orders[id].status \in {"PendingNew", "PendingCancel"} /\ orders[id].filledQty = 0
  /\ \A id \in DOMAIN orders : orders[id].status = "PendingNew" => id \in pendingOrders

(* The tables agree with each other: every report is booked once, on the  *)
(* order and on the position, and moves the order out of the pending set   *)
(* (onExecutionReport).                                                    *)
TablesConsistent == TypeOK /\ PositionIsFilledQuantity /\ PendingAwaitAck

(* Checked when an order is submitted, the limits hold at all times:       *)
(* nothing that comes back makes an order open or pending again.           *)
OrderLimitsHold ==
  /\ Cardinality(pendingOrders) <= MaxPendingOrders
  /\ Cardinality(OpenOrders) <= MaxOpenOrders

(* Where all orders of a symbol are on one side, fills can only move       *)
(* exposure from pending to filled, and the check at submit bounds the     *)
(* position for good, whatever is filled, cancelled or rejected and when.  *)
(* With orders on both sides the bound is not kept: the check takes the    *)
(* net of what is pending, so a pending sell makes room for a buy.         *)
OneSidedPositionHolds ==
  \A s \in Symbols :
    (\E side \in {"Buy", "Sell"} :
       \A id \in DOMAIN orders : orders[id].symbol = s => orders[id].side = side)
    => Magnitude(positions[s]) <= MaxPositionPerSymbol

(* A filled, cancelled or rejected order stays as it is: no call and no    *)
(* report in order brings it back.                                         *)
DoneIsDone ==
  [][\A id \in DOMAIN orders :
       orders[id].status \in Terminal => orders'[id] = orders[id]]_gatewayVars
=============================================================================
