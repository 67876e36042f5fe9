--------------------------- MODULE GatewayExchange ---------------------------
(***************************************************************************)
(* The gateway, a FIX session and an exchange.  The exchange is not in the *)
(* repository: it takes the messages in the order they were sent, accepts  *)
(* or rejects an order, fills it as it likes, and answers cancels and      *)
(* replaces.  The session delivers both ways in order and only while it is *)
(* logged on; what was handed to it before a logout follows after the next *)
(* logon.  So the exchange's steps are taken when their reports arrive.    *)
(***************************************************************************)
EXTENDS OrderEntryGateway

CONSTANTS
  ReportQueueSize,  (* The room in the queue of execution reports. *)
  NumericOrderIds   (* Whether the exchange's OrderIDs are numbers. *)

ASSUME ExchangeAssumption == ReportQueueSize \in Nat /\ NumericOrderIds \in BOOLEAN

VARIABLES
  resting,  (* The orders live at the exchange: [id -> [symbol, side, leaves, cum]]. *)
  traded,   (* What the exchange has traded for this client, net, by symbol. *)
  unheard   (* History: the orders whose cancellation it reported under the id *)
            (* of the request, which the gateway does not know.                *)

exchangeVars == <<resting, traded, unheard>>
vars == <<gatewayVars, exchangeVars>>

Init ==
  /\ GatewayInit
  /\ resting = <<>>
  /\ traded = [s \in Symbols |-> 0]
  /\ unheard = {}

OnLogon ==
  /\ ~connected
  /\ connected' = TRUE
  /\ UNCHANGED <<now, ring, nextOrderId, tables, missed, sent, reports, exchangeVars>>

OnLogout ==
  /\ SessionDrops
  /\ connected
  /\ connected' = FALSE
  /\ UNCHANGED <<now, ring, nextOrderId, tables, missed, sent, reports, exchangeVars>>

(* The quantities LeavesQty may state of an order.  A report that ends the *)
(* order may leave it out or state 0 (test_fix_parser.cpp), whatever was   *)
(* left of the order; both are 0 to processExecutionReport.                *)
Leaves(execType, order) ==
  IF execType \in {"Canceled", "Rejected"} THEN {0, order.leaves} ELSE {order.leaves}

(* fromApp, processExecutionReport and enqueueExecutionReport: the report   *)
(* is queued, or dropped when the queue is full ("Best effort").  stoull    *)
(* throws for an OrderID that is not a number, before anything is queued.  *)
Report(id, execType, last, order) ==
  \E leaves \in Leaves(execType, order) :
    reports' = IF NumericOrderIds /\ Len(reports) < ReportQueueSize
               THEN Append(reports, [id |-> id, execType |-> execType, last |-> last,
                                     cum |-> order.cum, leaves |-> leaves])
               ELSE reports

Without(id) == [other \in DOMAIN resting \ {id} |-> resting[other]]
With(id, order) == [other \in DOMAIN resting \cup {id} |-> IF other = id THEN order ELSE resting[other]]

(* The next message, of the given action, is received. *)
Receive(action) ==
  /\ connected
  /\ sent # <<>>
  /\ Head(sent).action = action
  /\ sent' = Tail(sent)
  /\ UNCHANGED <<now, ring, nextOrderId, tables, connected, missed, traded>>

Arrived(m) == [symbol |-> m.symbol, side |-> m.side, leaves |-> m.quantity, cum |-> 0]

AcceptOrder ==
  /\ Receive("New")
  /\ LET m == Head(sent)
     IN  resting' = With(m.id, Arrived(m)) /\ Report(m.id, "New", 0, Arrived(m))
  /\ UNCHANGED unheard

RejectOrder ==
  /\ Receive("New")
  /\ LET m == Head(sent) IN Report(m.id, "Rejected", 0, Arrived(m))
  /\ UNCHANGED <<resting, unheard>>

(* The request has an id of its own, which a confirmation carries as its   *)
(* ClOrdID (the order's is the OrigClOrdID, which the gateway does not      *)
(* look at); exchanges that keep the order's id confirm under that one.  A *)
(* cancel for an order that is no longer there is refused with a message   *)
(* that is not an execution report.                                        *)
HandleCancel ==
  /\ Receive("Cancel")
  /\ LET m == Head(sent)
     IN  \/ /\ m.orig \in DOMAIN resting
            /\ resting' = Without(m.orig)
            /\ \/ /\ Report(m.orig, "Canceled", 0, resting[m.orig])
                  /\ UNCHANGED unheard
               \/ /\ Report(m.id, "Canceled", 0, resting[m.orig])
                  /\ unheard' = unheard \cup {m.orig}
         \/ /\ m.orig \notin DOMAIN resting
            /\ UNCHANGED <<resting, unheard, reports>>

(* The order goes on under the id of the replace request; a new quantity   *)
(* below what is filled is refused.                                        *)
HandleReplace ==
  /\ Receive("Replace")
  /\ LET m == Head(sent)
         replaceable == m.orig \in DOMAIN resting /\ m.quantity > resting[m.orig].cum
     IN  \/ /\ replaceable
            /\ LET order == [resting[m.orig] EXCEPT !.leaves = m.quantity - resting[m.orig].cum]
               IN  /\ resting' = [id \in (DOMAIN resting \ {m.orig}) \cup {m.id} |->
                                    IF id = m.id THEN order ELSE resting[id]]
                   /\ Report(m.id, "Replaced", 0, order)
         \/ /\ ~replaceable
            /\ UNCHANGED <<resting, reports>>
  /\ UNCHANGED unheard

Fill(id, quantity) ==
  LET order == [resting[id] EXCEPT !.leaves = @ - quantity, !.cum = @ + quantity]
  IN  /\ connected
      /\ resting' = IF order.leaves = 0 THEN Without(id) ELSE With(id, order)
      /\ traded' = [traded EXCEPT ![order.symbol] = @ + Signed(order.side, quantity)]
      /\ Report(id, IF order.leaves = 0 THEN "Filled" ELSE "PartiallyFilled", quantity, order)
      /\ UNCHANGED <<now, ring, nextOrderId, tables, connected, missed, sent, unheard>>

Answer == AcceptOrder \/ RejectOrder \/ HandleCancel \/ HandleReplace

Next ==
  \/ GatewayNext /\ UNCHANGED exchangeVars
  \/ OnLogon
  \/ OnLogout
  \/ Answer
  \/ \E id \in DOMAIN resting : \E quantity \in 1 .. resting[id].leaves : Fill(id, quantity)

Spec == Init /\ [][Next]_vars

(* The gateway's thread keeps taking reports, the session is logged on     *)
(* again and again (QuickFIX reconnects), long enough for the exchange to   *)
(* answer; nobody has to submit, cancel or trade.                          *)
FairSpec ==
  /\ Spec
  /\ WF_vars(OnExecutionReport /\ UNCHANGED exchangeVars)
  /\ WF_vars(OnLogon)
  /\ SF_vars(Answer)

-----------------------------------------------------------------------------
(* Properties *)

(* Once every report is processed the position the gateway shows           *)
(* (getPosition) is what the exchange has traded.                          *)
PositionMatchesExchange == reports = <<>> => positions = traded

(* Once every message and report is processed, the orders the gateway      *)
(* counts as open are those live at the exchange, with the same remaining  *)
(* quantity, and the cancelled ones it was not told of under an id it knows. *)
OpenOrdersMatchExchange ==
  sent = <<>> /\ reports = <<>> =>
    /\ OpenOrders \ unheard = DOMAIN resting
    /\ \A id \in DOMAIN resting : orders[id].remainingQty = resting[id].leaves

(* Gateway and exchange agree, across logouts in the middle of anything, as *)
(* long as every message has left.  One that has not (a cancel too) leaves *)
(* them at odds about the open orders, never about the position.           *)
AgreesWithExchange ==
  /\ PositionMatchesExchange
  /\ ~missed => OpenOrdersMatchExchange

(* An order that left does not hold a place in the pending set for ever.   *)
PendingIsAnswered ==
  \A id \in 1 .. MaxIds : id \in pendingOrders ~> id \notin pendingOrders \/ missed

CancelRequested(id) == id \in DOMAIN orders /\ orders[id].status = "PendingCancel"

(* The exchange has the order, or will have it. *)
CanTrade(id) ==
  \/ id \in DOMAIN resting
  \/ \E k \in DOMAIN sent : sent[k].action = "New" /\ sent[k].id = id

(* "Cancel an existing order." (cancelOrder): an order whose cancellation  *)
(* was requested trades no more in the end, wherever the request crosses   *)
(* it, even while the order itself is still on its way.                    *)
CancelStopsTrading ==
  \A id \in 1 .. MaxIds : CancelRequested(id) ~> ~CanTrade(id) \/ missed
=============================================================================
