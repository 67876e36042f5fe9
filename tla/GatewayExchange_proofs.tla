------------------------ MODULE GatewayExchange_proofs ------------------------
(***************************************************************************)
(* The order gateway with its session and exchange, for every set of       *)
(* requests, every limit and any number of orders.                         *)
(*                                                                         *)
(* LifeInv follows an order through its life: on its way, live, reported   *)
(* on, done.  It holds whatever is lost.  AccountInv follows quantities:   *)
(* the reports queued for an order continue one another from what the      *)
(* gateway believes to what the exchange knows.  It holds as long as no    *)
(* report is dropped.  AgreementInv, of orders that are not replaced, says *)
(* where every open order is, and that what the exchange has traded is     *)
(* what it has told.                                                       *)
(***************************************************************************)
EXTENDS GatewayExchange, FiniteSums_proofs

Sides == {"Buy", "Sell"}
ExecTypes == {"New", "PartiallyFilled", "Filled", "Canceled", "Rejected", "Replaced"}

Message ==
  [action : {"New", "Cancel", "Replace"}, id : Nat \ {0}, orig : Nat, symbol : Symbols, side : Sides,
   quantity : Nat]
ExecutionReport == [id : Nat, execType : ExecTypes, last : Nat, cum : Nat, leaves : Nat]
LiveOrder == [symbol : Symbols, side : Sides, leaves : Nat \ {0}, cum : Nat]

(* What is on the way and what rests at the exchange, all of an id drawn.  *)
WireOK ==
  /\ sent \in Seq(Message)
  /\ \A k \in DOMAIN sent :
       sent[k].id < nextOrderId /\ (sent[k].action # "Cancel" => sent[k].quantity # 0)
  /\ reports \in Seq(ExecutionReport)
  /\ \A k \in DOMAIN reports : reports[k].id < nextOrderId
  /\ DOMAIN resting \subseteq 1 .. nextOrderId - 1
  /\ \A id \in DOMAIN resting : resting[id] \in LiveOrder
  /\ traded \in [Symbols -> Int]
  /\ missed \in BOOLEAN

-----------------------------------------------------------------------------
(* The life of an order.  The predicates take the values they speak of:    *)
(* os for orders, ms for sent, rs for reports, live for resting.           *)

(* An order on its way is as it was submitted, and nothing is known of it  *)
(* at the other end.                                                       *)
OnTheWay(os, ms, rs, live) ==
  \A k \in DOMAIN ms :
    LET id == ms[k].id
    IN  ms[k].action = "New" =>
          /\ id \in DOMAIN os
          /\ os[id].status \in {"PendingNew", "PendingCancel"}
          /\ os[id].symbol = ms[k].symbol /\ os[id].side = ms[k].side
          /\ os[id].filledQty = 0 /\ os[id].remainingQty = ms[k].quantity
          /\ id \notin DOMAIN live
          /\ \A i \in DOMAIN rs : rs[i].id # id

SentOnce(ms) ==
  \A j, k \in DOMAIN ms :
    ms[j].action = "New" /\ ms[k].action = "New" /\ ms[j].id = ms[k].id => j = k

(* The id of a request to cancel or replace is that of no order here. *)
RequestsUnknown(os, ms) ==
  \A k \in DOMAIN ms : ms[k].action # "New" => ms[k].id \notin DOMAIN os

(* A live order is open here, and no report under way ends it. *)
LiveIsOpen(os, rs, live) ==
  \A id \in DOMAIN live \cap DOMAIN os :
    /\ os[id].status \notin Terminal
    /\ os[id].symbol = live[id].symbol /\ os[id].side = live[id].side
    /\ \A k \in DOMAIN rs : rs[k].id = id => rs[k].execType \notin Terminal

(* The report that ends an order is the last one of it. *)
EndIsLast(os, rs) ==
  \A j, k \in DOMAIN rs :
    rs[j].id \in DOMAIN os /\ rs[k].id = rs[j].id /\ rs[j].execType \in Terminal => k <= j

(* Reports are of open orders. *)
ReportsOpen(os, rs) ==
  \A k \in DOMAIN rs : rs[k].id \in DOMAIN os => os[rs[k].id].status \notin Terminal

Life(os, ms, rs, live) ==
  /\ OnTheWay(os, ms, rs, live)
  /\ SentOnce(ms)
  /\ RequestsUnknown(os, ms)
  /\ LiveIsOpen(os, rs, live)
  /\ EndIsLast(os, rs)
  /\ ReportsOpen(os, rs)

LifeInv == TypeOK /\ WireOK /\ Life(orders, sent, reports, resting) /\ OrderLimitsHold

-----------------------------------------------------------------------------
(* The account of an order: what of it is filled and what is left.         *)

(* A report takes an account from one state to the next; one that ends the *)
(* order may leave out what was left of it.                                *)
Continues(filled, remaining, r) ==
  /\ r.cum = filled + r.last /\ r.last <= remaining
  /\ r.leaves = remaining - r.last \/ (r.execType \in {"Canceled", "Rejected"} /\ r.leaves = 0)

FirstOf(rs, k) == \A j \in DOMAIN rs : j < k => rs[j].id # rs[k].id
LastOf(rs, k) == \A j \in DOMAIN rs : k < j => rs[j].id # rs[k].id

(* The j-th report is the last one before the k-th of the same order. *)
Precedes(rs, j, k) ==
  /\ j < k /\ rs[j].id = rs[k].id
  /\ \A i \in DOMAIN rs : j < i /\ i < k => rs[i].id # rs[k].id

(* Only a fill moves quantity, and one that ends an order leaves nothing.  *)
FillsOnly(rs) ==
  \A k \in DOMAIN rs :
    /\ rs[k].execType \notin {"PartiallyFilled", "Filled"} => rs[k].last = 0
    /\ rs[k].execType = "Filled" => rs[k].leaves = 0

FirstContinues(os, rs) ==
  \A k \in DOMAIN rs :
    rs[k].id \in DOMAIN os /\ FirstOf(rs, k) =>
      Continues(os[rs[k].id].filledQty, os[rs[k].id].remainingQty, rs[k])

OthersContinue(os, rs) ==
  \A j, k \in DOMAIN rs :
    rs[k].id \in DOMAIN os /\ Precedes(rs, j, k) => Continues(rs[j].cum, rs[j].leaves, rs[k])

LastAgrees(os, rs, live) ==
  \A k \in DOMAIN rs :
    rs[k].id \in DOMAIN os \cap DOMAIN live /\ LastOf(rs, k) =>
      live[rs[k].id].cum = rs[k].cum /\ live[rs[k].id].leaves = rs[k].leaves

NothingToTell(os, rs, live) ==
  \A id \in DOMAIN os \cap DOMAIN live :
    (\A k \in DOMAIN rs : rs[k].id # id) =>
      live[id].cum = os[id].filledQty /\ live[id].leaves = os[id].remainingQty

(* An order is answered before it fills in part: the first report of a     *)
(* pending one is no partial fill, and a live one has a report under way.  *)
AnsweredFirst(os, pending, rs, live) ==
  /\ \A k \in DOMAIN rs :
       rs[k].id \in pending /\ FirstOf(rs, k) => rs[k].execType # "PartiallyFilled"
  /\ \A id \in pending \cap DOMAIN live : \E k \in DOMAIN rs : rs[k].id = id

Account(os, pending, rs, live) ==
  /\ FillsOnly(rs)
  /\ FirstContinues(os, rs)
  /\ OthersContinue(os, rs)
  /\ LastAgrees(os, rs, live)
  /\ NothingToTell(os, rs, live)
  /\ AnsweredFirst(os, pending, rs, live)

(* With all orders of a symbol on one side, what it holds and what it may  *)
(* still trade are within the limit together.                              *)
OneSided(s) ==
  \E side \in Sides : \A id \in Of(s) : orders[id].side = side

ExposureBounded ==
  \A s \in Symbols :
    OneSided(s) => Magnitude(positions[s] + pendingPositions[s]) <= MaxPositionPerSymbol

RoomForReports == NumericOrderIds /\ Len(reports) < ReportQueueSize

(* The tables among themselves. *)
Balanced == PendingAwaitAck /\ PositionIsFilledQuantity /\ ReservationsAccounted /\ ExposureBounded

AccountInv == Account(orders, pendingOrders, reports, resting) /\ Balanced

-----------------------------------------------------------------------------
(* Both ends. *)

(* What the exchange has filled of each order: what the last report under  *)
(* way says, or the gateway knows, and what it is while the order lives.   *)
Tells(told, os, rs, live) ==
  /\ told \in [DOMAIN os -> Nat]
  /\ \A k \in DOMAIN rs :
       rs[k].id \in DOMAIN os /\ LastOf(rs, k) => told[rs[k].id] = rs[k].cum
  /\ \A id \in DOMAIN os :
       (\A k \in DOMAIN rs : rs[k].id # id) => told[id] = os[id].filledQty
  /\ \A id \in DOMAIN os \cap DOMAIN live : told[id] = live[id].cum

SignedTold(told) == [id \in DOMAIN orders |-> Signed(orders[id].side, told[id])]

TradedAsTold(told) ==
  /\ Tells(told, orders, reports, resting)
  /\ \A s \in Symbols : traded[s] = SumFunctionOnSet(SignedTold(told), Of(s))

(* Every open order is on its way, live, or ended by a report under way,   *)
(* but for those whose cancellation was reported under another id.         *)
Whereabouts(id, ms, rs, live) ==
  \/ \E k \in DOMAIN ms : ms[k].action = "New" /\ ms[k].id = id
  \/ id \in DOMAIN live
  \/ \E k \in DOMAIN rs : rs[k].id = id /\ rs[k].execType \in Terminal

Accounted == \A id \in OpenOrders \ unheard : Whereabouts(id, sent, reports, resting)

(* Those are at the exchange no more, nor on their way to it. *)
UnheardGone ==
  /\ unheard \subseteq DOMAIN orders
  /\ unheard \cap DOMAIN resting = {}
  /\ \A k \in DOMAIN sent : sent[k].action = "New" => sent[k].id \notin unheard

NoReplaces ==
  /\ \A k \in DOMAIN sent : sent[k].action # "Replace"
  /\ DOMAIN resting \subseteq DOMAIN orders

AgreementInv ==
  /\ NoReplaces
  /\ UnheardGone
  /\ \E told : TradedAsTold(told)
  /\ ~missed => Accounted

-----------------------------------------------------------------------------
(* Sequences. *)

(* The elements of a sequence that grew by one are the old and the new.    *)
LEMMA Grown ==
  ASSUME NEW S, NEW q \in Seq(S), NEW e \in S, NEW p, p = Append(q, e)
  PROVE  /\ p \in Seq(S)
         /\ Len(q) \in Nat /\ Len(p) = Len(q) + 1
         /\ DOMAIN q = 1 .. Len(q) /\ DOMAIN p = 1 .. Len(q) + 1
         /\ p[Len(q) + 1] = e
         /\ \A k \in DOMAIN q : p[k] = q[k]
OBVIOUS

(* The elements of a sequence without its first. *)
LEMMA Shrunk ==
  ASSUME NEW S, NEW q \in Seq(S), q # <<>>, NEW p, p = Tail(q)
  PROVE  /\ p \in Seq(S)
         /\ Len(q) \in Nat \ {0} /\ Len(p) = Len(q) - 1
         /\ DOMAIN q = 1 .. Len(q) /\ DOMAIN p = 1 .. Len(q) - 1
         /\ Head(q) = q[1] /\ Head(q) \in S
         /\ \A k \in DOMAIN p : k + 1 \in DOMAIN q /\ p[k] = q[k + 1]
OBVIOUS

(* The elements of two sequences, one after the other. *)
LEMMA Joined ==
  ASSUME NEW S, NEW q \in Seq(S), NEW t \in Seq(S), NEW p, p = q \o t
  PROVE  /\ p \in Seq(S)
         /\ Len(q) \in Nat /\ Len(t) \in Nat /\ Len(p) = Len(q) + Len(t)
         /\ DOMAIN q = 1 .. Len(q) /\ DOMAIN p = 1 .. Len(q) + Len(t)
         /\ \A k \in DOMAIN q : p[k] = q[k]
         /\ \A k \in (DOMAIN p) \ (DOMAIN q) : k - Len(q) \in DOMAIN t /\ p[k] = t[k - Len(q)]
OBVIOUS

-----------------------------------------------------------------------------
(* The operations. *)

(* The ring of the limiter stays a ring. *)
LEMMA RingStays ==
  ASSUME TypeOK
  PROVE  AfterCheck(ring, now) \in [head : RingSlot, count : 0 .. Limit, times : [RingSlot -> Nat]]
<1> DEFINE Ring == [head : RingSlot, count : 0 .. Limit, times : [RingSlot -> Nat]]
<1>1. /\ ring \in Ring /\ now \in Nat
      /\ QueueCapacity \in Nat \ {0} /\ Limit \in Nat /\ Limit <= QueueCapacity
  BY LimiterAssumption, GatewayAssumption DEF TypeOK, Limit
<1> DEFINE c == ring.count
           Out == {k \in 0 .. c : OutsideWindow(ring, k, now)}
           Stop(k) == /\ \A j \in 0 .. k - 1 : OutsideWindow(ring, j, now)
                      /\ k < c => ~OutsideWindow(ring, k, now)
<1>2. c \in Nat /\ c <= Limit
  BY <1>1
<1>3. PICK m \in 0 .. c : (\A j \in 0 .. m - 1 : j \in Out) /\ (m < c => m \notin Out)
  <2> HIDE DEF Out, c
  <2> QED BY <1>2, FirstNotIn
<1>4. m \in 0 .. c /\ Stop(m)
  BY <1>2, <1>3
<1>5. PICK n \in 0 .. c : n = (CHOOSE k \in 0 .. c : Stop(k))
  <2> HIDE DEF Stop
  <2> QED BY <1>4
<1> DEFINE e == Evict(ring, now)
<1>6. e = [ring EXCEPT !.head = (@ + n) % QueueCapacity, !.count = @ - n]
  BY <1>5 DEF Evict
<1>7. (ring.head + n) % QueueCapacity \in RingSlot
  BY <1>1, <1>2, Z3 DEF RingSlot
<1>8. c - n \in 0 .. Limit
  BY <1>1, <1>2
<1>9. e \in Ring
  BY <1>1, <1>6, <1>7, <1>8
<1> HIDE DEF e
<1>10. ASSUME HasRoom(e)  PROVE Record(e, now) \in Ring
  <2>1. e.count + 1 \in 0 .. Limit
    BY <1>1, <1>9, <1>10 DEF HasRoom
  <2> QED BY <1>1, <1>9, <2>1 DEF Record
<1> QED BY <1>9, <1>10 DEF AfterCheck, e

(* New messages go behind the old ones. *)
Adds(ms, old, new) ==
  \A k \in DOMAIN ms : IF k \in DOMAIN old THEN ms[k] = old[k] ELSE ms[k] \in new

(* What sending does: messages of the call are added, or some get lost.    *)
LEMMA SendAdds ==
  ASSUME sent \in Seq(Message), missed \in BOOLEAN,
         NEW messages \in Seq(Message), Send(messages)
  PROVE  /\ sent' \in Seq(Message) /\ missed' \in BOOLEAN /\ connected' \in BOOLEAN
         /\ DOMAIN sent \subseteq DOMAIN sent'
         /\ Adds(sent', sent, {messages[i] : i \in DOMAIN messages})
         /\ missed => missed'
<1>1. PICK n \in 0 .. Len(messages) : \E left \in [1 .. n -> DOMAIN messages] :
        /\ sent' = sent \o [k \in 1 .. n |-> messages[left[k]]]
        /\ missed' = (missed \/ n # Len(messages))
        /\ connected' = (\E k \in 1 .. n : left[k] = Len(messages))
  BY DEF Send
<1>2. PICK left \in [1 .. n -> DOMAIN messages] :
        /\ sent' = sent \o [k \in 1 .. n |-> messages[left[k]]]
        /\ missed' = (missed \/ n # Len(messages))
        /\ connected' = (\E k \in 1 .. n : left[k] = Len(messages))
  BY <1>1
<1> DEFINE t == [k \in 1 .. n |-> messages[left[k]]]
<1>3. n \in Nat /\ \A i \in DOMAIN messages : messages[i] \in Message
  OBVIOUS
<1>4. \A k \in 1 .. n : t[k] \in {messages[i] : i \in DOMAIN messages} /\ t[k] \in Message
  BY <1>3
<1>5. t \in Seq(Message) /\ DOMAIN t = 1 .. n
  BY <1>3, <1>4
<1> HIDE DEF t
<1>6. sent' = sent \o t
  BY <1>2 DEF t
<1>7. /\ sent' \in Seq(Message)
      /\ Len(sent) \in Nat /\ Len(t) \in Nat
      /\ DOMAIN sent = 1 .. Len(sent) /\ DOMAIN sent' = 1 .. Len(sent) + Len(t)
      /\ \A k \in DOMAIN sent : sent'[k] = sent[k]
      /\ \A k \in (DOMAIN sent') \ (DOMAIN sent) : k - Len(sent) \in DOMAIN t /\ sent'[k] = t[k - Len(sent)]
  BY <1>5, <1>6, Joined
<1>8. DOMAIN sent \subseteq DOMAIN sent'
  BY <1>7
<1>9. Adds(sent', sent, {messages[i] : i \in DOMAIN messages})
  BY <1>4, <1>5, <1>7 DEF Adds
<1> QED BY <1>2, <1>7, <1>8, <1>9

(* A single message is sent, or the message is missed. *)
LEMMA SendOne ==
  ASSUME sent \in Seq(Message), missed \in BOOLEAN, NEW m \in Message, Send(<<m>>)
  PROVE  \/ sent' = sent /\ missed'
         \/ sent' = Append(sent, m) /\ missed' = missed
<1>1. Len(<<m>>) = 1 /\ <<m>>[1] = m /\ DOMAIN <<m>> = {1}
  OBVIOUS
<1>2. PICK n \in 0 .. 1 : \E left \in [1 .. n -> {1}] :
        /\ sent' = sent \o [k \in 1 .. n |-> <<m>>[left[k]]]
        /\ missed' = (missed \/ n # 1)
  BY <1>1 DEF Send
<1>3. PICK left \in [1 .. n -> {1}] :
        /\ sent' = sent \o [k \in 1 .. n |-> <<m>>[left[k]]]
        /\ missed' = (missed \/ n # 1)
  BY <1>2
<1>4. CASE n = 0
  <2>1. [k \in 1 .. n |-> <<m>>[left[k]]] = <<>>
    BY <1>4
  <2>2. sent \o <<>> = sent
    OBVIOUS
  <2>3. sent' = sent
    BY <1>3, <2>1, <2>2
  <2>4. missed' = (missed \/ n # 1) /\ n # 1
    BY <1>3, <1>4
  <2> QED BY <2>3, <2>4
<1>5. CASE n = 1
  <2>1. [k \in 1 .. n |-> <<m>>[left[k]]] = <<m>>
    BY <1>1, <1>5
  <2>2. sent \o <<m>> = Append(sent, m)
    OBVIOUS
  <2> QED BY <1>3, <1>5, <2>1, <2>2
<1> QED BY <1>4, <1>5

-----------------------------------------------------------------------------
(* The life of an order, step by step. *)

(* Some open orders are marked as being cancelled. *)
Marks(os2, os) ==
  /\ DOMAIN os2 = DOMAIN os
  /\ \A id \in DOMAIN os :
       \/ os2[id] = os[id]
       \/ /\ os[id].status \notin Terminal /\ os2[id].status = "PendingCancel"
          /\ os2[id].symbol = os[id].symbol /\ os2[id].side = os[id].side
          /\ os2[id].orderQty = os[id].orderQty /\ os2[id].filledQty = os[id].filledQty
          /\ os2[id].remainingQty = os[id].remainingQty

(* Messages that ask something about orders sent before. *)
Asks(asked, os) ==
  \A m \in asked : m.action # "New" /\ m.id \notin DOMAIN os

(* Requests to cancel or to replace are sent, and open orders are marked   *)
(* (Cancel, ReplaceOrder).                                                 *)
LEMMA LifeAsks ==
  ASSUME NEW os, NEW ms, NEW rs, NEW live, NEW os2, NEW ms2, NEW asked,
         Life(os, ms, rs, live), Marks(os2, os), Adds(ms2, ms, asked), Asks(asked, os)
  PROVE  Life(os2, ms2, rs, live)
<1>1. /\ DOMAIN os2 = DOMAIN os
      /\ \A id \in DOMAIN os :
           /\ os2[id].symbol = os[id].symbol /\ os2[id].side = os[id].side
           /\ os2[id].filledQty = os[id].filledQty /\ os2[id].remainingQty = os[id].remainingQty
           /\ os2[id].status \notin Terminal <=> os[id].status \notin Terminal
           /\ os[id].status \in {"PendingNew", "PendingCancel"} =>
                os2[id].status \in {"PendingNew", "PendingCancel"}
  BY DEF Marks, Terminal
<1>2. \A k \in DOMAIN ms2 : ms2[k].action = "New" => k \in DOMAIN ms /\ ms2[k] = ms[k]
  BY DEF Adds, Asks
<1>3. OnTheWay(os2, ms2, rs, live)
  BY <1>1, <1>2 DEF Life, OnTheWay
<1>4. SentOnce(ms2)
  BY <1>2 DEF Life, SentOnce
<1>5. RequestsUnknown(os2, ms2)
  BY DEF Life, RequestsUnknown, Adds, Asks, Marks
<1>6. LiveIsOpen(os2, rs, live)
  BY <1>1 DEF Life, LiveIsOpen
<1>7. EndIsLast(os2, rs) /\ ReportsOpen(os2, rs)
  BY <1>1 DEF Life, EndIsLast, ReportsOpen
<1> QED BY <1>3, <1>4, <1>5, <1>6, <1>7 DEF Life

(* A new order is entered in the tables. *)
Enters(os2, os, m) ==
  /\ DOMAIN os2 = DOMAIN os \cup {m.id} /\ m.id \notin DOMAIN os
  /\ \A id \in DOMAIN os : os2[id] = os[id]
  /\ os2[m.id].status = "PendingNew"
  /\ os2[m.id].symbol = m.symbol /\ os2[m.id].side = m.side
  /\ os2[m.id].filledQty = 0 /\ os2[m.id].remainingQty = m.quantity

(* An id not drawn yet is unknown everywhere. *)
Unknown(id, ms, rs, live) ==
  /\ id \notin DOMAIN live
  /\ \A k \in DOMAIN ms : ms[k].id # id
  /\ \A k \in DOMAIN rs : rs[k].id # id

(* A new order is entered, and sent or not (SubmitOrder). *)
LEMMA LifeSubmits ==
  ASSUME NEW os, NEW ms, NEW rs, NEW live, NEW m, NEW os2, NEW ms2,
         ms \in Seq(Message), m \in Message, m.action = "New",
         Life(os, ms, rs, live), Enters(os2, os, m), Unknown(m.id, ms, rs, live),
         ms2 = ms \/ ms2 = Append(ms, m)
  PROVE  Life(os2, ms2, rs, live)
<1>1. \A k \in DOMAIN ms2 : (k \in DOMAIN ms /\ ms2[k] = ms[k]) \/ (k \notin DOMAIN ms /\ ms2[k] = m)
  <2>1. CASE ms2 = ms
    BY <2>1
  <2>2. CASE ms2 = Append(ms, m)
    BY <2>2, Grown
  <2> QED BY <2>1, <2>2
<1>2. \A j, k \in DOMAIN ms2 : j \notin DOMAIN ms /\ k \notin DOMAIN ms => j = k
  <2>1. CASE ms2 = ms
    BY <2>1
  <2>2. CASE ms2 = Append(ms, m)
    BY <2>2, Grown
  <2> QED BY <2>1, <2>2
<1>3. OnTheWay(os2, ms2, rs, live)
  BY <1>1 DEF Enters, Unknown, Life, OnTheWay
<1>4. SentOnce(ms2)
  BY <1>1, <1>2 DEF Enters, Unknown, Life, SentOnce
<1>5. RequestsUnknown(os2, ms2)
  BY <1>1 DEF Enters, Unknown, Life, RequestsUnknown
<1>6. LiveIsOpen(os2, rs, live)
  BY DEF Enters, Unknown, Life, LiveIsOpen
<1>7. EndIsLast(os2, rs)
  BY DEF Enters, Unknown, Life, EndIsLast
<1>8. ReportsOpen(os2, rs)
  BY DEF Enters, Unknown, Life, ReportsOpen
<1> QED BY <1>3, <1>4, <1>5, <1>6, <1>7, <1>8 DEF Life

(* A message is taken off the session (Receive). *)
LEMMA LifeReceives ==
  ASSUME NEW os, NEW ms, NEW rs, NEW live, ms \in Seq(Message), Life(os, ms, rs, live), ms # <<>>
  PROVE  /\ Life(os, Tail(ms), rs, live)
         /\ Head(ms).action = "New" =>
              \A k \in DOMAIN Tail(ms) : Tail(ms)[k].action = "New" => Tail(ms)[k].id # Head(ms).id
<1> DEFINE t == Tail(ms)
<1>1. /\ 1 \in DOMAIN ms /\ Head(ms) = ms[1]
      /\ \A k \in DOMAIN t : k + 1 \in DOMAIN ms /\ t[k] = ms[k + 1] /\ k + 1 # 1 /\ k \in Nat
  BY Shrunk
<1> HIDE DEF t
<1>2. OnTheWay(os, t, rs, live)
  BY <1>1 DEF Life, OnTheWay
<1>3. SentOnce(t)
  <2>1. ASSUME NEW j \in DOMAIN t, NEW k \in DOMAIN t,
               t[j].action = "New", t[k].action = "New", t[j].id = t[k].id
        PROVE  j = k
    <3>1. j + 1 = k + 1
      BY <1>1, <2>1 DEF Life, SentOnce
    <3> QED BY <1>1, <3>1
  <2> QED BY <2>1 DEF SentOnce
<1>4. RequestsUnknown(os, t)
  BY <1>1 DEF Life, RequestsUnknown
<1>5. Life(os, t, rs, live)
  BY <1>2, <1>3, <1>4 DEF Life
<1>6. ASSUME Head(ms).action = "New", NEW k \in DOMAIN t, t[k].action = "New"
      PROVE  t[k].id # Head(ms).id
  BY <1>1, <1>6 DEF Life, SentOnce
<1> QED BY <1>5, <1>6 DEF t

(* No other live order is touched. *)
Touches(live2, live, id) ==
  /\ DOMAIN live2 \subseteq DOMAIN live \cup {id}
  /\ \A other \in DOMAIN live2 : other # id => live2[other] = live[other]

(* The order is not on its way any more, nor at its end. *)
Underway(id, os, ms, rs) ==
  /\ \A k \in DOMAIN ms : ms[k].action = "New" => ms[k].id # id
  /\ id \in DOMAIN os =>
       /\ os[id].status \notin Terminal
       /\ \A k \in DOMAIN rs : rs[k].id = id => rs[k].execType \notin Terminal

(* A report leaves an order of here live only if it does not end it. *)
Fits(r, os, live2) ==
  r.id \in DOMAIN os \cap DOMAIN live2 =>
    /\ r.execType \notin Terminal
    /\ live2[r.id].symbol = os[r.id].symbol /\ live2[r.id].side = os[r.id].side

(* The exchange does something about one order that is not on its way any  *)
(* more, and reports it: the report is queued, or dropped.                 *)
LEMMA LifeTells ==
  ASSUME NEW os, NEW ms, NEW rs, NEW live, NEW r, NEW live2, NEW rs2,
         rs \in Seq(ExecutionReport), r \in ExecutionReport,
         Life(os, ms, rs, live), Touches(live2, live, r.id), Underway(r.id, os, ms, rs),
         Fits(r, os, live2),
         rs2 = rs \/ rs2 = Append(rs, r)
  PROVE  Life(os, ms, rs2, live2)
<1>1. \A k \in DOMAIN rs2 : (k \in DOMAIN rs /\ rs2[k] = rs[k]) \/ rs2[k] = r
  <2>1. CASE rs2 = rs
    BY <2>1
  <2>2. CASE rs2 = Append(rs, r)
    BY <2>2, Grown
  <2> QED BY <2>1, <2>2
<1>2. OnTheWay(os, ms, rs2, live2)
  BY <1>1 DEF Touches, Underway, Fits, Life, OnTheWay
<1>3. SentOnce(ms) /\ RequestsUnknown(os, ms)
  BY DEF Life
<1>4. LiveIsOpen(os, rs2, live2)
  BY <1>1 DEF Touches, Underway, Fits, Life, LiveIsOpen
<1>5. ReportsOpen(os, rs2)
  BY <1>1 DEF Touches, Underway, Fits, Life, ReportsOpen
<1>6. EndIsLast(os, rs2)
  <2>1. CASE rs2 = rs
    BY <2>1 DEF Life
  <2>2. CASE rs2 = Append(rs, r)
    <3>1. ASSUME NEW j \in DOMAIN rs2, NEW k \in DOMAIN rs2, rs2[j].id \in DOMAIN os,
                 rs2[k].id = rs2[j].id, rs2[j].execType \in Terminal
          PROVE  k <= j
      <4>1. /\ Len(rs) \in Nat /\ DOMAIN rs = 1 .. Len(rs) /\ DOMAIN rs2 = 1 .. Len(rs) + 1
            /\ rs2[Len(rs) + 1] = r
            /\ \A i \in DOMAIN rs : rs2[i] = rs[i]
        BY <2>2, Grown
      <4>2. CASE j = Len(rs) + 1
        BY <4>1, <4>2
      <4>3. CASE j \in DOMAIN rs /\ k \in DOMAIN rs
        BY <3>1, <4>1, <4>3 DEF Life, EndIsLast
      <4>4. CASE j \in DOMAIN rs /\ k = Len(rs) + 1
        BY <3>1, <4>1, <4>4 DEF Underway
      <4> QED BY <4>1, <4>2, <4>3, <4>4
    <3> QED BY <3>1 DEF EndIsLast
  <2> QED BY <2>1, <2>2
<1> QED BY <1>2, <1>3, <1>4, <1>5, <1>6 DEF Life

(* A report is booked on the order it is of, if that is one of here. *)
Books(os2, os, r) ==
  /\ DOMAIN os2 = DOMAIN os
  /\ \A id \in DOMAIN os :
       /\ id # r.id => os2[id] = os[id]
       /\ os2[id].symbol = os[id].symbol /\ os2[id].side = os[id].side
       /\ os2[id].orderQty = os[id].orderQty
  /\ r.id \in DOMAIN os =>
       /\ os2[r.id].status = StatusOf(r.execType)
       /\ os2[r.id].filledQty = r.cum /\ os2[r.id].remainingQty = r.leaves

(* The next report is taken (OnExecutionReport). *)
LEMMA LifeBooks ==
  ASSUME NEW os, NEW ms, NEW rs, NEW live, NEW os2,
         rs \in Seq(ExecutionReport), rs # <<>>,
         Life(os, ms, rs, live), Books(os2, os, rs[1])
  PROVE  Life(os2, ms, Tail(rs), live)
<1> DEFINE t == Tail(rs)
<1>1. /\ 1 \in DOMAIN rs
      /\ \A k \in DOMAIN t : k + 1 \in DOMAIN rs /\ t[k] = rs[k + 1] /\ ~(k + 1 <= 1) /\ k \in Nat
  BY Shrunk
<1> HIDE DEF t
<1>2. StatusOf(rs[1].execType) \in Terminal <=> rs[1].execType \in Terminal
  BY DEF StatusOf, Terminal
<1>3. OnTheWay(os2, ms, t, live)
  BY <1>1 DEF Books, Life, OnTheWay
<1>4. SentOnce(ms) /\ RequestsUnknown(os2, ms)
  BY DEF Books, Life, RequestsUnknown
<1>5. LiveIsOpen(os2, t, live)
  BY <1>1, <1>2 DEF Books, Life, LiveIsOpen
<1>6. EndIsLast(os2, t)
  <2>1. ASSUME NEW j \in DOMAIN t, NEW k \in DOMAIN t, t[j].id \in DOMAIN os,
               t[k].id = t[j].id, t[j].execType \in Terminal
        PROVE  k <= j
    <3>1. k + 1 <= j + 1
      BY <1>1, <2>1 DEF Books, Life, EndIsLast
    <3> QED BY <1>1, <3>1
  <2> QED BY <2>1 DEF Books, EndIsLast
<1>7. ReportsOpen(os2, t)
  BY <1>1, <1>2 DEF Books, Life, ReportsOpen, EndIsLast
<1> QED BY <1>3, <1>4, <1>5, <1>6, <1>7 DEF Life, t

-----------------------------------------------------------------------------
(* LifeInv, step by step. *)

Order ==
  [symbol : Symbols, side : Sides, orderQty : Nat \ {0}, filledQty : Nat, remainingQty : Nat,
   status : Statuses]

(* The numbers and tables, as the proofs use them. *)
LEMMA Tables ==
  ASSUME TypeOK
  PROVE  /\ nextOrderId \in Nat \ {0} /\ nextOrderId <= MaxIds + 1 /\ MaxIds \in Nat
         /\ DOMAIN orders \subseteq 1 .. nextOrderId - 1
         /\ \A id \in DOMAIN orders : orders[id] \in Order /\ id \in Nat /\ id < nextOrderId
         /\ pendingOrders \subseteq DOMAIN orders
         /\ OpenOrders \subseteq DOMAIN orders
         /\ IsFiniteSet(DOMAIN orders) /\ IsFiniteSet(pendingOrders) /\ IsFiniteSet(OpenOrders)
         /\ positions \in [Symbols -> Int] /\ pendingPositions \in [Symbols -> Int]
         /\ now \in Nat
<1>1. /\ nextOrderId \in Nat \ {0} /\ nextOrderId <= MaxIds + 1 /\ MaxIds \in Nat
      /\ DOMAIN orders \subseteq 1 .. nextOrderId - 1
      /\ \A id \in DOMAIN orders : orders[id] \in Order
      /\ pendingOrders \subseteq DOMAIN orders
      /\ OpenOrders \subseteq DOMAIN orders
      /\ positions \in [Symbols -> Int] /\ pendingPositions \in [Symbols -> Int]
      /\ now \in Nat
  BY GatewayAssumption DEF TypeOK, Order, Sides, OpenOrders
<1>2. \A id \in DOMAIN orders : id \in Nat /\ id < nextOrderId
  BY <1>1
<1>3. IsFiniteSet(DOMAIN orders)
  <2>1. 1 \in Int /\ nextOrderId - 1 \in Int
    BY <1>1
  <2>2. IsFiniteSet(1 .. nextOrderId - 1)
    BY <2>1, FS_Interval
  <2> QED BY <1>1, <2>2, FS_Subset
<1> QED BY <1>1, <1>2, <1>3, FS_Subset

(* A set that grows by at most one stays within a bound it was below. *)
LEMMA OneMore ==
  ASSUME NEW S, IsFiniteSet(S), NEW e, NEW T, T \subseteq S \cup {e},
         NEW max \in Nat, Cardinality(S) < max
  PROVE  Cardinality(T) <= max
<1>1. /\ IsFiniteSet(S \cup {e}) /\ Cardinality(S) \in Nat
      /\ Cardinality(S \cup {e}) \in {Cardinality(S), Cardinality(S) + 1}
  BY FS_AddElement, FS_CardinalityType
<1>2. Cardinality(T) \in Nat /\ Cardinality(T) <= Cardinality(S \cup {e})
  BY <1>1, FS_Subset, FS_CardinalityType
<1> QED BY <1>1, <1>2

(* A set that does not grow stays within its bound. *)
LEMMA NoMore ==
  ASSUME NEW S, IsFiniteSet(S), NEW T, T \subseteq S,
         NEW max \in Nat, Cardinality(S) <= max
  PROVE  Cardinality(T) <= max
<1>1. Cardinality(T) \in Nat /\ Cardinality(T) <= Cardinality(S) /\ Cardinality(S) \in Nat
  BY FS_Subset, FS_CardinalityType
<1> QED BY <1>1

NewMessage(r) ==
  [action |-> "New", id |-> nextOrderId, orig |-> 0, symbol |-> r.symbol, side |-> r.side,
   quantity |-> r.quantity]

(* A refused request touches the ring only. *)
LEMMA RefusedStep ==
  ASSUME LifeInv, nextOrderId <= MaxIds, ring' = AfterCheck(ring, now),
         UNCHANGED <<now, nextOrderId, tables, connected, missed, sent, reports, resting, traded>>
  PROVE  LifeInv'
<1>1. TypeOK'
  BY RingStays DEF LifeInv, TypeOK, tables
<1>2. WireOK' /\ Life(orders', sent', reports', resting') /\ OrderLimitsHold'
  BY DEF LifeInv, WireOK, OrderLimitsHold, OpenOrders, tables
<1> QED BY <1>1, <1>2 DEF LifeInv

(* What an accepted request enters. *)
LEMMA Entered ==
  ASSUME EnableRiskChecks, LifeInv, NEW r \in Requests, Accepts(r),
         orders' = [id \in DOMAIN orders \cup {nextOrderId} |->
                      IF id = nextOrderId THEN NewOrder(r) ELSE orders[id]]
  PROVE  /\ NewMessage(r) \in Message /\ r.quantity \in Nat \ {0} /\ r.symbol \in Symbols
         /\ r.side \in Sides
         /\ NewOrder(r) \in Order
         /\ DOMAIN orders' = DOMAIN orders \cup {nextOrderId}
         /\ nextOrderId \notin DOMAIN orders
         /\ \A id \in DOMAIN orders : orders'[id] = orders[id]
         /\ orders'[nextOrderId] = NewOrder(r)
         /\ OpenOrders' = OpenOrders \cup {nextOrderId}
<1>1. PassesRiskChecks(r)
  BY DEF Accepts
<1>2. /\ r \in [symbol : Symbols, side : Sides, price : Int, quantity : Int]
      /\ r.quantity > 0
  BY <1>1, GatewayAssumption DEF PassesRiskChecks, Sides
<1>3. nextOrderId \in Nat \ {0} /\ nextOrderId \notin DOMAIN orders
  BY Tables DEF LifeInv
<1>4. NewMessage(r) \in Message /\ NewOrder(r) \in Order
  BY <1>2, <1>3 DEF NewMessage, NewOrder, Message, Order, Statuses, Active
<1>5. /\ DOMAIN orders' = DOMAIN orders \cup {nextOrderId}
      /\ \A id \in DOMAIN orders : orders'[id] = orders[id]
      /\ orders'[nextOrderId] = NewOrder(r)
  BY <1>3
<1>6. OpenOrders' = OpenOrders \cup {nextOrderId}
  BY <1>5 DEF OpenOrders, NewOrder, Active
<1> QED BY <1>2, <1>3, <1>4, <1>5, <1>6

(* An accepted request. *)
LEMMA AcceptedStep ==
  ASSUME EnableRiskChecks, LifeInv, nextOrderId <= MaxIds, ring' = AfterCheck(ring, now),
         NEW r \in Requests, Accepts(r),
         nextOrderId' = nextOrderId + 1,
         orders' = [id \in DOMAIN orders \cup {nextOrderId} |->
                      IF id = nextOrderId THEN NewOrder(r) ELSE orders[id]],
         pendingOrders' = pendingOrders \cup {nextOrderId},
         pendingPositions' = [pendingPositions EXCEPT ![r.symbol] = @ + Signed(r.side, r.quantity)],
         Send(<<NewMessage(r)>>),
         UNCHANGED <<positions, now, reports, resting, traded>>
  PROVE  LifeInv'
<1> DEFINE m == NewMessage(r)
<1>1. /\ m \in Message /\ r.quantity \in Nat \ {0} /\ r.symbol \in Symbols
      /\ NewOrder(r) \in Order
      /\ DOMAIN orders' = DOMAIN orders \cup {nextOrderId}
      /\ nextOrderId \notin DOMAIN orders
      /\ \A id \in DOMAIN orders : orders'[id] = orders[id]
      /\ orders'[nextOrderId] = NewOrder(r)
      /\ OpenOrders' = OpenOrders \cup {nextOrderId}
  BY Entered
<1>2. TypeOK /\ WireOK /\ Life(orders, sent, reports, resting) /\ OrderLimitsHold
  BY DEF LifeInv
<1>3. /\ nextOrderId \in Nat \ {0} /\ nextOrderId <= MaxIds + 1 /\ MaxIds \in Nat
      /\ DOMAIN orders \subseteq 1 .. nextOrderId - 1
      /\ \A id \in DOMAIN orders : orders[id] \in Order
      /\ pendingOrders \subseteq DOMAIN orders
      /\ IsFiniteSet(pendingOrders) /\ IsFiniteSet(OpenOrders)
      /\ positions \in [Symbols -> Int] /\ pendingPositions \in [Symbols -> Int]
  BY <1>2, Tables
<1>4. sent \in Seq(Message) /\ missed \in BOOLEAN
  BY <1>2 DEF WireOK
<1>5. m.id = nextOrderId /\ m.action = "New" /\ m.quantity = r.quantity
      /\ m.symbol = r.symbol /\ m.side = r.side
  BY DEF NewMessage
<1> HIDE DEF m
<1>6. /\ sent' = sent \/ sent' = Append(sent, m)
      /\ missed' \in BOOLEAN /\ connected' \in BOOLEAN
  <2>1. <<m>> \in Seq(Message)
    BY <1>1
  <2>2. Send(<<m>>)
    BY DEF m
  <2>3. missed' \in BOOLEAN /\ connected' \in BOOLEAN
    BY <1>4, <2>1, <2>2, SendAdds
  <2> QED BY <1>1, <1>4, <2>2, <2>3, SendOne
<1>7. TypeOK'
  <2>1. Signed(r.side, r.quantity) \in Int
    BY <1>1 DEF Signed
  <2>2. pendingPositions' \in [Symbols -> Int]
    BY <1>1, <1>3, <2>1
  <2>3. nextOrderId' \in 1 .. MaxIds + 1 /\ DOMAIN orders' \subseteq 1 .. nextOrderId' - 1
    BY <1>1, <1>3
  <2>4. \A id \in DOMAIN orders' : orders'[id] \in Order
    BY <1>1, <1>3
  <2>5. pendingOrders' \subseteq DOMAIN orders'
    BY <1>1, <1>3
  <2>6. now' \in 0 .. MaxTime /\ positions' \in [Symbols -> Int]
    BY <1>2, <1>3 DEF TypeOK
  <2>7. ring' \in [head : RingSlot, count : 0 .. Limit, times : [RingSlot -> Nat]]
    BY <1>2, RingStays
  <2> QED BY <1>6, <2>2, <2>3, <2>4, <2>5, <2>6, <2>7 DEF TypeOK, Order, Sides
<1>8. WireOK'
  <2>1. \A k \in DOMAIN sent' : (k \in DOMAIN sent /\ sent'[k] = sent[k]) \/ sent'[k] = m
    BY <1>1, <1>4, <1>6, Grown
  <2>2. \A k \in DOMAIN sent' :
          sent'[k].id < nextOrderId' /\ (sent'[k].action # "Cancel" => sent'[k].quantity # 0)
    <3>1. \A k \in DOMAIN sent : sent[k] \in Message
      BY <1>4
    <3>2. \A k \in DOMAIN sent : sent[k].id \in Nat
      BY <3>1 DEF Message
    <3>3. \A k \in DOMAIN sent :
            sent[k].id < nextOrderId /\ (sent[k].action # "Cancel" => sent[k].quantity # 0)
      BY <1>2 DEF WireOK
    <3>4. m.id < nextOrderId' /\ m.quantity # 0
      BY <1>1, <1>3, <1>5
    <3>5. \A k \in DOMAIN sent : sent[k].id < nextOrderId'
      BY <1>3, <3>2, <3>3
    <3> QED BY <2>1, <3>3, <3>4, <3>5
  <2>3. sent' \in Seq(Message)
    BY <1>1, <1>4, <1>6, Grown
  <2>4. \A k \in DOMAIN reports : reports[k].id < nextOrderId'
    <3>1. \A k \in DOMAIN reports : reports[k] \in ExecutionReport /\ reports[k].id < nextOrderId
      BY <1>2 DEF WireOK
    <3>2. \A k \in DOMAIN reports : reports[k].id \in Nat
      BY <3>1 DEF ExecutionReport
    <3> QED BY <1>3, <3>1, <3>2
  <2>5. DOMAIN resting \subseteq 1 .. nextOrderId' - 1
    BY <1>2, <1>3 DEF WireOK
  <2> QED BY <1>2, <1>6, <2>2, <2>3, <2>4, <2>5 DEF WireOK
<1>9. Life(orders', sent', reports', resting')
  <2>1. Unknown(m.id, sent, reports, resting)
    <3>1. \A k \in DOMAIN sent : sent[k].id # m.id
      BY <1>2, <1>3, <1>5 DEF WireOK
    <3>2. \A k \in DOMAIN reports : reports[k].id # m.id
      BY <1>2, <1>3, <1>5 DEF WireOK
    <3>3. m.id \notin DOMAIN resting
      BY <1>2, <1>3, <1>5 DEF WireOK
    <3> QED BY <3>1, <3>2, <3>3 DEF Unknown
  <2>2. Enters(orders', orders, m)
    BY <1>1, <1>5 DEF Enters, NewOrder
  <2>3. Life(orders', sent', reports, resting)
    BY <1>1, <1>2, <1>4, <1>5, <1>6, <2>1, <2>2, LifeSubmits
  <2> QED BY <2>3
<1>10. OrderLimitsHold'
  <2>1. Cardinality(pendingOrders) < MaxPendingOrders /\ Cardinality(OpenOrders) < MaxOpenOrders
    BY DEF Accepts, PassesRiskChecks
  <2>2. MaxPendingOrders \in Nat /\ MaxOpenOrders \in Nat
    BY GatewayAssumption
  <2>3. Cardinality(pendingOrders') <= MaxPendingOrders
    BY <1>3, <2>1, <2>2, OneMore
  <2>4. Cardinality(OpenOrders \cup {nextOrderId}) <= MaxOpenOrders
    BY <1>3, <2>1, <2>2, OneMore
  <2> QED BY <1>1, <2>3, <2>4 DEF OrderLimitsHold
<1> QED BY <1>7, <1>8, <1>9, <1>10 DEF LifeInv

(* What asking for cancels does to the tables: ids are open orders. *)
LEMMA Marked ==
  ASSUME TypeOK, NEW ids \in Seq(OpenOrders), Cancel(ids)
  PROVE  /\ Marks(orders', orders)
         /\ OpenOrders' = OpenOrders
         /\ \A id \in DOMAIN orders : orders'[id] \in Order
         /\ \A id \in DOMAIN orders : orders'[id].status = "PendingNew" => orders'[id] = orders[id]
<1>1. /\ DOMAIN orders' = DOMAIN orders
      /\ \A id \in DOMAIN orders :
           orders'[id] = IF id \in ToSet(ids) THEN [orders[id] EXCEPT !.status = "PendingCancel"]
                                              ELSE orders[id]
  BY DEF Cancel
<1>2. ToSet(ids) \subseteq OpenOrders
  BY DEF ToSet
<1>3. \A id \in DOMAIN orders : orders[id] \in Order
  BY Tables
<1>4. \A id \in ToSet(ids) : id \in DOMAIN orders /\ orders[id].status \in Active
  BY <1>2 DEF OpenOrders
<1>5. ASSUME NEW id \in DOMAIN orders
      PROVE  /\ orders'[id] \in Order
             /\ orders'[id].status \in Active <=> orders[id].status \in Active
             /\ orders'[id].status = "PendingNew" => orders'[id] = orders[id]
             /\ \/ orders'[id] = orders[id]
                \/ /\ orders[id].status \notin Terminal /\ orders'[id].status = "PendingCancel"
                   /\ orders'[id].symbol = orders[id].symbol /\ orders'[id].side = orders[id].side
                   /\ orders'[id].orderQty = orders[id].orderQty
                   /\ orders'[id].filledQty = orders[id].filledQty
                   /\ orders'[id].remainingQty = orders[id].remainingQty
  <2>1. CASE id \in ToSet(ids)
    <3>1. orders'[id] = [orders[id] EXCEPT !.status = "PendingCancel"]
      BY <1>1, <2>1
    <3>2. orders[id] \in Order /\ orders[id].status \in Active
      BY <1>3, <1>4, <2>1
    <3> QED BY <3>1, <3>2 DEF Order, Statuses, Active, Terminal
  <2>2. CASE id \notin ToSet(ids)
    BY <1>1, <1>3, <2>2
  <2> QED BY <2>1, <2>2
<1>6. Marks(orders', orders)
  BY <1>1, <1>5 DEF Marks
<1>7. OpenOrders' = OpenOrders
  BY <1>1, <1>5 DEF OpenOrders
<1> QED BY <1>5, <1>6, <1>7

(* The requests for cancels. *)
LEMMA CancelsWellFormed ==
  ASSUME TypeOK, NEW ids \in Seq(OpenOrders)
  PROVE  /\ CancelMessages(ids) \in Seq(Message)
         /\ \A m \in {CancelMessages(ids)[i] : i \in DOMAIN CancelMessages(ids)} :
              /\ m.action = "Cancel" /\ m.id < nextOrderId + Len(ids)
              /\ m.id \notin DOMAIN orders
<1> DEFINE ms == CancelMessages(ids)
<1>1. Len(ids) \in Nat /\ DOMAIN ids = 1 .. Len(ids) /\ \A k \in 1 .. Len(ids) : ids[k] \in OpenOrders
  OBVIOUS
<1>2. /\ nextOrderId \in Nat \ {0} /\ \A id \in OpenOrders : orders[id] \in Order /\ id \in Nat
      /\ DOMAIN orders \subseteq 1 .. nextOrderId - 1
  BY Tables
<1>3. ASSUME NEW k \in 1 .. Len(ids)
      PROVE  /\ ms[k] \in Message /\ ms[k].action = "Cancel" /\ ms[k].id < nextOrderId + Len(ids)
             /\ ms[k].id \notin DOMAIN orders
  <2>1. ms[k] = [action |-> "Cancel", id |-> nextOrderId + k - 1, orig |-> ids[k],
                 symbol |-> orders[ids[k]].symbol, side |-> orders[ids[k]].side, quantity |-> 0]
    BY <1>1 DEF CancelMessages
  <2>2. orders[ids[k]].symbol \in Symbols /\ orders[ids[k]].side \in Sides /\ ids[k] \in Nat
    BY <1>1, <1>2 DEF Order
  <2>3. /\ nextOrderId + k - 1 \in Nat \ {0} /\ nextOrderId + k - 1 < nextOrderId + Len(ids)
        /\ nextOrderId + k - 1 \notin 1 .. nextOrderId - 1
    BY <1>1, <1>2
  <2> QED BY <1>2, <2>1, <2>2, <2>3 DEF Message
<1>4. DOMAIN ms = 1 .. Len(ids)
  BY <1>1 DEF CancelMessages
<1>5. ms = [k \in 1 .. Len(ids) |-> ms[k]]
  BY <1>1 DEF CancelMessages
<1> HIDE DEF ms
<1>6. ms \in Seq(Message)
  BY <1>1, <1>3, <1>4, <1>5
<1> QED BY <1>3, <1>4, <1>6 DEF ms

(* Cancels of open orders. *)
LEMMA CancelStep ==
  ASSUME LifeInv, NEW ids \in Seq(OpenOrders), Cancel(ids), UNCHANGED <<resting, traded>>
  PROVE  LifeInv'
<1> DEFINE asked == {CancelMessages(ids)[i] : i \in DOMAIN CancelMessages(ids)}
<1>1. TypeOK /\ WireOK /\ Life(orders, sent, reports, resting) /\ OrderLimitsHold
  BY DEF LifeInv
<1>2. /\ Marks(orders', orders) /\ OpenOrders' = OpenOrders
      /\ \A id \in DOMAIN orders : orders'[id] \in Order
  BY <1>1, Marked
<1>3. /\ CancelMessages(ids) \in Seq(Message)
      /\ \A m \in asked :
           m.action = "Cancel" /\ m.id < nextOrderId + Len(ids) /\ m.id \notin DOMAIN orders
  BY <1>1, CancelsWellFormed
<1>4. /\ nextOrderId' = nextOrderId + Len(ids) /\ nextOrderId + Len(ids) - 1 <= MaxIds
      /\ Send(CancelMessages(ids))
      /\ UNCHANGED <<now, ring, pendingOrders, positions, pendingPositions, reports>>
  BY DEF Cancel
<1>5. sent \in Seq(Message) /\ missed \in BOOLEAN
  BY <1>1 DEF WireOK
<1> HIDE DEF asked
<1>6. /\ sent' \in Seq(Message) /\ missed' \in BOOLEAN /\ connected' \in BOOLEAN
      /\ Adds(sent', sent, asked)
  BY <1>3, <1>4, <1>5, SendAdds DEF asked
<1>7. nextOrderId \in Nat \ {0} /\ MaxIds \in Nat /\ DOMAIN orders \subseteq 1 .. nextOrderId - 1
      /\ Len(ids) \in Nat /\ pendingOrders \subseteq DOMAIN orders
  BY <1>1, Tables
<1>8. nextOrderId' \in Nat /\ nextOrderId <= nextOrderId' /\ nextOrderId' \in 1 .. MaxIds + 1
  BY <1>4, <1>7
<1>9. TypeOK'
  <2>1. DOMAIN orders' = DOMAIN orders
    BY <1>2 DEF Marks
  <2>2. DOMAIN orders' \subseteq 1 .. nextOrderId' - 1
    BY <1>7, <1>8, <2>1
  <2>3. \A id \in DOMAIN orders' : orders'[id] \in Order
    BY <1>2, <2>1
  <2> QED BY <1>1, <1>4, <1>6, <1>7, <1>8, <2>1, <2>2, <2>3 DEF TypeOK, Order, Sides
<1>10. WireOK'
  <2>1. \A k \in DOMAIN sent :
          /\ sent[k].id \in Nat /\ sent[k].id < nextOrderId
          /\ sent[k].action # "Cancel" => sent[k].quantity # 0
    <3>1. \A k \in DOMAIN sent : sent[k] \in Message
      BY <1>5
    <3> QED BY <1>1, <3>1 DEF WireOK, Message
  <2>2. \A k \in DOMAIN sent' :
          sent'[k].id < nextOrderId' /\ (sent'[k].action # "Cancel" => sent'[k].quantity # 0)
    BY <1>3, <1>4, <1>6, <1>7, <1>8, <2>1 DEF Adds
  <2>3. \A k \in DOMAIN reports : reports[k].id \in Nat /\ reports[k].id < nextOrderId
    <3>1. \A k \in DOMAIN reports : reports[k] \in ExecutionReport
      BY <1>1 DEF WireOK
    <3> QED BY <1>1, <3>1 DEF WireOK, ExecutionReport
  <2>4. \A k \in DOMAIN reports : reports[k].id < nextOrderId'
    BY <1>7, <1>8, <2>3
  <2>5. DOMAIN resting \subseteq 1 .. nextOrderId' - 1
    <3>1. DOMAIN resting \subseteq 1 .. nextOrderId - 1
      BY <1>1 DEF WireOK
    <3> QED BY <1>7, <1>8, <3>1
  <2> QED BY <1>1, <1>4, <1>6, <2>2, <2>4, <2>5 DEF WireOK
<1>11. Life(orders', sent', reports', resting')
  <2>1. Asks(asked, orders)
    BY <1>3 DEF Asks
  <2>2. Life(orders', sent', reports, resting)
    BY <1>1, <1>2, <1>6, <2>1, LifeAsks
  <2> QED BY <1>4, <2>2
<1>12. OrderLimitsHold'
  BY <1>1, <1>2, <1>4 DEF OrderLimitsHold
<1> QED BY <1>9, <1>10, <1>11, <1>12 DEF LifeInv

(* The orders of a cancel are a sequence of open ones. *)
LEMMA CancelledAreOpen ==
  ASSUME TypeOK
  PROVE  /\ \A id : CancelOrder(id) => <<id>> \in Seq(OpenOrders) /\ Cancel(<<id>>)
         /\ \A s \in Symbols :
              CancelAllOrders(s) => \E ids \in Seq(OpenOrders) : ids # <<>> /\ Cancel(ids)
<1>1. ASSUME NEW id, CancelOrder(id)
      PROVE  <<id>> \in Seq(OpenOrders) /\ Cancel(<<id>>)
  BY <1>1 DEF CancelOrder
<1>2. ASSUME NEW s \in Symbols, CancelAllOrders(s)
      PROVE  \E ids \in Seq(OpenOrders) : ids # <<>> /\ Cancel(ids)
  <2> DEFINE S == {id \in OpenOrders : orders[id].symbol = s}
  <2>1. PICK ids \in SetToSeqs(S) : ids # <<>> /\ Cancel(ids)
    BY <1>2 DEF CancelAllOrders
  <2>2. IsFiniteSet(S)
    BY Tables, FS_Subset
  <2>3. Cardinality(S) \in Nat
    BY <2>2, FS_CardinalityType
  <2>4. ids \in [1 .. Cardinality(S) -> S]
    BY DEF SetToSeqs
  <2>5. ids \in [1 .. Cardinality(S) -> OpenOrders]
    BY <2>4
  <2> HIDE DEF S
  <2>6. ids \in Seq(OpenOrders)
    BY <2>3, <2>5
  <2> QED BY <2>1, <2>6
<1> QED BY <1>1, <1>2

(* Reports and messages, one by one. *)
LEMMA OnTheWire ==
  ASSUME WireOK
  PROVE  /\ \A k \in DOMAIN sent : sent[k] \in Message /\ sent[k].id < nextOrderId
         /\ \A k \in DOMAIN reports : reports[k] \in ExecutionReport /\ reports[k].id < nextOrderId
         /\ \A id \in DOMAIN resting : resting[id] \in LiveOrder /\ id \in 1 .. nextOrderId - 1
BY DEF WireOK

(* A request to replace an order. *)
LEMMA ReplaceStep ==
  ASSUME LifeInv, NEW id, NEW newQty \in ReplaceQuantities, ReplaceOrder(id, newQty),
         UNCHANGED <<resting, traded>>
  PROVE  LifeInv'
<1> DEFINE quantity == IF newQty > 0 THEN newQty ELSE orders[id].orderQty
           m == [action |-> "Replace", id |-> nextOrderId, orig |-> id,
                 symbol |-> orders[id].symbol, side |-> orders[id].side, quantity |-> quantity]
<1>1. TypeOK /\ WireOK /\ Life(orders, sent, reports, resting) /\ OrderLimitsHold
  BY DEF LifeInv
<1>2. /\ id \in OpenOrders /\ nextOrderId <= MaxIds /\ nextOrderId' = nextOrderId + 1
      /\ Send(<<m>>)
      /\ UNCHANGED <<now, ring, tables, reports>>
  BY DEF ReplaceOrder
<1>3. /\ nextOrderId \in Nat \ {0} /\ nextOrderId <= MaxIds + 1 /\ MaxIds \in Nat
      /\ DOMAIN orders \subseteq 1 .. nextOrderId - 1
      /\ orders[id] \in Order /\ id \in Nat
      /\ \A i \in DOMAIN orders : i \in Nat /\ i < nextOrderId
  BY <1>1, <1>2, Tables
<1>4. quantity \in Nat \ {0}
  BY <1>3, GatewayAssumption DEF Order
<1> HIDE DEF quantity
<1>5. m \in Message
  BY <1>3, <1>4 DEF Message, Order
<1>6. m.action = "Replace" /\ m.id = nextOrderId /\ m.quantity # 0
  BY <1>4
<1> HIDE DEF m
<1>7. sent \in Seq(Message) /\ missed \in BOOLEAN
  BY <1>1 DEF WireOK
<1>8. /\ sent' = sent \/ sent' = Append(sent, m)
      /\ missed' \in BOOLEAN /\ connected' \in BOOLEAN
  <2>1. <<m>> \in Seq(Message)
    BY <1>5
  <2>2. missed' \in BOOLEAN /\ connected' \in BOOLEAN
    BY <1>2, <1>7, <2>1, SendAdds
  <2> QED BY <1>2, <1>5, <1>7, <2>2, SendOne
<1>9. sent' \in Seq(Message) /\ Adds(sent', sent, {m})
  BY <1>5, <1>7, <1>8, Grown DEF Adds
<1>10. TypeOK'
  <2>1. nextOrderId' \in 1 .. MaxIds + 1 /\ DOMAIN orders \subseteq 1 .. nextOrderId' - 1
    BY <1>2, <1>3
  <2> QED BY <1>1, <1>2, <1>8, <2>1 DEF TypeOK, tables
<1>11. WireOK'
  <2>1. \A k \in DOMAIN sent : sent[k].id \in Nat /\ sent[k].id < nextOrderId
    BY <1>1, OnTheWire DEF Message
  <2>2. \A k \in DOMAIN sent : sent[k].action # "Cancel" => sent[k].quantity # 0
    BY <1>1 DEF WireOK
  <2>3. \A k \in DOMAIN sent' :
          sent'[k].id < nextOrderId' /\ (sent'[k].action # "Cancel" => sent'[k].quantity # 0)
    <3>1. nextOrderId \in Nat /\ nextOrderId' = nextOrderId + 1
      BY <1>2, <1>3
    <3>2. \A k \in DOMAIN sent' : (k \in DOMAIN sent /\ sent'[k] = sent[k]) \/ sent'[k] = m
      BY <1>9 DEF Adds
    <3> QED BY <1>6, <2>1, <2>2, <3>1, <3>2
  <2>4. \A k \in DOMAIN reports : reports[k].id \in Nat /\ reports[k].id < nextOrderId
    BY <1>1, OnTheWire DEF ExecutionReport
  <2>5. \A k \in DOMAIN reports : reports[k].id < nextOrderId'
    BY <1>2, <1>3, <2>4
  <2>6. DOMAIN resting \subseteq 1 .. nextOrderId' - 1
    BY <1>1, <1>2, <1>3 DEF WireOK
  <2> QED BY <1>1, <1>2, <1>8, <1>9, <2>3, <2>5, <2>6 DEF WireOK
<1>12. Life(orders', sent', reports', resting')
  <2>1. Asks({m}, orders) /\ Marks(orders, orders)
    BY <1>3, <1>6 DEF Asks, Marks
  <2>2. Life(orders, sent', reports, resting)
    BY <1>1, <1>9, <2>1, LifeAsks
  <2> QED BY <1>2, <2>2 DEF tables
<1>13. OrderLimitsHold'
  BY <1>1, <1>2 DEF OrderLimitsHold, OpenOrders, tables
<1> QED BY <1>10, <1>11, <1>12, <1>13 DEF LifeInv

(* What a report does to the tables. *)
LEMMA Booked ==
  ASSUME TypeOK, WireOK, OnExecutionReport
  PROVE  /\ reports # <<>> /\ reports' = Tail(reports) /\ reports[1] \in ExecutionReport
         /\ reports' \in Seq(ExecutionReport)
         /\ UNCHANGED <<now, ring, nextOrderId, connected, missed, sent>>
         /\ Books(orders', orders, reports[1])
         /\ \A id \in DOMAIN orders : orders'[id] \in Order
         /\ pendingOrders' \subseteq pendingOrders
         /\ reports[1].id \notin DOMAIN orders => UNCHANGED tables
         /\ reports[1].id \in DOMAIN orders =>
              LET r == reports[1]
                  o == orders[r.id]
              IN  /\ pendingOrders' = PendingAfter(r)
                  /\ positions' = [positions EXCEPT ![o.symbol] = @ + Signed(o.side, Filled(r))]
                  /\ pendingPositions' =
                       [pendingPositions EXCEPT ![o.symbol] = @ - Signed(o.side, Released(r))]
                  /\ o \in Order /\ Filled(r) \in Nat /\ Released(r) \in Nat
<1> DEFINE r == reports[1]
           o == orders[r.id]
<1>1. /\ reports # <<>> /\ reports' = Tail(reports) /\ reports \in Seq(ExecutionReport)
      /\ UNCHANGED <<now, ring, nextOrderId, connected, missed, sent>>
  BY DEF OnExecutionReport, WireOK
<1>2. Head(reports) = r /\ r \in ExecutionReport /\ reports' \in Seq(ExecutionReport)
  BY <1>1, Shrunk
<1>3. Filled(r) \in Nat /\ Released(r) \in Nat /\ StatusOf(r.execType) \in Statuses
  BY <1>2 DEF Filled, Released, StatusOf, ExecutionReport, ExecTypes, Statuses, Terminal, Active
<1>4. \A id \in DOMAIN orders : orders[id] \in Order
  BY Tables
<1> HIDE DEF r
<1>5. CASE r.id \notin DOMAIN orders
  <2>1. UNCHANGED tables
    BY <1>2, <1>5 DEF OnExecutionReport
  <2>2. Books(orders', orders, r)
    BY <1>5, <2>1 DEF Books, tables
  <2> QED BY <1>1, <1>2, <1>4, <1>5, <2>1, <2>2 DEF tables, r
<1>6. CASE r.id \in DOMAIN orders
  <2>1. /\ orders' = [orders EXCEPT ![r.id] = Updated(@, r)]
        /\ pendingOrders' = PendingAfter(r)
        /\ positions' = [positions EXCEPT ![o.symbol] = @ + Signed(o.side, Filled(r))]
        /\ pendingPositions' = [pendingPositions EXCEPT ![o.symbol] = @ - Signed(o.side, Released(r))]
    BY <1>2, <1>6 DEF OnExecutionReport
  <2>2. o \in Order
    BY <1>4, <1>6
  <2>3. /\ Updated(o, r) \in Order
        /\ Updated(o, r).symbol = o.symbol /\ Updated(o, r).side = o.side
        /\ Updated(o, r).orderQty = o.orderQty
        /\ Updated(o, r).status = StatusOf(r.execType)
        /\ Updated(o, r).filledQty = r.cum /\ Updated(o, r).remainingQty = r.leaves
    <3>1. r.cum \in Nat /\ r.leaves \in Nat
      BY <1>2 DEF ExecutionReport
    <3> HIDE DEF o
    <3> QED BY <1>3, <2>2, <3>1 DEF Updated, Order
  <2>4. /\ DOMAIN orders' = DOMAIN orders
        /\ orders'[r.id] = Updated(o, r)
        /\ \A id \in DOMAIN orders : id # r.id => orders'[id] = orders[id]
    BY <1>6, <2>1
  <2>5. Books(orders', orders, r) /\ \A id \in DOMAIN orders : orders'[id] \in Order
    BY <1>4, <2>3, <2>4 DEF Books
  <2>6. pendingOrders' \subseteq pendingOrders
    BY <2>1 DEF PendingAfter
  <2> QED BY <1>1, <1>2, <1>3, <1>6, <2>1, <2>2, <2>5, <2>6 DEF r
<1> QED BY <1>5, <1>6

(* A report is taken. *)
LEMMA ReportStep ==
  ASSUME LifeInv, OnExecutionReport, UNCHANGED <<resting, traded>>
  PROVE  LifeInv'
<1> DEFINE r == reports[1]
<1>1. TypeOK /\ WireOK /\ Life(orders, sent, reports, resting) /\ OrderLimitsHold
  BY DEF LifeInv
<1>2. /\ reports # <<>> /\ reports' = Tail(reports) /\ r \in ExecutionReport
      /\ reports' \in Seq(ExecutionReport) /\ reports \in Seq(ExecutionReport)
      /\ UNCHANGED <<now, ring, nextOrderId, connected, missed, sent>>
      /\ Books(orders', orders, r)
      /\ \A id \in DOMAIN orders : orders'[id] \in Order
      /\ pendingOrders' \subseteq pendingOrders
  BY <1>1, Booked DEF WireOK
<1>3. DOMAIN orders' = DOMAIN orders
  BY <1>2 DEF Books
<1>4. positions' \in [Symbols -> Int] /\ pendingPositions' \in [Symbols -> Int]
  <2>1. positions \in [Symbols -> Int] /\ pendingPositions \in [Symbols -> Int]
    BY <1>1, Tables
  <2>2. CASE r.id \notin DOMAIN orders
    BY <1>1, <2>1, <2>2, Booked DEF tables
  <2>3. CASE r.id \in DOMAIN orders
    <3> DEFINE o == orders[r.id]
    <3>1. /\ positions' = [positions EXCEPT ![o.symbol] = @ + Signed(o.side, Filled(r))]
          /\ pendingPositions' = [pendingPositions EXCEPT ![o.symbol] = @ - Signed(o.side, Released(r))]
          /\ o \in Order /\ Filled(r) \in Nat /\ Released(r) \in Nat
      BY <1>1, <2>3, Booked
    <3>2. Signed(o.side, Filled(r)) \in Int /\ Signed(o.side, Released(r)) \in Int
      BY <3>1 DEF Signed
    <3>3. o.symbol \in Symbols
      BY <3>1 DEF Order
    <3> HIDE DEF o
    <3> QED BY <2>1, <3>1, <3>2, <3>3
  <2> QED BY <2>2, <2>3
<1>5. TypeOK'
  <2>1. \A id \in DOMAIN orders' : orders'[id] \in Order
    BY <1>2, <1>3
  <2>2. pendingOrders' \subseteq DOMAIN orders'
    BY <1>1, <1>2, <1>3 DEF TypeOK
  <2> QED BY <1>1, <1>2, <1>3, <1>4, <2>1, <2>2 DEF TypeOK, Order, Sides
<1>6. WireOK'
  <2>1. \A k \in DOMAIN reports' : reports'[k].id < nextOrderId
    <3>1. \A k \in DOMAIN reports' : k + 1 \in DOMAIN reports /\ reports'[k] = reports[k + 1]
      BY <1>2, Shrunk
    <3> QED BY <1>1, <3>1 DEF WireOK
  <2> QED BY <1>1, <1>2, <2>1 DEF WireOK
<1>7. Life(orders', sent', reports', resting')
  <2>1. Life(orders', sent, Tail(reports), resting)
    BY <1>1, <1>2, LifeBooks
  <2> QED BY <1>2, <2>1
<1>8. OpenOrders' \subseteq OpenOrders
  <2>1. ASSUME NEW id \in DOMAIN orders, orders'[id].status \in Active
        PROVE  orders[id].status \in Active
    <3>1. CASE id # r.id
      BY <1>2, <2>1, <3>1 DEF Books
    <3>2. CASE id = r.id
      <4>1. 1 \in DOMAIN reports
        BY <1>2, Shrunk
      <4>2. orders[id].status \notin Terminal
        BY <1>1, <3>2, <4>1 DEF Life, ReportsOpen
      <4>3. orders[id].status \in Statuses
        BY <1>1, Tables DEF Order
      <4> QED BY <4>2, <4>3 DEF Statuses
    <3> QED BY <3>1, <3>2
  <2> QED BY <1>3, <2>1 DEF OpenOrders
<1>9. OrderLimitsHold'
  <2>1. IsFiniteSet(pendingOrders) /\ IsFiniteSet(OpenOrders)
    BY <1>1, Tables
  <2>2. /\ MaxPendingOrders \in Nat /\ MaxOpenOrders \in Nat
        /\ Cardinality(pendingOrders) <= MaxPendingOrders
        /\ Cardinality(OpenOrders) <= MaxOpenOrders
    BY <1>1, GatewayAssumption DEF OrderLimitsHold
  <2>3. Cardinality(pendingOrders') <= MaxPendingOrders
    BY <1>2, <2>1, <2>2, NoMore
  <2>4. Cardinality(OpenOrders') <= MaxOpenOrders
    BY <1>8, <2>1, <2>2, NoMore
  <2> QED BY <2>3, <2>4 DEF OrderLimitsHold
<1> QED BY <1>5, <1>6, <1>7, <1>9 DEF LifeInv

-----------------------------------------------------------------------------
(* The exchange's steps.  Each is a report on one order. *)

ReportOf(id, execType, last, order, leaves) ==
  [id |-> id, execType |-> execType, last |-> last, cum |-> order.cum, leaves |-> leaves]

(* A report is queued, or dropped. *)
LEMMA Reported ==
  ASSUME NEW id, NEW execType, NEW last, NEW order, Report(id, execType, last, order)
  PROVE  \E leaves \in Leaves(execType, order) :
           \/ reports' = reports
           \/ reports' = Append(reports, ReportOf(id, execType, last, order, leaves))
BY DEF Report, ReportOf

(* What all of these steps keep: the gateway's side does not move, and the *)
(* exchange does something about the order r is of.                        *)
LEMMA ToldStep ==
  ASSUME LifeInv, NEW ms, NEW r,
         sent' = ms, ms \in Seq(Message),
         \A k \in DOMAIN ms : ms[k].id < nextOrderId /\ (ms[k].action # "Cancel" => ms[k].quantity # 0),
         Life(orders, ms, reports, resting),
         r \in ExecutionReport, r.id \in 1 .. nextOrderId - 1,
         reports' = reports \/ reports' = Append(reports, r),
         Touches(resting', resting, r.id), Underway(r.id, orders, ms, reports),
         Fits(r, orders, resting'),
         r.id \in DOMAIN resting' => resting'[r.id] \in LiveOrder,
         traded' \in [Symbols -> Int],
         UNCHANGED <<now, ring, nextOrderId, tables, connected, missed>>
  PROVE  LifeInv'
<1>1. TypeOK /\ WireOK /\ OrderLimitsHold
  BY DEF LifeInv
<1>2. nextOrderId \in Nat
  BY <1>1, Tables
<1>3. TypeOK'
  BY <1>1 DEF TypeOK, tables
<1>4. reports \in Seq(ExecutionReport)
  BY <1>1 DEF WireOK
<1>5. \A k \in DOMAIN reports' : (k \in DOMAIN reports /\ reports'[k] = reports[k]) \/ reports'[k] = r
  <2>1. CASE reports' = reports
    BY <2>1
  <2>2. CASE reports' = Append(reports, r)
    BY <1>4, <2>2, Grown
  <2> QED BY <2>1, <2>2
<1>6. WireOK'
  <2>1. reports' \in Seq(ExecutionReport)
    BY <1>4, SMTT(30)
  <2>2. \A k \in DOMAIN reports' : reports'[k].id < nextOrderId
    BY <1>1, <1>2, <1>5 DEF WireOK
  <2>3. DOMAIN resting' \subseteq 1 .. nextOrderId - 1
    BY <1>1 DEF WireOK, Touches
  <2>4. \A id \in DOMAIN resting' : resting'[id] \in LiveOrder
    BY <1>1 DEF WireOK, Touches
  <2>5. missed \in BOOLEAN
    BY <1>1 DEF WireOK
  <2> QED BY <2>1, <2>2, <2>3, <2>4, <2>5 DEF WireOK
<1>7. Life(orders, ms, reports', resting')
  BY <1>4, LifeTells
<1>8. Life(orders', sent', reports', resting')
  BY <1>7 DEF tables
<1>9. OrderLimitsHold'
  BY <1>1 DEF OrderLimitsHold, OpenOrders, tables
<1> QED BY <1>3, <1>6, <1>8, <1>9 DEF LifeInv

(* What is known when a message is taken. *)
LEMMA Taken ==
  ASSUME LifeInv, NEW action, Receive(action)
  PROVE  /\ sent # <<>> /\ Head(sent) \in Message /\ Head(sent).action = action
         /\ Head(sent) = sent[1] /\ 1 \in DOMAIN sent
         /\ sent' = Tail(sent) /\ Tail(sent) \in Seq(Message)
         /\ \A k \in DOMAIN Tail(sent) : k + 1 \in DOMAIN sent /\ Tail(sent)[k] = sent[k + 1]
         /\ Head(sent).id < nextOrderId /\ Head(sent).id \in Nat \ {0}
         /\ Head(sent).action # "Cancel" => Head(sent).quantity \in Nat \ {0}
         /\ \A k \in DOMAIN Tail(sent) :
              /\ Tail(sent)[k].id < nextOrderId
              /\ Tail(sent)[k].action # "Cancel" => Tail(sent)[k].quantity # 0
         /\ Life(orders, Tail(sent), reports, resting)
         /\ Head(sent).action = "New" =>
              \A k \in DOMAIN Tail(sent) :
                Tail(sent)[k].action = "New" => Tail(sent)[k].id # Head(sent).id
         /\ UNCHANGED <<now, ring, nextOrderId, tables, connected, missed, traded>>
<1>1. /\ sent # <<>> /\ Head(sent).action = action /\ sent' = Tail(sent) /\ sent \in Seq(Message)
      /\ UNCHANGED <<now, ring, nextOrderId, tables, connected, missed, traded>>
  BY DEF Receive, LifeInv, WireOK
<1> DEFINE m == Head(sent)
           t == Tail(sent)
<1>2. /\ t \in Seq(Message) /\ m = sent[1] /\ m \in Message /\ 1 \in DOMAIN sent
      /\ \A k \in DOMAIN t : k + 1 \in DOMAIN sent /\ t[k] = sent[k + 1]
  BY <1>1, Shrunk
<1>3. \A k \in DOMAIN sent :
        sent[k].id < nextOrderId /\ (sent[k].action # "Cancel" => sent[k].quantity # 0)
  BY DEF LifeInv, WireOK
<1>4. /\ Life(orders, t, reports, resting)
      /\ m.action = "New" => \A k \in DOMAIN t : t[k].action = "New" => t[k].id # m.id
  BY <1>1, LifeReceives DEF LifeInv
<1> HIDE DEF m, t
<1>5. m.id \in Nat \ {0} /\ m.quantity \in Nat
  BY <1>2 DEF Message
<1>6. m.id < nextOrderId /\ (m.action # "Cancel" => m.quantity \in Nat \ {0})
  BY <1>2, <1>3, <1>5
<1>7. \A k \in DOMAIN t : t[k].id < nextOrderId /\ (t[k].action # "Cancel" => t[k].quantity # 0)
  BY <1>2, <1>3
<1> QED BY <1>1, <1>2, <1>4, <1>5, <1>6, <1>7 DEF m, t

(* A message sent for a new order, read against the tables. *)
LEMMA NewTaken ==
  ASSUME LifeInv, Receive("New")
  PROVE  LET m == Head(sent)
         IN  /\ m.id \in DOMAIN orders
             /\ orders[m.id].status \notin Terminal
             /\ orders[m.id].symbol = m.symbol /\ orders[m.id].side = m.side
             /\ orders[m.id].filledQty = 0 /\ orders[m.id].remainingQty = m.quantity
             /\ m.id \notin DOMAIN resting
             /\ \A i \in DOMAIN reports : reports[i].id # m.id
             /\ Arrived(m) \in LiveOrder
             /\ m.id \in 1 .. nextOrderId - 1
             /\ Underway(m.id, orders, Tail(sent), reports)
<1> DEFINE m == Head(sent)
<1>1. /\ m \in Message /\ m.action = "New" /\ m = sent[1] /\ 1 \in DOMAIN sent
      /\ m.quantity \in Nat \ {0}
      /\ \A k \in DOMAIN Tail(sent) : Tail(sent)[k].action = "New" => Tail(sent)[k].id # m.id
  BY Taken
<1> HIDE DEF m
<1>2. /\ m.id \in DOMAIN orders
      /\ orders[m.id].status \in {"PendingNew", "PendingCancel"}
      /\ orders[m.id].symbol = m.symbol /\ orders[m.id].side = m.side
      /\ orders[m.id].filledQty = 0 /\ orders[m.id].remainingQty = m.quantity
      /\ m.id \notin DOMAIN resting
      /\ \A i \in DOMAIN reports : reports[i].id # m.id
  BY <1>1 DEF LifeInv, Life, OnTheWay
<1>3. orders[m.id].status \notin Terminal
  BY <1>2 DEF Terminal
<1>4. Arrived(m) \in LiveOrder
  BY <1>1 DEF Arrived, LiveOrder, Message
<1>5. m.id \in 1 .. nextOrderId - 1
  BY <1>2, Tables DEF LifeInv
<1>6. Underway(m.id, orders, Tail(sent), reports)
  BY <1>1, <1>2, <1>3 DEF Underway
<1> QED BY <1>2, <1>3, <1>4, <1>5, <1>6 DEF m

(* A live order, read against the tables. *)
LEMMA LiveKnown ==
  ASSUME LifeInv, NEW id \in DOMAIN resting
  PROVE  /\ resting[id] \in LiveOrder /\ id \in 1 .. nextOrderId - 1
         /\ Underway(id, orders, sent, reports)
         /\ id \in DOMAIN orders =>
              orders[id].symbol = resting[id].symbol /\ orders[id].side = resting[id].side
<1>1. resting[id] \in LiveOrder /\ id \in 1 .. nextOrderId - 1
  BY DEF LifeInv, WireOK
<1>2. \A k \in DOMAIN sent : sent[k].action = "New" => sent[k].id # id
  BY DEF LifeInv, Life, OnTheWay
<1>3. id \in DOMAIN orders =>
        /\ orders[id].status \notin Terminal
        /\ orders[id].symbol = resting[id].symbol /\ orders[id].side = resting[id].side
        /\ \A k \in DOMAIN reports : reports[k].id = id => reports[k].execType \notin Terminal
  BY DEF LifeInv, Life, LiveIsOpen
<1> QED BY <1>1, <1>2, <1>3 DEF Underway

(* The message taken does not make an order less under way. *)
LEMMA StillUnderway ==
  ASSUME LifeInv, NEW action, Receive(action), NEW id, Underway(id, orders, sent, reports)
  PROVE  Underway(id, orders, Tail(sent), reports)
<1>1. \A k \in DOMAIN Tail(sent) : k + 1 \in DOMAIN sent /\ Tail(sent)[k] = sent[k + 1]
  BY Taken
<1> QED BY <1>1 DEF Underway

(* A new order is accepted. *)
LEMMA AcceptStep ==
  ASSUME LifeInv, AcceptOrder
  PROVE  LifeInv'
<1> DEFINE m == Head(sent)
<1>1. Receive("New") /\ resting' = With(m.id, Arrived(m)) /\ Report(m.id, "New", 0, Arrived(m))
  BY DEF AcceptOrder
<1>2. /\ m \in Message /\ sent' = Tail(sent) /\ Tail(sent) \in Seq(Message)
      /\ \A k \in DOMAIN Tail(sent) :
           Tail(sent)[k].id < nextOrderId
           /\ (Tail(sent)[k].action # "Cancel" => Tail(sent)[k].quantity # 0)
      /\ Life(orders, Tail(sent), reports, resting)
      /\ UNCHANGED <<now, ring, nextOrderId, tables, connected, missed, traded>>
  BY <1>1, Taken
<1>3. /\ m.id \in DOMAIN orders
      /\ orders[m.id].symbol = m.symbol /\ orders[m.id].side = m.side
      /\ Arrived(m) \in LiveOrder
      /\ m.id \in 1 .. nextOrderId - 1
      /\ Underway(m.id, orders, Tail(sent), reports)
  BY <1>1, NewTaken
<1>4. PICK leaves \in Leaves("New", Arrived(m)) :
        \/ reports' = reports
        \/ reports' = Append(reports, ReportOf(m.id, "New", 0, Arrived(m), leaves))
  BY <1>1, Reported
<1> DEFINE r == ReportOf(m.id, "New", 0, Arrived(m), leaves)
<1> HIDE DEF m
<1>5. r \in ExecutionReport /\ r.id = m.id /\ r.execType = "New"
  BY <1>3 DEF Leaves, ReportOf, ExecutionReport, ExecTypes, LiveOrder
<1>6. /\ DOMAIN resting' = DOMAIN resting \cup {m.id}
      /\ resting'[m.id] = Arrived(m)
      /\ \A id \in DOMAIN resting : id # m.id => resting'[id] = resting[id]
  BY <1>1 DEF With
<1> HIDE DEF r
<1>7. Touches(resting', resting, r.id)
  BY <1>5, <1>6 DEF Touches
<1>8. Fits(r, orders, resting')
  BY <1>3, <1>5, <1>6 DEF Fits, Terminal, Arrived
<1>9. traded' \in [Symbols -> Int]
  BY <1>2 DEF LifeInv, WireOK
<1>10. reports' = reports \/ reports' = Append(reports, r)
  BY <1>4 DEF r
<1> QED BY <1>2, <1>3, <1>5, <1>6, <1>7, <1>8, <1>9, <1>10, ToldStep

(* A new order is rejected. *)
LEMMA RejectStep ==
  ASSUME LifeInv, RejectOrder
  PROVE  LifeInv'
<1> DEFINE m == Head(sent)
<1>1. Receive("New") /\ UNCHANGED resting /\ Report(m.id, "Rejected", 0, Arrived(m))
  BY DEF RejectOrder
<1>2. /\ m \in Message /\ sent' = Tail(sent) /\ Tail(sent) \in Seq(Message)
      /\ \A k \in DOMAIN Tail(sent) :
           Tail(sent)[k].id < nextOrderId
           /\ (Tail(sent)[k].action # "Cancel" => Tail(sent)[k].quantity # 0)
      /\ Life(orders, Tail(sent), reports, resting)
      /\ UNCHANGED <<now, ring, nextOrderId, tables, connected, missed, traded>>
  BY <1>1, Taken
<1>3. /\ m.id \notin DOMAIN resting
      /\ Arrived(m) \in LiveOrder
      /\ m.id \in 1 .. nextOrderId - 1
      /\ Underway(m.id, orders, Tail(sent), reports)
  BY <1>1, NewTaken
<1>4. PICK leaves \in Leaves("Rejected", Arrived(m)) :
        \/ reports' = reports
        \/ reports' = Append(reports, ReportOf(m.id, "Rejected", 0, Arrived(m), leaves))
  BY <1>1, Reported
<1> DEFINE r == ReportOf(m.id, "Rejected", 0, Arrived(m), leaves)
<1> HIDE DEF m
<1>5. r \in ExecutionReport /\ r.id = m.id
  BY <1>3 DEF Leaves, ReportOf, ExecutionReport, ExecTypes, LiveOrder
<1> HIDE DEF r
<1>6. Touches(resting', resting, r.id) /\ Fits(r, orders, resting') /\ r.id \notin DOMAIN resting'
  BY <1>1, <1>3, <1>5 DEF Touches, Fits
<1>7. traded' \in [Symbols -> Int]
  BY <1>2 DEF LifeInv, WireOK
<1>8. reports' = reports \/ reports' = Append(reports, r)
  BY <1>4 DEF r
<1> QED BY <1>2, <1>3, <1>5, <1>6, <1>7, <1>8, ToldStep

(* A request that comes to nothing is taken. *)
LEMMA IgnoredStep ==
  ASSUME LifeInv, NEW action, Receive(action), UNCHANGED <<resting, reports>>
  PROVE  LifeInv'
<1>1. /\ sent' = Tail(sent) /\ Tail(sent) \in Seq(Message)
      /\ \A k \in DOMAIN Tail(sent) :
           Tail(sent)[k].id < nextOrderId
           /\ (Tail(sent)[k].action # "Cancel" => Tail(sent)[k].quantity # 0)
      /\ Life(orders, Tail(sent), reports, resting)
      /\ UNCHANGED <<now, ring, nextOrderId, tables, connected, missed, traded>>
  BY Taken
<1>2. TypeOK'
  BY <1>1 DEF LifeInv, TypeOK, tables
<1>3. WireOK'
  BY <1>1 DEF LifeInv, WireOK
<1>4. Life(orders', sent', reports', resting')
  BY <1>1 DEF tables
<1>5. OrderLimitsHold'
  BY <1>1 DEF LifeInv, OrderLimitsHold, OpenOrders, tables
<1> QED BY <1>2, <1>3, <1>4, <1>5 DEF LifeInv

(* The id of a request is that of no order at either end. *)
LEMMA RequestTaken ==
  ASSUME LifeInv, NEW action, Receive(action), action # "New"
  PROVE  LET m == Head(sent)
         IN  /\ m.id \notin DOMAIN orders /\ m.id \in 1 .. nextOrderId - 1
             /\ Underway(m.id, orders, Tail(sent), reports)
<1> DEFINE m == Head(sent)
<1>1. /\ m = sent[1] /\ 1 \in DOMAIN sent /\ m.action = action
      /\ m.id < nextOrderId /\ m.id \in Nat \ {0}
      /\ Life(orders, Tail(sent), reports, resting)
  BY Taken
<1>2. m.id \notin DOMAIN orders
  BY <1>1 DEF LifeInv, Life, RequestsUnknown
<1>3. nextOrderId \in Nat
  BY Tables DEF LifeInv
<1> HIDE DEF m
<1>4. m.id \in 1 .. nextOrderId - 1
  BY <1>1, <1>3
<1>5. Underway(m.id, orders, Tail(sent), reports)
  BY <1>1, <1>2 DEF Life, OnTheWay, Underway
<1> QED BY <1>2, <1>4, <1>5 DEF m

(* An order is cancelled, and that is reported under some id. *)
LEMMA CancelledStep ==
  ASSUME LifeInv, Receive("Cancel"), NEW id \in DOMAIN resting, resting' = Without(id),
         NEW i \in 1 .. nextOrderId - 1, Underway(i, orders, Tail(sent), reports),
         i = id \/ i \notin DOMAIN orders,
         Report(i, "Canceled", 0, resting[id])
  PROVE  LifeInv'
<1>1. /\ sent' = Tail(sent) /\ Tail(sent) \in Seq(Message)
      /\ \A k \in DOMAIN Tail(sent) :
           Tail(sent)[k].id < nextOrderId
           /\ (Tail(sent)[k].action # "Cancel" => Tail(sent)[k].quantity # 0)
      /\ Life(orders, Tail(sent), reports, resting)
      /\ UNCHANGED <<now, ring, nextOrderId, tables, connected, missed, traded>>
  BY Taken
<1>2. \A other \in DOMAIN resting : resting[other] \in LiveOrder
  BY LiveKnown
<1>3. PICK leaves \in Leaves("Canceled", resting[id]) :
        \/ reports' = reports
        \/ reports' = Append(reports, ReportOf(i, "Canceled", 0, resting[id], leaves))
  BY Reported
<1> DEFINE r == ReportOf(i, "Canceled", 0, resting[id], leaves)
<1>4. r \in ExecutionReport /\ r.id = i
  <2>1. resting[id].cum \in Nat /\ resting[id].leaves \in Nat
    BY <1>2 DEF LiveOrder
  <2> QED BY <2>1 DEF Leaves, ReportOf, ExecutionReport, ExecTypes
<1>5. /\ DOMAIN resting' = DOMAIN resting \ {id}
      /\ \A other \in DOMAIN resting' : resting'[other] = resting[other]
  BY DEF Without
<1> HIDE DEF r
<1>6. Touches(resting', resting, r.id) /\ Fits(r, orders, resting')
  BY <1>4, <1>5 DEF Touches, Fits
<1>7. r.id \in DOMAIN resting' => resting'[r.id] \in LiveOrder
  BY <1>2, <1>5
<1>8. traded' \in [Symbols -> Int]
  BY <1>1 DEF LifeInv, WireOK
<1>9. reports' = reports \/ reports' = Append(reports, r)
  BY <1>3 DEF r
<1> QED BY <1>1, <1>4, <1>6, <1>7, <1>8, <1>9, ToldStep

(* A request to cancel an order is taken. *)
LEMMA HandleCancelStep ==
  ASSUME LifeInv, HandleCancel
  PROVE  LifeInv'
<1> DEFINE m == Head(sent)
<1>1. Receive("Cancel")
  BY DEF HandleCancel
<1>2. CASE UNCHANGED <<resting, reports>>
  BY <1>1, <1>2, IgnoredStep
<1>3. CASE /\ m.orig \in DOMAIN resting /\ resting' = Without(m.orig)
           /\ Report(m.orig, "Canceled", 0, resting[m.orig])
  <2>1. m.orig \in 1 .. nextOrderId - 1 /\ Underway(m.orig, orders, Tail(sent), reports)
    BY <1>1, <1>3, LiveKnown, StillUnderway
  <2> QED BY <1>1, <1>3, <2>1, CancelledStep
<1>4. CASE /\ m.orig \in DOMAIN resting /\ resting' = Without(m.orig)
           /\ Report(m.id, "Canceled", 0, resting[m.orig])
  <2>1. /\ m.id \notin DOMAIN orders /\ m.id \in 1 .. nextOrderId - 1
        /\ Underway(m.id, orders, Tail(sent), reports)
    BY <1>1, RequestTaken
  <2> QED BY <1>1, <1>4, <2>1, CancelledStep
<1> QED BY <1>2, <1>3, <1>4 DEF HandleCancel

(* A request to replace an order is taken. *)
LEMMA HandleReplaceStep ==
  ASSUME LifeInv, HandleReplace
  PROVE  LifeInv'
<1> DEFINE m == Head(sent)
           o == [resting[m.orig] EXCEPT !.leaves = m.quantity - resting[m.orig].cum]
<1>1. Receive("Replace")
  BY DEF HandleReplace
<1>2. CASE UNCHANGED <<resting, reports>>
  BY <1>1, <1>2, IgnoredStep
<1>3. CASE /\ m.orig \in DOMAIN resting /\ m.quantity > resting[m.orig].cum
           /\ resting' = [id \in (DOMAIN resting \ {m.orig}) \cup {m.id} |->
                            IF id = m.id THEN o ELSE resting[id]]
           /\ Report(m.id, "Replaced", 0, o)
  <2>1. /\ m = sent[1] /\ 1 \in DOMAIN sent /\ m.action = "Replace"
        /\ m.id < nextOrderId /\ m.id \in Nat \ {0} /\ m.quantity \in Nat
        /\ sent' = Tail(sent) /\ Tail(sent) \in Seq(Message)
        /\ \A k \in DOMAIN Tail(sent) :
             Tail(sent)[k].id < nextOrderId
             /\ (Tail(sent)[k].action # "Cancel" => Tail(sent)[k].quantity # 0)
        /\ Life(orders, Tail(sent), reports, resting)
        /\ UNCHANGED <<now, ring, nextOrderId, tables, connected, missed, traded>>
    BY <1>1, Taken
  <2>2. resting[m.orig] \in LiveOrder
    BY <1>3, LiveKnown
  <2>3. PICK leaves \in Leaves("Replaced", o) :
          \/ reports' = reports
          \/ reports' = Append(reports, ReportOf(m.id, "Replaced", 0, o, leaves))
    BY <1>3, Reported
  <2> DEFINE r == ReportOf(m.id, "Replaced", 0, o, leaves)
  <2>4. /\ m.id \notin DOMAIN orders /\ m.id \in 1 .. nextOrderId - 1
        /\ Underway(m.id, orders, Tail(sent), reports)
    BY <1>1, RequestTaken
  <2> HIDE DEF m
  <2>5. o \in LiveOrder
    <3> DEFINE l == resting[m.orig]
               left == m.quantity - l.cum
    <3>1. l \in LiveOrder /\ l.cum \in Nat /\ m.quantity > l.cum
      BY <1>3, <2>2 DEF LiveOrder
    <3>2. left \in Nat \ {0}
      BY <2>1, <3>1
    <3>3. o = [l EXCEPT !.leaves = left]
      OBVIOUS
    <3> HIDE DEF l, left, o
    <3> QED BY <3>1, <3>2, <3>3 DEF LiveOrder
  <2>6. /\ DOMAIN resting' = (DOMAIN resting \ {m.orig}) \cup {m.id}
        /\ resting'[m.id] = o
        /\ \A id \in DOMAIN resting' : id # m.id => resting'[id] = resting[id]
    BY <1>3
  <2> HIDE DEF o
  <2>7. r \in ExecutionReport /\ r.id = m.id
    BY <2>1, <2>5 DEF Leaves, ReportOf, ExecutionReport, ExecTypes, LiveOrder
  <2> HIDE DEF r
  <2>8. Touches(resting', resting, r.id)
    BY <2>6, <2>7 DEF Touches
  <2>9. Fits(r, orders, resting') /\ Underway(r.id, orders, Tail(sent), reports)
    BY <2>4, <2>7 DEF Fits
  <2>10. traded' \in [Symbols -> Int]
    BY <2>1 DEF LifeInv, WireOK
  <2>11. r.id \in 1 .. nextOrderId - 1
    BY <2>4, <2>7
  <2>12. resting'[r.id] \in LiveOrder
    BY <2>5, <2>6, <2>7
  <2>13. reports' = reports \/ reports' = Append(reports, r)
    BY <2>3 DEF r
  <2> QED BY <2>1, <2>7, <2>8, <2>9, <2>10, <2>11, <2>12, <2>13, ToldStep
<1> QED BY <1>2, <1>3 DEF HandleReplace

(* A fill, read against the order it is of. *)
LEMMA Filling ==
  ASSUME LifeInv, NEW id \in DOMAIN resting, NEW quantity \in 1 .. resting[id].leaves,
         Fill(id, quantity)
  PROVE  LET o == resting[id]
             left == o.leaves - quantity
             r == [id |-> id, execType |-> IF left = 0 THEN "Filled" ELSE "PartiallyFilled",
                   last |-> quantity, cum |-> o.cum + quantity, leaves |-> left]
         IN  /\ o \in LiveOrder /\ quantity \in Nat \ {0} /\ left \in Nat
             /\ r \in ExecutionReport
             /\ reports' = reports \/ reports' = Append(reports, r)
             /\ RoomForReports => reports' = Append(reports, r)
             /\ left = 0 => resting' = Without(id)
             /\ left # 0 => resting' = With(id, [symbol |-> o.symbol, side |-> o.side,
                                                 leaves |-> left, cum |-> o.cum + quantity])
             /\ traded' = [traded EXCEPT ![o.symbol] = @ + Signed(o.side, quantity)]
             /\ connected
             /\ UNCHANGED <<now, ring, nextOrderId, tables, connected, missed, sent>>
<1> DEFINE o == resting[id]
           left == o.leaves - quantity
           order == [o EXCEPT !.leaves = @ - quantity, !.cum = @ + quantity]
<1>1. o \in LiveOrder
  BY LiveKnown
<1>2. /\ o.leaves \in Nat \ {0} /\ o.cum \in Nat
      /\ o = [symbol |-> o.symbol, side |-> o.side, leaves |-> o.leaves, cum |-> o.cum]
  BY <1>1 DEF LiveOrder
<1>3. quantity \in Nat \ {0} /\ left \in Nat /\ o.cum + quantity \in Nat
  BY <1>2
<1>4. /\ resting' = IF order.leaves = 0 THEN Without(id) ELSE With(id, order)
      /\ traded' = [traded EXCEPT ![order.symbol] = @ + Signed(order.side, quantity)]
      /\ Report(id, IF order.leaves = 0 THEN "Filled" ELSE "PartiallyFilled", quantity, order)
      /\ connected
      /\ UNCHANGED <<now, ring, nextOrderId, tables, connected, missed, sent>>
  BY DEF Fill
<1>5. order = [symbol |-> o.symbol, side |-> o.side, leaves |-> left, cum |-> o.cum + quantity]
  <2> DEFINE Ord == [symbol : Symbols, side : Sides, leaves : Nat, cum : Nat]
             first == [o EXCEPT !.leaves = left]
             second == [first EXCEPT !.cum = o.cum + quantity]
  <2>1. o \in Ord
    BY <1>1 DEF LiveOrder
  <2>2. order = second
    OBVIOUS
  <2> HIDE DEF o, left, order
  <2>3. first \in Ord /\ first.leaves = left /\ first.cum = o.cum
        /\ first.symbol = o.symbol /\ first.side = o.side
    BY <1>3, <2>1
  <2> HIDE DEF first
  <2>4. second \in Ord /\ second.leaves = left /\ second.cum = o.cum + quantity
        /\ second.symbol = o.symbol /\ second.side = o.side
    BY <1>3, <2>3
  <2> HIDE DEF second
  <2>5. second = [symbol |-> second.symbol, side |-> second.side, leaves |-> second.leaves,
                  cum |-> second.cum]
    BY <2>4
  <2> QED BY <2>2, <2>4, <2>5
<1>6. order.leaves = left /\ order.cum = o.cum + quantity /\ order.symbol = o.symbol /\ order.side = o.side
  <2> HIDE DEF o, left, order
  <2> QED BY <1>5
<1> DEFINE r == [id |-> id, execType |-> IF left = 0 THEN "Filled" ELSE "PartiallyFilled",
                 last |-> quantity, cum |-> o.cum + quantity, leaves |-> left]
<1>7. reports' = IF RoomForReports THEN Append(reports, r) ELSE reports
  <2> HIDE DEF o, left, order
  <2> QED BY <1>4, <1>6 DEF Report, Leaves, RoomForReports
<1>8. id \in Nat
  BY LiveKnown
<1>9. r \in ExecutionReport
  <2> HIDE DEF o, left
  <2> QED BY <1>3, <1>8 DEF ExecutionReport, ExecTypes
<1> HIDE DEF o, left, order, r
<1>10. reports' = reports \/ reports' = Append(reports, r)
  BY <1>7
<1>11. /\ left = 0 => resting' = Without(id)
       /\ left # 0 => resting' = With(id, [symbol |-> o.symbol, side |-> o.side,
                                           leaves |-> left, cum |-> o.cum + quantity])
  BY <1>4, <1>5, <1>6
<1>12. traded' = [traded EXCEPT ![o.symbol] = @ + Signed(o.side, quantity)]
  BY <1>4, <1>6
<1> QED BY <1>1, <1>3, <1>4, <1>7, <1>9, <1>10, <1>11, <1>12 DEF o, left, r

(* The exchange trades. *)
LEMMA FillStep ==
  ASSUME LifeInv, NEW id \in DOMAIN resting, NEW quantity \in 1 .. resting[id].leaves,
         Fill(id, quantity)
  PROVE  LifeInv'
<1> DEFINE o == resting[id]
           left == o.leaves - quantity
           l == [symbol |-> o.symbol, side |-> o.side, leaves |-> left, cum |-> o.cum + quantity]
           r == [id |-> id, execType |-> IF left = 0 THEN "Filled" ELSE "PartiallyFilled",
                 last |-> quantity, cum |-> o.cum + quantity, leaves |-> left]
<1>1. /\ o \in LiveOrder /\ quantity \in Nat \ {0} /\ left \in Nat
      /\ r \in ExecutionReport
      /\ reports' = reports \/ reports' = Append(reports, r)
      /\ left = 0 => resting' = Without(id)
      /\ left # 0 => resting' = With(id, l)
      /\ traded' = [traded EXCEPT ![o.symbol] = @ + Signed(o.side, quantity)]
      /\ UNCHANGED <<now, ring, nextOrderId, tables, connected, missed, sent>>
  BY Filling
<1>2. /\ id \in 1 .. nextOrderId - 1
      /\ Underway(id, orders, sent, reports)
      /\ id \in DOMAIN orders => orders[id].symbol = o.symbol /\ orders[id].side = o.side
  BY LiveKnown
<1>3. r.id = id /\ (left # 0 => r.execType = "PartiallyFilled")
      /\ l.symbol = o.symbol /\ l.side = o.side
  OBVIOUS
<1> HIDE DEF left, r
<1>4. left # 0 => l \in LiveOrder
  BY <1>1 DEF LiveOrder
<1> HIDE DEF o, l
<1>5. /\ Touches(resting', resting, r.id) /\ Fits(r, orders, resting')
      /\ r.id \in DOMAIN resting' => resting'[r.id] \in LiveOrder
  <2>1. CASE left = 0
    <3>1. /\ DOMAIN resting' = DOMAIN resting \ {id}
          /\ \A other \in DOMAIN resting' : resting'[other] = resting[other]
      BY <1>1, <2>1 DEF Without
    <3> QED BY <1>3, <3>1 DEF Touches, Fits
  <2>2. CASE left # 0
    <3>1. /\ DOMAIN resting' = DOMAIN resting \cup {id} /\ resting'[id] = l
          /\ \A other \in DOMAIN resting' : other # id => resting'[other] = resting[other]
      BY <1>1, <2>2 DEF With
    <3>2. Touches(resting', resting, r.id)
      BY <1>3, <3>1 DEF Touches
    <3>3. Fits(r, orders, resting')
      BY <1>2, <1>3, <2>2, <3>1 DEF Fits, Terminal
    <3> QED BY <1>3, <1>4, <2>2, <3>1, <3>2, <3>3
  <2> QED BY <2>1, <2>2
<1>6. traded' \in [Symbols -> Int]
  <2>1. traded \in [Symbols -> Int]
    BY DEF LifeInv, WireOK
  <2>2. o.symbol \in Symbols /\ Signed(o.side, quantity) \in Int
    BY <1>1 DEF LiveOrder, Signed
  <2> QED BY <1>1, <2>1, <2>2
<1>7. /\ sent \in Seq(Message)
      /\ \A k \in DOMAIN sent :
           sent[k].id < nextOrderId /\ (sent[k].action # "Cancel" => sent[k].quantity # 0)
      /\ Life(orders, sent, reports, resting)
  BY DEF LifeInv, WireOK
<1>8. sent' = sent /\ UNCHANGED <<now, ring, nextOrderId, tables, connected, missed>>
  BY <1>1
<1>9. r.id \in 1 .. nextOrderId - 1 /\ Underway(r.id, orders, sent, reports)
  BY <1>2, <1>3
<1> QED BY <1>1, <1>5, <1>6, <1>7, <1>8, <1>9, ToldStep

-----------------------------------------------------------------------------
(* LifeInv holds, whatever is lost. *)

(* Only the clock or the session moves. *)
LEMMA QuietStep ==
  ASSUME LifeInv, now' \in 0 .. MaxTime, connected' \in BOOLEAN,
         UNCHANGED <<ring, nextOrderId, tables, missed, sent, reports, resting, traded>>
  PROVE  LifeInv'
<1>1. TypeOK'
  BY DEF LifeInv, TypeOK, tables
<1>2. WireOK'
  BY DEF LifeInv, WireOK
<1>3. Life(orders', sent', reports', resting') /\ OrderLimitsHold'
  BY DEF LifeInv, OrderLimitsHold, OpenOrders, tables
<1> QED BY <1>1, <1>2, <1>3 DEF LifeInv

(* To begin with, nothing is anywhere. *)
LEMMA LifeInit ==
  ASSUME Init
  PROVE  LifeInv
<1>1. orders = <<>> /\ sent = <<>> /\ reports = <<>> /\ resting = <<>> /\ pendingOrders = {}
  BY DEF Init, GatewayInit
<1>2. DOMAIN orders = {} /\ DOMAIN sent = {} /\ DOMAIN reports = {} /\ DOMAIN resting = {}
  BY <1>1
<1>3. TypeOK
  <2>1. ring \in [head : RingSlot, count : 0 .. Limit, times : [RingSlot -> Nat]]
    <3>1. 0 \in RingSlot /\ 0 \in 0 .. Limit
      BY LimiterAssumption DEF RingSlot, Limit
    <3> QED BY <3>1 DEF Init, GatewayInit, EmptyRing
  <2>2. now \in 0 .. MaxTime /\ nextOrderId \in 1 .. MaxIds + 1
    BY GatewayAssumption DEF Init, GatewayInit
  <2>3. connected \in BOOLEAN
    BY DEF Init, GatewayInit
  <2>4. positions \in [Symbols -> Int] /\ pendingPositions \in [Symbols -> Int]
    BY DEF Init, GatewayInit
  <2> QED BY <1>1, <1>2, <2>1, <2>2, <2>3, <2>4 DEF TypeOK
<1>4. WireOK
  <2>1. sent \in Seq(Message) /\ reports \in Seq(ExecutionReport)
    BY <1>1
  <2>2. traded \in [Symbols -> Int]
    BY DEF Init
  <2>3. missed \in BOOLEAN
    BY DEF Init, GatewayInit
  <2> QED BY <1>2, <2>1, <2>2, <2>3 DEF WireOK
<1>5. Life(orders, sent, reports, resting)
  BY <1>2 DEF Life, OnTheWay, SentOnce, RequestsUnknown, LiveIsOpen, EndIsLast, ReportsOpen
<1>6. OrderLimitsHold
  <2>1. OpenOrders = {}
    BY <1>2 DEF OpenOrders
  <2>2. Cardinality({}) = 0
    BY FS_EmptySet
  <2> QED BY <1>1, <2>1, <2>2, GatewayAssumption DEF OrderLimitsHold
<1> QED BY <1>3, <1>4, <1>5, <1>6 DEF LifeInv

(* Every step keeps the life of the orders. *)
LEMMA LifeStep ==
  ASSUME EnableRiskChecks, LifeInv, [Next]_vars
  PROVE  LifeInv'
<1>0. now \in 0 .. MaxTime /\ connected \in BOOLEAN /\ TypeOK
  BY DEF LifeInv, TypeOK
<1>1. CASE UNCHANGED vars
  BY <1>0, <1>1, QuietStep DEF vars, gatewayVars, exchangeVars
<1>2. ASSUME GatewayNext, UNCHANGED <<resting, traded>>
      PROVE  LifeInv'
  <2>1. CASE Tick
    <3>1. now' \in 0 .. MaxTime
      BY <1>0, <2>1, GatewayAssumption DEF Tick
    <3> QED BY <1>0, <1>2, <2>1, <3>1, QuietStep DEF Tick
  <2>2. ASSUME NEW r \in Requests, SubmitOrder(r)  PROVE LifeInv'
    <3>1. CASE ~Accepts(r) /\ UNCHANGED <<nextOrderId, tables, connected, missed, sent>>
      BY <1>2, <2>2, <3>1, RefusedStep DEF SubmitOrder
    <3>2. CASE Accepts(r) /\ ~UNCHANGED <<nextOrderId, tables, connected, missed, sent>>
      BY <1>2, <2>2, <3>2, AcceptedStep DEF SubmitOrder, NewMessage
    <3>3. CASE Accepts(r) /\ UNCHANGED <<nextOrderId, tables, connected, missed, sent>>
      BY <1>2, <2>2, <3>3, AcceptedStep DEF SubmitOrder, NewMessage
    <3> QED BY <2>2, <3>1, <3>2, <3>3 DEF SubmitOrder
  <2>3. ASSUME NEW id, CancelOrder(id)  PROVE LifeInv'
    <3>1. <<id>> \in Seq(OpenOrders) /\ Cancel(<<id>>)
      BY <1>0, <2>3, CancelledAreOpen
    <3> QED BY <1>2, <3>1, CancelStep
  <2>4. ASSUME NEW symbol \in Symbols, CancelAllOrders(symbol)  PROVE LifeInv'
    <3>1. PICK ids \in Seq(OpenOrders) : Cancel(ids)
      BY <1>0, <2>4, CancelledAreOpen
    <3> QED BY <1>2, <3>1, CancelStep
  <2>5. ASSUME NEW id, NEW newQty \in ReplaceQuantities, ReplaceOrder(id, newQty)  PROVE LifeInv'
    BY <1>2, <2>5, ReplaceStep
  <2>6. CASE OnExecutionReport
    BY <1>2, <2>6, ReportStep
  <2> QED BY <1>2, <2>1, <2>2, <2>3, <2>4, <2>5, <2>6 DEF GatewayNext
<1>3. CASE OnLogon
  BY <1>0, <1>3, QuietStep DEF OnLogon, exchangeVars
<1>4. CASE OnLogout
  BY <1>0, <1>4, QuietStep DEF OnLogout, exchangeVars
<1>5. CASE Answer
  BY <1>5, AcceptStep, RejectStep, HandleCancelStep, HandleReplaceStep DEF Answer
<1>6. ASSUME NEW id \in DOMAIN resting, NEW quantity \in 1 .. resting[id].leaves, Fill(id, quantity)
      PROVE  LifeInv'
  BY <1>6, FillStep
<1> QED BY <1>1, <1>2, <1>3, <1>4, <1>5, <1>6 DEF Next, exchangeVars

(* The invariant of an order's life holds in every state, for any requests *)
(* and limits, whatever messages and reports are lost.                     *)
THEOREM LifeInvariant ==
  ASSUME EnableRiskChecks
  PROVE  Spec => []LifeInv
<1>1. Init => LifeInv
  BY LifeInit
<1>2. LifeInv /\ [Next]_vars => LifeInv'
  BY LifeStep
<1> QED BY <1>1, <1>2, PTL DEF Spec

(* OrderLimitsHold: the limits on pending and on open orders, checked when *)
(* an order is submitted (checkRiskLimits), hold at all times.             *)
THEOREM LimitsHold ==
  ASSUME EnableRiskChecks
  PROVE  Spec => []OrderLimitsHold
<1>1. LifeInv => OrderLimitsHold
  BY DEF LifeInv
<1> QED BY <1>1, LifeInvariant, PTL

(* What a step does to an order that is done. *)
LEMMA DoneStep ==
  ASSUME LifeInv, [Next]_vars, NEW id \in DOMAIN orders, orders[id].status \in Terminal
  PROVE  orders'[id] = orders[id]
<1>1. TypeOK /\ WireOK /\ Life(orders, sent, reports, resting)
  BY DEF LifeInv
<1>2. orders[id].status \notin Active
  BY DEF Terminal, Active
<1>3. ASSUME NEW ids \in Seq(OpenOrders), Cancel(ids)
      PROVE  orders'[id] = orders[id]
  <2>1. id \notin ToSet(ids)
    BY <1>2 DEF ToSet, OpenOrders
  <2> QED BY <2>1, <1>3 DEF Cancel
<1>4. CASE OnExecutionReport
  <2>1. reports # <<>> /\ Books(orders', orders, reports[1]) /\ reports \in Seq(ExecutionReport)
    BY <1>1, <1>4, Booked DEF WireOK
  <2>2. 1 \in DOMAIN reports
    BY <2>1, Shrunk
  <2>3. id # reports[1].id
    BY <1>1, <2>2 DEF Life, ReportsOpen
  <2> QED BY <2>1, <2>3 DEF Books
<1>5. CASE GatewayNext
  <2>1. ASSUME NEW r \in Requests, SubmitOrder(r)
        PROVE  orders'[id] = orders[id]
    <3>1. nextOrderId \notin DOMAIN orders
      BY <1>1, Tables
    <3> QED BY <2>1, <3>1 DEF SubmitOrder, tables
  <2>2. ASSUME NEW other, CancelOrder(other)  PROVE orders'[id] = orders[id]
    BY <1>1, <1>3, <2>2, CancelledAreOpen
  <2>3. ASSUME NEW symbol \in Symbols, CancelAllOrders(symbol)  PROVE orders'[id] = orders[id]
    BY <1>1, <1>3, <2>3, CancelledAreOpen
  <2>4. ASSUME NEW other, NEW newQty, ReplaceOrder(other, newQty)  PROVE orders'[id] = orders[id]
    BY <2>4 DEF ReplaceOrder, tables
  <2>5. CASE Tick
    BY <2>5 DEF Tick, tables
  <2> QED BY <1>4, <1>5, <2>1, <2>2, <2>3, <2>4, <2>5 DEF GatewayNext
<1>6. ASSUME UNCHANGED tables  PROVE orders'[id] = orders[id]
  BY <1>6 DEF tables
<1>7. Answer => UNCHANGED tables
  BY DEF Answer, AcceptOrder, RejectOrder, HandleCancel, HandleReplace, Receive
<1>8. OnLogon \/ OnLogout \/ UNCHANGED vars => UNCHANGED tables
  BY DEF OnLogon, OnLogout, vars, gatewayVars
<1>9. ASSUME NEW i, NEW quantity, Fill(i, quantity)  PROVE UNCHANGED tables
  BY <1>9 DEF Fill
<1> QED BY <1>5, <1>6, <1>7, <1>8, <1>9 DEF Next

(* DoneIsDone: no call and no report brings back an order that is filled,  *)
(* cancelled or rejected (onExecutionReport, cancelOrder, replaceOrder).   *)
THEOREM DoneStaysDone ==
  ASSUME EnableRiskChecks
  PROVE  Spec => DoneIsDone
<1> DEFINE Kept == \A id \in DOMAIN orders :
                     orders[id].status \in Terminal => orders'[id] = orders[id]
<1>1. LifeInv /\ [Next]_vars => [Kept]_gatewayVars
  BY DoneStep
<1>2. DoneIsDone <=> [][Kept]_gatewayVars
  BY DEF DoneIsDone
<1> HIDE DEF Kept
<1> QED BY <1>1, <1>2, LifeInvariant, PTL DEF Spec

-----------------------------------------------------------------------------
(* The account of an order, step by step. *)

(* Marking orders moves no quantity. *)
LEMMA AccountMarks ==
  ASSUME NEW os, NEW pending, NEW rs, NEW live, NEW os2,
         Account(os, pending, rs, live), Marks(os2, os)
  PROVE  Account(os2, pending, rs, live)
<1>1. /\ DOMAIN os2 = DOMAIN os
      /\ \A id \in DOMAIN os :
           os2[id].filledQty = os[id].filledQty /\ os2[id].remainingQty = os[id].remainingQty
  BY DEF Marks
<1>2. FirstContinues(os2, rs)
  BY <1>1 DEF Account, FirstContinues
<1>3. OthersContinue(os2, rs)
  BY <1>1 DEF Account, OthersContinue
<1>4. LastAgrees(os2, rs, live)
  BY <1>1 DEF Account, LastAgrees
<1>5. NothingToTell(os2, rs, live)
  BY <1>1 DEF Account, NothingToTell
<1>6. FillsOnly(rs) /\ AnsweredFirst(os2, pending, rs, live)
  BY DEF Account, AnsweredFirst
<1> QED BY <1>2, <1>3, <1>4, <1>5, <1>6 DEF Account

(* A new order has nothing to its account. *)
LEMMA AccountEnters ==
  ASSUME NEW os, NEW pending, NEW ms, NEW rs, NEW live, NEW os2, NEW m,
         Account(os, pending, rs, live), Enters(os2, os, m), Unknown(m.id, ms, rs, live)
  PROVE  Account(os2, pending \cup {m.id}, rs, live)
<1>1. /\ DOMAIN os2 = DOMAIN os \cup {m.id}
      /\ \A id \in DOMAIN os : os2[id] = os[id]
  BY DEF Enters
<1>2. m.id \notin DOMAIN live /\ \A k \in DOMAIN rs : rs[k].id # m.id
  BY DEF Unknown
<1>3. FirstContinues(os2, rs)
  BY <1>1, <1>2 DEF Account, FirstContinues
<1>4. OthersContinue(os2, rs)
  BY <1>1, <1>2 DEF Account, OthersContinue
<1>5. LastAgrees(os2, rs, live)
  BY <1>1, <1>2 DEF Account, LastAgrees
<1>6. NothingToTell(os2, rs, live)
  BY <1>1, <1>2 DEF Account, NothingToTell
<1>7. FillsOnly(rs) /\ AnsweredFirst(os2, pending \cup {m.id}, rs, live)
  BY <1>2 DEF Account, AnsweredFirst
<1> QED BY <1>3, <1>4, <1>5, <1>6, <1>7 DEF Account

(* The account of an order once all the reports queued are booked. *)
Stands(id, cum, leaves, os, rs) ==
  /\ \A k \in DOMAIN rs :
       rs[k].id = id /\ LastOf(rs, k) => rs[k].cum = cum /\ rs[k].leaves = leaves
  /\ (\A k \in DOMAIN rs : rs[k].id # id) =>
       os[id].filledQty = cum /\ os[id].remainingQty = leaves

(* The report fits its type, and a live order is left as it says. *)
Says(r, os, live2) ==
  /\ r.execType \notin {"PartiallyFilled", "Filled"} => r.last = 0
  /\ r.execType = "Filled" => r.leaves = 0
  /\ r.id \in DOMAIN os \cap DOMAIN live2 =>
       live2[r.id].cum = r.cum /\ live2[r.id].leaves = r.leaves

(* A report that continues the account is queued. *)
LEMMA AccountTells ==
  ASSUME NEW os, NEW pending, NEW rs, NEW live, NEW r, NEW live2, NEW rs2, NEW cum, NEW leaves,
         Account(os, pending, rs, live),
         rs \in Seq(ExecutionReport), r \in ExecutionReport, rs2 = Append(rs, r),
         Touches(live2, live, r.id), Says(r, os, live2),
         r.id \in DOMAIN os => Stands(r.id, cum, leaves, os, rs) /\ Continues(cum, leaves, r),
         r.execType = "PartiallyFilled" /\ r.id \in pending => \E k \in DOMAIN rs : rs[k].id = r.id
  PROVE  Account(os, pending, rs2, live2)
<1> DEFINE n == Len(rs)
<1>1. /\ n \in Nat /\ DOMAIN rs = 1 .. n /\ DOMAIN rs2 = 1 .. n + 1
      /\ rs2[n + 1] = r
      /\ \A k \in DOMAIN rs : rs2[k] = rs[k]
  BY Grown
<1> HIDE DEF n
<1>2. \A k \in DOMAIN rs2 : k \in DOMAIN rs \/ k = n + 1
  BY <1>1
<1>3. \A k \in DOMAIN rs : k \in DOMAIN rs2 /\ k < n + 1 /\ ~(n + 1 < k)
  BY <1>1
<1>4. n + 1 \in DOMAIN rs2 /\ ~(n + 1 < n + 1)
  BY <1>1
<1>5. FillsOnly(rs2)
  BY <1>1, <1>2 DEF Account, FillsOnly, Says
<1>6. FirstContinues(os, rs2)
  <2>1. ASSUME NEW k \in DOMAIN rs2, rs2[k].id \in DOMAIN os, FirstOf(rs2, k)
        PROVE  Continues(os[rs2[k].id].filledQty, os[rs2[k].id].remainingQty, rs2[k])
    <3>1. CASE k \in DOMAIN rs
      <4>1. FirstOf(rs, k) /\ rs2[k] = rs[k]
        BY <1>1, <1>3, <2>1, <3>1 DEF FirstOf
      <4> QED BY <2>1, <3>1, <4>1 DEF Account, FirstContinues
    <3>2. CASE k = n + 1
      <4>1. \A j \in DOMAIN rs : rs[j].id # r.id
        BY <1>1, <1>3, <2>1, <3>2 DEF FirstOf
      <4> QED BY <1>1, <2>1, <3>2, <4>1 DEF Stands
    <3> QED BY <1>2, <3>1, <3>2
  <2> QED BY <2>1 DEF FirstContinues
<1>7. OthersContinue(os, rs2)
  <2>1. ASSUME NEW j \in DOMAIN rs2, NEW k \in DOMAIN rs2, rs2[k].id \in DOMAIN os, Precedes(rs2, j, k)
        PROVE  Continues(rs2[j].cum, rs2[j].leaves, rs2[k])
    <3>1. j < k /\ rs2[j].id = rs2[k].id
      BY <2>1 DEF Precedes
    <3>2. j \in DOMAIN rs
      BY <1>1, <3>1
    <3>3. CASE k \in DOMAIN rs
      <4>1. Precedes(rs, j, k)
        BY <1>1, <1>3, <2>1, <3>2, <3>3 DEF Precedes
      <4>2. rs2[j] = rs[j] /\ rs2[k] = rs[k]
        BY <1>1, <3>2, <3>3
      <4> QED BY <2>1, <3>2, <3>3, <4>1, <4>2 DEF Account, OthersContinue
    <3>4. CASE k = n + 1
      <4>1. LastOf(rs, j) /\ rs[j].id = r.id
        BY <1>1, <1>3, <2>1, <3>2, <3>4 DEF Precedes, LastOf
      <4> QED BY <1>1, <2>1, <3>2, <3>4, <4>1 DEF Stands
    <3> QED BY <1>2, <3>3, <3>4
  <2> QED BY <2>1 DEF OthersContinue
<1>8. LastAgrees(os, rs2, live2)
  <2>1. ASSUME NEW k \in DOMAIN rs2, rs2[k].id \in DOMAIN os \cap DOMAIN live2, LastOf(rs2, k)
        PROVE  live2[rs2[k].id].cum = rs2[k].cum /\ live2[rs2[k].id].leaves = rs2[k].leaves
    <3>1. CASE k \in DOMAIN rs
      <4>1. rs2[k] = rs[k] /\ rs[k].id # r.id /\ LastOf(rs, k)
        BY <1>1, <1>3, <1>4, <2>1, <3>1 DEF LastOf
      <4>2. rs[k].id \in DOMAIN live /\ live2[rs[k].id] = live[rs[k].id]
        BY <2>1, <4>1 DEF Touches
      <4> QED BY <2>1, <3>1, <4>1, <4>2 DEF Account, LastAgrees
    <3>2. CASE k = n + 1
      BY <1>1, <2>1, <3>2 DEF Says
    <3> QED BY <1>2, <3>1, <3>2
  <2> QED BY <2>1 DEF LastAgrees
<1>9. NothingToTell(os, rs2, live2)
  <2>1. ASSUME NEW id \in DOMAIN os \cap DOMAIN live2, \A k \in DOMAIN rs2 : rs2[k].id # id
        PROVE  live2[id].cum = os[id].filledQty /\ live2[id].leaves = os[id].remainingQty
    <3>1. id # r.id /\ \A k \in DOMAIN rs : rs[k].id # id
      BY <1>1, <1>3, <1>4, <2>1
    <3>2. id \in DOMAIN live /\ live2[id] = live[id]
      BY <3>1 DEF Touches
    <3> QED BY <3>1, <3>2 DEF Account, NothingToTell
  <2> QED BY <2>1 DEF NothingToTell
<1>10. AnsweredFirst(os, pending, rs2, live2)
  <2>1. ASSUME NEW k \in DOMAIN rs2, rs2[k].id \in pending, FirstOf(rs2, k)
        PROVE  rs2[k].execType # "PartiallyFilled"
    <3>1. CASE k \in DOMAIN rs
      <4>1. FirstOf(rs, k) /\ rs2[k] = rs[k]
        BY <1>1, <1>3, <2>1, <3>1 DEF FirstOf
      <4> QED BY <2>1, <3>1, <4>1 DEF Account, AnsweredFirst
    <3>2. CASE k = n + 1
      <4>1. \A j \in DOMAIN rs : rs[j].id # r.id
        BY <1>1, <1>3, <2>1, <3>2 DEF FirstOf
      <4> QED BY <1>1, <2>1, <3>2, <4>1
    <3> QED BY <1>2, <3>1, <3>2
  <2>2. ASSUME NEW id \in pending \cap DOMAIN live2
        PROVE  \E k \in DOMAIN rs2 : rs2[k].id = id
    <3>1. CASE id = r.id
      BY <1>1, <1>4, <3>1
    <3>2. CASE id # r.id
      <4>1. id \in DOMAIN live
        BY <3>2 DEF Touches
      <4>2. PICK k \in DOMAIN rs : rs[k].id = id
        BY <4>1 DEF Account, AnsweredFirst
      <4> QED BY <1>1, <1>3, <4>2
    <3> QED BY <3>1, <3>2
  <2> QED BY <2>1, <2>2 DEF AnsweredFirst
<1> QED BY <1>5, <1>6, <1>7, <1>8, <1>9, <1>10 DEF Account

(* The next report is booked. *)
LEMMA AccountBooks ==
  ASSUME NEW os, NEW pending, NEW rs, NEW live, NEW os2, NEW pending2,
         Account(os, pending, rs, live),
         rs \in Seq(ExecutionReport), rs # <<>>,
         Books(os2, os, rs[1]), pending2 \subseteq pending, rs[1].id \notin pending2
  PROVE  Account(os2, pending2, Tail(rs), live)
<1> DEFINE t == Tail(rs)
<1>1. /\ 1 \in DOMAIN rs
      /\ \A k \in DOMAIN t : k + 1 \in DOMAIN rs /\ t[k] = rs[k + 1] /\ 1 < k + 1 /\ k \in Nat
      /\ \A k \in DOMAIN rs : k \in Nat \ {0} /\ (1 < k => k - 1 \in DOMAIN t /\ t[k - 1] = rs[k])
  <2>1. /\ Len(rs) \in Nat \ {0} /\ DOMAIN rs = 1 .. Len(rs) /\ DOMAIN t = 1 .. Len(rs) - 1
        /\ \A k \in DOMAIN t : k + 1 \in DOMAIN rs /\ t[k] = rs[k + 1]
    BY Shrunk
  <2> HIDE DEF t
  <2>2. ASSUME NEW k \in DOMAIN rs, 1 < k  PROVE k - 1 \in DOMAIN t /\ t[k - 1] = rs[k]
    <3>1. k - 1 \in DOMAIN t /\ (k - 1) + 1 = k
      BY <2>1, <2>2
    <3> QED BY <2>1, <3>1
  <2> QED BY <2>1, <2>2
<1> HIDE DEF t
<1>2. DOMAIN os2 = DOMAIN os /\ \A id \in DOMAIN os : id # rs[1].id => os2[id] = os[id]
  BY DEF Books
<1>3. rs[1].id \in DOMAIN os =>
        os2[rs[1].id].filledQty = rs[1].cum /\ os2[rs[1].id].remainingQty = rs[1].leaves
  BY DEF Books
<1>4. \A k \in DOMAIN t : LastOf(t, k) => LastOf(rs, k + 1)
  <2>1. ASSUME NEW k \in DOMAIN t, LastOf(t, k), NEW j \in DOMAIN rs, k + 1 < j
        PROVE  rs[j].id # rs[k + 1].id
    <3>1. j - 1 \in DOMAIN t /\ t[j - 1] = rs[j] /\ k < j - 1
      BY <1>1, <2>1, SMTT(30)
    <3> QED BY <1>1, <2>1, <3>1 DEF LastOf
  <2> QED BY <2>1 DEF LastOf
<1>5. \A k \in DOMAIN t :
        FirstOf(t, k) => IF t[k].id = rs[1].id THEN Precedes(rs, 1, k + 1) ELSE FirstOf(rs, k + 1)
  <2>1. ASSUME NEW k \in DOMAIN t, FirstOf(t, k), NEW j \in DOMAIN rs, 1 < j, j < k + 1
        PROVE  rs[j].id # rs[k + 1].id
    <3>1. j - 1 \in DOMAIN t /\ t[j - 1] = rs[j] /\ j - 1 < k
      <4>1. j \in Nat /\ k \in Nat /\ j - 1 \in DOMAIN t /\ t[j - 1] = rs[j]
        BY <1>1, <2>1
      <4> QED BY <2>1, <4>1
    <3> QED BY <1>1, <2>1, <3>1 DEF FirstOf
  <2>2. ASSUME NEW k \in DOMAIN t, FirstOf(t, k), t[k].id = rs[1].id
        PROVE  Precedes(rs, 1, k + 1)
    BY <1>1, <2>1, <2>2 DEF Precedes
  <2>3. ASSUME NEW k \in DOMAIN t, FirstOf(t, k), t[k].id # rs[1].id
        PROVE  FirstOf(rs, k + 1)
    <3>1. ASSUME NEW j \in DOMAIN rs, j < k + 1  PROVE rs[j].id # rs[k + 1].id
      <4>1. j = 1 \/ 1 < j
        BY <1>1
      <4> QED BY <1>1, <2>1, <2>3, <3>1, <4>1
    <3> QED BY <3>1 DEF FirstOf
  <2> QED BY <2>2, <2>3
<1>6. FillsOnly(t)
  BY <1>1, SMTT(30) DEF Account, FillsOnly
<1>7. FirstContinues(os2, t)
  <2>1. ASSUME NEW k \in DOMAIN t, t[k].id \in DOMAIN os, FirstOf(t, k)
        PROVE  Continues(os2[t[k].id].filledQty, os2[t[k].id].remainingQty, t[k])
    <3>1. CASE t[k].id = rs[1].id
      <4>1. Continues(rs[1].cum, rs[1].leaves, rs[k + 1])
        BY <1>1, <1>5, <2>1, <3>1 DEF Account, OthersContinue
      <4> QED BY <1>1, <1>3, <2>1, <3>1, <4>1
    <3>2. CASE t[k].id # rs[1].id
      <4>1. FirstOf(rs, k + 1) /\ os2[t[k].id] = os[t[k].id]
        BY <1>2, <1>5, <2>1, <3>2
      <4> QED BY <1>1, <2>1, <4>1 DEF Account, FirstContinues
    <3> QED BY <3>1, <3>2
  <2> QED BY <1>2, <2>1 DEF FirstContinues
<1>8. OthersContinue(os2, t)
  <2>1. ASSUME NEW j \in DOMAIN t, NEW k \in DOMAIN t, t[k].id \in DOMAIN os, Precedes(t, j, k)
        PROVE  Continues(t[j].cum, t[j].leaves, t[k])
    <3>1. ASSUME NEW i \in DOMAIN rs, j + 1 < i, i < k + 1  PROVE rs[i].id # rs[k + 1].id
      <4>1. i - 1 \in DOMAIN t /\ t[i - 1] = rs[i] /\ j < i - 1 /\ i - 1 < k
        <5>1. i \in Nat /\ j \in Nat /\ k \in Nat /\ 1 < j + 1
          BY <1>1
        <5>2. 1 < i
          BY <3>1, <5>1
        <5>3. i - 1 \in DOMAIN t /\ t[i - 1] = rs[i]
          BY <1>1, <5>2
        <5>4. i - 1 < k /\ j < i - 1
          BY <3>1, <5>1
        <5> QED BY <5>3, <5>4
      <4> QED BY <1>1, <2>1, <4>1 DEF Precedes
    <3>2. j + 1 < k + 1 /\ rs[j + 1].id = rs[k + 1].id
      <4>1. j < k /\ t[j].id = t[k].id
        BY <2>1 DEF Precedes
      <4>2. j \in Nat /\ k \in Nat /\ t[j] = rs[j + 1] /\ t[k] = rs[k + 1]
        BY <1>1
      <4> QED BY <4>1, <4>2
    <3>3. Precedes(rs, j + 1, k + 1)
      BY <3>1, <3>2 DEF Precedes
    <3>4. /\ j + 1 \in DOMAIN rs /\ k + 1 \in DOMAIN rs
          /\ t[j] = rs[j + 1] /\ t[k] = rs[k + 1]
      BY <1>1
    <3> QED BY <2>1, <3>3, <3>4 DEF Account, OthersContinue
  <2> QED BY <1>2, <2>1 DEF OthersContinue
<1>9. LastAgrees(os2, t, live)
  BY <1>1, <1>2, <1>4, SMTT(30) DEF Account, LastAgrees
<1>10. NothingToTell(os2, t, live)
  <2>1. ASSUME NEW id \in DOMAIN os \cap DOMAIN live, \A k \in DOMAIN t : t[k].id # id
        PROVE  live[id].cum = os2[id].filledQty /\ live[id].leaves = os2[id].remainingQty
    <3>1. ASSUME NEW j \in DOMAIN rs, 1 < j  PROVE rs[j].id # id
      BY <1>1, <2>1, <3>1
    <3>2. CASE id = rs[1].id
      <4>1. LastOf(rs, 1)
        BY <3>1, <3>2 DEF LastOf
      <4> QED BY <1>1, <1>3, <3>2, <4>1 DEF Account, LastAgrees
    <3>3. CASE id # rs[1].id
      <4>1. \A j \in DOMAIN rs : rs[j].id # id
        <5>1. \A j \in DOMAIN rs : j = 1 \/ 1 < j
          BY <1>1
        <5> QED BY <3>1, <3>3, <5>1
      <4> QED BY <1>2, <3>3, <4>1 DEF Account, NothingToTell
    <3> QED BY <3>2, <3>3
  <2> QED BY <1>2, <2>1 DEF NothingToTell
<1>11. AnsweredFirst(os2, pending2, t, live)
  <2>1. ASSUME NEW k \in DOMAIN t, t[k].id \in pending2, FirstOf(t, k)
        PROVE  t[k].execType # "PartiallyFilled"
    <3>1. FirstOf(rs, k + 1) /\ t[k] = rs[k + 1] /\ k + 1 \in DOMAIN rs
      BY <1>1, <1>5, <2>1
    <3> QED BY <2>1, <3>1 DEF Account, AnsweredFirst
  <2>2. ASSUME NEW id \in pending2 \cap DOMAIN live
        PROVE  \E k \in DOMAIN t : t[k].id = id
    <3>1. PICK k \in DOMAIN rs : rs[k].id = id
      BY DEF Account, AnsweredFirst
    <3>2. k # 1
      BY <3>1
    <3>3. 1 < k
      BY <1>1, <3>2
    <3> QED BY <1>1, <3>1, <3>3
  <2> QED BY <2>1, <2>2 DEF AnsweredFirst
<1> QED BY <1>6, <1>7, <1>8, <1>9, <1>10, <1>11 DEF Account, t

-----------------------------------------------------------------------------
(* The tables stay in balance. *)

(* The terms of the sums. *)
LEMMA Terms ==
  ASSUME TypeOK
  PROVE  /\ \A s : IsFiniteSet(Of(s)) /\ Of(s) \subseteq DOMAIN orders
         /\ \A id \in DOMAIN orders :
              /\ SignedFilled[id] = Signed(orders[id].side, orders[id].filledQty)
              /\ SignedReserved[id] = Signed(orders[id].side, Reserved(id))
              /\ SignedFilled[id] \in Int /\ SignedReserved[id] \in Int
              /\ Reserved(id) \in Int
<1>1. IsFiniteSet(DOMAIN orders) /\ \A id \in DOMAIN orders : orders[id] \in Order
  BY Tables
<1>2. ASSUME NEW s
      PROVE  IsFiniteSet(Of(s)) /\ Of(s) \subseteq DOMAIN orders
  <2>1. Of(s) \subseteq DOMAIN orders
    BY DEF Of
  <2> QED BY <1>1, <2>1, FS_Subset
<1>3. ASSUME NEW id \in DOMAIN orders
      PROVE  /\ SignedFilled[id] = Signed(orders[id].side, orders[id].filledQty)
             /\ SignedReserved[id] = Signed(orders[id].side, Reserved(id))
             /\ SignedFilled[id] \in Int /\ SignedReserved[id] \in Int
             /\ Reserved(id) \in Int
  <2>1. orders[id].filledQty \in Nat /\ orders[id].remainingQty \in Nat /\ orders[id].orderQty \in Nat
    BY <1>1 DEF Order
  <2>2. Reserved(id) \in Int
    BY <2>1 DEF Reserved, Unstated
  <2> QED BY <2>1, <2>2 DEF SignedFilled, SignedReserved, Signed
<1> QED BY <1>2, <1>3

(* With all orders of a symbol on one side, position and pending position  *)
(* have that side's sign.                                                  *)
Signs ==
  \A s \in Symbols :
    /\ (\A id \in Of(s) : orders[id].side = "Buy") =>
         positions[s] \in Nat /\ pendingPositions[s] \in Nat
    /\ (\A id \in Of(s) : orders[id].side = "Sell") =>
         /\ positions[s] \in Int /\ positions[s] <= 0
         /\ pendingPositions[s] \in Int /\ pendingPositions[s] <= 0

Summed == TypeOK /\ PositionIsFilledQuantity /\ ReservationsAccounted

LEMMA SignsHold == Summed => Signs
<1> SUFFICES ASSUME Summed, NEW s \in Symbols
             PROVE  /\ (\A id \in Of(s) : orders[id].side = "Buy") =>
                         positions[s] \in Nat /\ pendingPositions[s] \in Nat
                    /\ (\A id \in Of(s) : orders[id].side = "Sell") =>
                         /\ positions[s] \in Int /\ positions[s] <= 0
                         /\ pendingPositions[s] \in Int /\ pendingPositions[s] <= 0
  BY DEF Signs
<1>1. /\ positions[s] = SumFunctionOnSet(SignedFilled, Of(s))
      /\ pendingPositions[s] = SumFunctionOnSet(SignedReserved, Of(s))
  BY DEF Summed, PositionIsFilledQuantity, ReservationsAccounted
<1>2. /\ IsFiniteSet(Of(s)) /\ Of(s) \subseteq DOMAIN orders
      /\ \A id \in DOMAIN orders :
           /\ SignedFilled[id] = Signed(orders[id].side, orders[id].filledQty)
           /\ SignedReserved[id] = Signed(orders[id].side, Reserved(id))
           /\ Reserved(id) \in Int
  BY Terms DEF Summed
<1>3. \A id \in DOMAIN orders : orders[id].filledQty \in Nat /\ Reserved(id) \in Nat
  <2>1. \A id \in DOMAIN orders : orders[id].filledQty \in Nat /\ orders[id].remainingQty \in Nat
    BY Tables DEF Summed, Order
  <2>2. \A id \in DOMAIN orders : Unstated(id) >= 0
    BY DEF Summed, ReservationsAccounted
  <2>3. \A id \in DOMAIN orders : Reserved(id) \in Int /\ Reserved(id) >= 0
    BY <1>2, <2>1, <2>2 DEF Reserved
  <2> QED BY <2>1, <2>3
<1>4. ASSUME \A id \in Of(s) : orders[id].side = "Buy"
      PROVE  positions[s] \in Nat /\ pendingPositions[s] \in Nat
  <2>1. \A id \in Of(s) : SignedFilled[id] \in Nat /\ SignedReserved[id] \in Nat
    BY <1>2, <1>3, <1>4 DEF Signed
  <2> QED BY <1>1, <1>2, <2>1, SumSign
<1>5. ASSUME \A id \in Of(s) : orders[id].side = "Sell"
      PROVE  /\ positions[s] \in Int /\ positions[s] <= 0
             /\ pendingPositions[s] \in Int /\ pendingPositions[s] <= 0
  <2>1. \A id \in Of(s) :
          /\ SignedFilled[id] \in Int /\ SignedFilled[id] <= 0
          /\ SignedReserved[id] \in Int /\ SignedReserved[id] <= 0
    BY <1>2, <1>3, <1>5 DEF Signed
  <2> QED BY <1>1, <1>2, <2>1, SumSign
<1> QED BY <1>4, <1>5

(* The same of the next state. *)
LEMMA SignsHoldNext == Summed' => Signs'
BY SignsHold, PTL

(* Nothing, on either side. *)
LEMMA SignedZero ==
  ASSUME NEW side
  PROVE  Signed(side, 0) = 0
<1>1. (\A z \in Int : -z = 0 - z) /\ 0 \in Int /\ 0 - 0 = 0
  OBVIOUS
<1>2. -0 = 0
  BY <1>1, Zenon
<1> QED BY <1>2, Zenon DEF Signed

(* A new order reserves its quantity, within the limit. *)
LEMMA BalancedSubmit ==
  ASSUME EnableRiskChecks, LifeInv, Balanced, NEW r \in Requests, Accepts(r),
         orders' = [id \in DOMAIN orders \cup {nextOrderId} |->
                      IF id = nextOrderId THEN NewOrder(r) ELSE orders[id]],
         pendingOrders' = pendingOrders \cup {nextOrderId},
         pendingPositions' = [pendingPositions EXCEPT ![r.symbol] = @ + Signed(r.side, r.quantity)],
         UNCHANGED positions
  PROVE  Balanced'
<1> DEFINE new == nextOrderId
<1>1. /\ r.quantity \in Nat \ {0} /\ r.symbol \in Symbols
      /\ DOMAIN orders' = DOMAIN orders \cup {new}
      /\ new \notin DOMAIN orders
      /\ \A id \in DOMAIN orders : orders'[id] = orders[id]
      /\ orders'[new] = NewOrder(r)
      /\ OpenOrders' = OpenOrders \cup {new}
      /\ r.side \in Sides
  BY Entered
<1>2. /\ \A s : IsFiniteSet(Of(s)) /\ Of(s) \subseteq DOMAIN orders
      /\ \A id \in DOMAIN orders : SignedFilled[id] \in Int /\ SignedReserved[id] \in Int
  BY Terms DEF LifeInv
<1>3. positions \in [Symbols -> Int] /\ pendingPositions \in [Symbols -> Int]
  BY Tables DEF LifeInv
<1>4. Signed(r.side, r.quantity) \in Int
  BY <1>1 DEF Signed
<1> HIDE DEF new
<1>5. /\ orders'[new].symbol = r.symbol /\ orders'[new].side = r.side
      /\ orders'[new].filledQty = 0 /\ orders'[new].remainingQty = r.quantity
      /\ orders'[new].orderQty = r.quantity
      /\ orders'[new].status = "PendingNew"
  BY <1>1 DEF NewOrder
<1>6. /\ \A id \in DOMAIN orders :
           SignedFilled'[id] = SignedFilled[id] /\ SignedReserved'[id] = SignedReserved[id]
      /\ SignedFilled'[new] = 0 /\ SignedReserved'[new] = Signed(r.side, r.quantity)
  <2>1. Signed(r.side, 0) = 0
    BY SignedZero
  <2>2. \A id \in DOMAIN orders : id # new /\ (id \in OpenOrders' <=> id \in OpenOrders)
    BY <1>1
  <2>3. \A id \in DOMAIN orders :
          SignedFilled'[id] = SignedFilled[id] /\ SignedReserved'[id] = SignedReserved[id]
    BY <1>1, <2>2 DEF SignedFilled, SignedReserved, Reserved, Unstated
  <2>4. SignedFilled'[new] = 0 /\ SignedReserved'[new] = Signed(r.side, r.quantity)
    BY <1>1, <1>5, <2>1 DEF SignedFilled, SignedReserved, Reserved
  <2> QED BY <2>3, <2>4
<1>7. \A s : Of(s)' = IF s = r.symbol THEN Of(s) \cup {new} ELSE Of(s)
  BY <1>1, <1>5 DEF Of
<1>8. pendingPositions' = [pendingPositions EXCEPT ![r.symbol] = @ + Signed(r.side, r.quantity)]
  OBVIOUS
<1>9. PositionIsFilledQuantity'
  <2>1. ASSUME NEW s \in Symbols
        PROVE  positions[s] = SumFunctionOnSet(SignedFilled', Of(s)')
    <3>1. positions[s] = SumFunctionOnSet(SignedFilled, Of(s))
      BY DEF Balanced, PositionIsFilledQuantity
    <3>2. CASE s = r.symbol
      <4>1. IsFiniteSet(Of(s)) /\ new \notin Of(s)
        BY <1>1, <1>2
      <4>2. SignedFilled'[new] = 0 /\ SignedFilled'[new] \in Int
        BY <1>6
      <4>3. \A x \in Of(s) : SignedFilled[x] \in Int /\ SignedFilled'[x] = SignedFilled[x]
        BY <1>2, <1>6
      <4>4. /\ SumFunctionOnSet(SignedFilled', Of(s) \cup {new}) =
                 SumFunctionOnSet(SignedFilled, Of(s)) + SignedFilled'[new]
            /\ SumFunctionOnSet(SignedFilled, Of(s)) \in Int
        BY <4>1, <4>2, <4>3, SumAdds, Zenon
      <4>5. SumFunctionOnSet(SignedFilled', Of(s) \cup {new}) = SumFunctionOnSet(SignedFilled, Of(s))
        BY <4>2, <4>4
      <4>6. Of(s)' = Of(s) \cup {new}
        BY <1>7, <3>2
      <4> QED BY <3>1, <4>5, <4>6
    <3>3. CASE s # r.symbol
      <4>1. \A x \in Of(s) : SignedFilled'[x] = SignedFilled[x]
        BY <1>2, <1>6
      <4>2. SumFunctionOnSet(SignedFilled', Of(s)) = SumFunctionOnSet(SignedFilled, Of(s))
        BY <1>2, <4>1, SumSame
      <4> QED BY <1>7, <3>1, <3>3, <4>2
    <3> QED BY <3>2, <3>3
  <2> QED BY <2>1 DEF PositionIsFilledQuantity
<1>10. ReservationsAccounted'
  <2>1. ASSUME NEW s \in Symbols
        PROVE  pendingPositions'[s] = SumFunctionOnSet(SignedReserved', Of(s)')
    <3>1. pendingPositions[s] = SumFunctionOnSet(SignedReserved, Of(s))
      BY DEF Balanced, ReservationsAccounted
    <3>2. CASE s = r.symbol
      <4>1. /\ IsFiniteSet(Of(s)) /\ new \notin Of(s)
            /\ \A x \in Of(s) : SignedReserved[x] \in Int /\ SignedReserved'[x] = SignedReserved[x]
            /\ SignedReserved'[new] \in Int
        BY <1>1, <1>2, <1>4, <1>6
      <4>2. /\ SumFunctionOnSet(SignedReserved', Of(s) \cup {new}) =
                 SumFunctionOnSet(SignedReserved, Of(s)) + SignedReserved'[new]
            /\ SumFunctionOnSet(SignedReserved, Of(s)) \in Int
        BY <4>1, SumAdds, Zenon
      <4>3. pendingPositions'[s] = pendingPositions[s] + Signed(r.side, r.quantity)
        BY <1>3, <1>8, <3>2
      <4>4. Of(s)' = Of(s) \cup {new}
        BY <1>7, <3>2
      <4> QED BY <1>6, <3>1, <4>2, <4>3, <4>4
    <3>3. CASE s # r.symbol
      <4>1. \A x \in Of(s) : SignedReserved'[x] = SignedReserved[x]
        BY <1>2, <1>6
      <4>2. SumFunctionOnSet(SignedReserved', Of(s)) = SumFunctionOnSet(SignedReserved, Of(s))
        BY <1>2, <4>1, SumSame
      <4>3. pendingPositions'[s] = pendingPositions[s]
        BY <1>3, <1>8, <3>3
      <4> QED BY <1>7, <3>1, <3>3, <4>2, <4>3
    <3> QED BY <3>2, <3>3
  <2>2. ASSUME NEW id \in DOMAIN orders'
        PROVE  Unstated(id)' >= 0 /\ (id \in OpenOrders' => Unstated(id)' = 0)
    <3>1. CASE id = new
      BY <1>1, <1>5, <3>1 DEF Unstated
    <3>2. CASE id # new
      <4>1. id \in DOMAIN orders /\ orders'[id] = orders[id] /\ (id \in OpenOrders' => id \in OpenOrders)
        BY <1>1, <3>2
      <4> QED BY <4>1 DEF Balanced, ReservationsAccounted, Unstated
    <3> QED BY <3>1, <3>2
  <2> QED BY <2>1, <2>2 DEF ReservationsAccounted
<1>11. PendingAwaitAck'
  <2>1. pendingOrders \subseteq DOMAIN orders /\ pendingOrders' = pendingOrders \cup {new}
    BY Tables DEF LifeInv, new
  <2>2. \A id \in pendingOrders' :
          orders'[id].status \in {"PendingNew", "PendingCancel"} /\ orders'[id].filledQty = 0
    BY <1>1, <1>5, <2>1 DEF Balanced, PendingAwaitAck
  <2>3. \A id \in DOMAIN orders' : orders'[id].status = "PendingNew" => id \in pendingOrders'
    BY <1>1, <1>5, <2>1 DEF Balanced, PendingAwaitAck
  <2> QED BY <2>2, <2>3 DEF PendingAwaitAck
<1>12. ExposureBounded'
  <2>1. ASSUME NEW s \in Symbols, OneSided(s)'
        PROVE  Magnitude(positions'[s] + pendingPositions'[s]) <= MaxPositionPerSymbol
    <3>1. CASE s = r.symbol
      <4>1. ~(Magnitude(positions[s] + pendingPositions[s] + Signed(r.side, r.quantity))
                > MaxPositionPerSymbol)
        BY <3>1 DEF Accepts, PassesRiskChecks, WouldExceedPositionLimit
      <4>2. pendingPositions'[s] = pendingPositions[s] + Signed(r.side, r.quantity)
        BY <1>3, <1>8, <3>1
      <4>3. positions[s] \in Int /\ pendingPositions[s] \in Int
        BY <1>3
      <4>4. positions'[s] + pendingPositions'[s] =
              positions[s] + pendingPositions[s] + Signed(r.side, r.quantity)
        BY <1>4, <4>2, <4>3
      <4> QED BY <1>4, <4>1, <4>3, <4>4, GatewayAssumption DEF Magnitude
    <3>2. CASE s # r.symbol
      <4>1. OneSided(s)
        BY <1>1, <1>2, <1>7, <2>1, <3>2 DEF OneSided
      <4>2. pendingPositions'[s] = pendingPositions[s]
        BY <1>3, <1>8, <3>2
      <4> QED BY <4>1, <4>2 DEF Balanced, ExposureBounded
    <3> QED BY <3>1, <3>2
  <2> QED BY <2>1 DEF ExposureBounded
<1> QED BY <1>9, <1>10, <1>11, <1>12 DEF Balanced

(* Marking orders leaves the balance alone. *)
LEMMA BalancedMarks ==
  ASSUME TypeOK, Balanced, Marks(orders', orders), OpenOrders' = OpenOrders,
         \A id \in DOMAIN orders : orders'[id].status = "PendingNew" => orders'[id] = orders[id],
         UNCHANGED <<pendingOrders, positions, pendingPositions>>
  PROVE  Balanced'
<1>1. /\ DOMAIN orders' = DOMAIN orders
      /\ \A id \in DOMAIN orders :
           /\ orders'[id].symbol = orders[id].symbol /\ orders'[id].side = orders[id].side
           /\ orders'[id].orderQty = orders[id].orderQty
           /\ orders'[id].filledQty = orders[id].filledQty
           /\ orders'[id].remainingQty = orders[id].remainingQty
           /\ orders'[id].status = orders[id].status \/ orders'[id].status = "PendingCancel"
  BY DEF Marks
<1>2. SignedFilled' = SignedFilled /\ SignedReserved' = SignedReserved
  BY <1>1 DEF SignedFilled, SignedReserved, Reserved, Unstated
<1>3. \A s : Of(s)' = Of(s)
  BY <1>1 DEF Of
<1>4. PositionIsFilledQuantity' /\ ReservationsAccounted'
  <2>1. \A id \in DOMAIN orders : Unstated(id)' = Unstated(id)
    BY <1>1 DEF Unstated
  <2> QED BY <1>1, <1>2, <1>3, <2>1 DEF Balanced, PositionIsFilledQuantity, ReservationsAccounted
<1>5. PendingAwaitAck'
  <2>1. pendingOrders \subseteq DOMAIN orders
    BY Tables
  <2> QED BY <1>1, <2>1 DEF Balanced, PendingAwaitAck
<1>6. \A s : OneSided(s)' => OneSided(s)
  <2>1. \A s : Of(s) \subseteq DOMAIN orders
    BY DEF Of
  <2> QED BY <1>1, <1>3, <2>1 DEF OneSided
<1>7. ExposureBounded'
  BY <1>6 DEF Balanced, ExposureBounded
<1> QED BY <1>4, <1>5, <1>7 DEF Balanced

(* What a report that continues the account moves. *)
LEMMA Amounts ==
  ASSUME NEW o \in Order, NEW r \in ExecutionReport,
         Continues(o.filledQty, o.remainingQty, r),
         r.execType \notin {"PartiallyFilled", "Filled"} => r.last = 0,
         r.execType = "Filled" => r.leaves = 0
  PROVE  /\ Filled(r) = r.last
         /\ StatusOf(r.execType) \in Terminal => Released(r) = r.last + r.leaves
         /\ StatusOf(r.execType) \notin Terminal =>
              Released(r) = r.last /\ r.leaves = o.remainingQty - r.last
         /\ Filled(r) <= Released(r) /\ Released(r) <= o.remainingQty
         /\ r.last \in Nat /\ r.cum \in Nat /\ r.leaves \in Nat
         /\ o.filledQty \in Nat /\ o.remainingQty \in Nat /\ o.side \in Sides
         /\ r.cum = o.filledQty + r.last
<1>1. /\ r.last \in Nat /\ r.cum \in Nat /\ r.leaves \in Nat /\ r.execType \in ExecTypes
      /\ o.filledQty \in Nat /\ o.remainingQty \in Nat /\ o.side \in Sides
      /\ r.cum = o.filledQty + r.last /\ r.last <= o.remainingQty
      /\ \/ r.leaves = o.remainingQty - r.last
         \/ r.execType \in {"Canceled", "Rejected"} /\ r.leaves = 0
  BY DEF ExecutionReport, Order, Continues
<1>2. Filled(r) = r.last
  BY DEF Filled, StatusOf
<1>3. StatusOf(r.execType) \in Terminal => Released(r) = r.last + r.leaves
  <2>1. CASE r.execType = "Filled"
    <3>1. Released(r) = r.last
      BY <2>1 DEF Released, Filled, StatusOf
    <3> QED BY <1>1, <2>1, <3>1
  <2>2. CASE r.execType \in {"Canceled", "Rejected"}
    <3>1. Released(r) = r.leaves
      BY <2>2 DEF Released, StatusOf
    <3> QED BY <1>1, <2>2, <3>1
  <2> QED BY <2>1, <2>2 DEF StatusOf, Terminal
<1>4. StatusOf(r.execType) \notin Terminal =>
        Released(r) = r.last /\ r.leaves = o.remainingQty - r.last
  <2>1. StatusOf(r.execType) \notin Terminal =>
          Released(r) = r.last /\ r.execType \notin {"Canceled", "Rejected"}
    BY <1>2 DEF Released, StatusOf, Terminal
  <2> QED BY <1>1, <2>1
<1>5. r.last + r.leaves <= o.remainingQty /\ r.last <= r.last + r.leaves
  BY <1>1
<1>6. Filled(r) <= Released(r) /\ Released(r) <= o.remainingQty
  BY <1>1, <1>2, <1>3, <1>4, <1>5
<1> QED BY <1>1, <1>2, <1>3, <1>4, <1>6

(* The same, signed. *)
LEMMA SignedAmounts ==
  ASSUME NEW side \in Sides, NEW a \in Nat, NEW b \in Nat
  PROVE  /\ Signed(side, a) \in Int
         /\ Signed(side, a + b) = Signed(side, a) + Signed(side, b)
         /\ side = "Buy" => Signed(side, a) = a
         /\ side = "Sell" => Signed(side, a) = -a
BY DEF Signed, Sides

(* What the next report says of an order of the tables. *)
LEMMA NextReport ==
  ASSUME LifeInv, AccountInv, OnExecutionReport, reports[1].id \in DOMAIN orders
  PROVE  LET r == reports[1]
             o == orders[r.id]
         IN  /\ r \in ExecutionReport /\ o \in Order /\ o.symbol \in Symbols
             /\ o.status \notin Terminal
             /\ Continues(o.filledQty, o.remainingQty, r)
             /\ r.execType \notin {"PartiallyFilled", "Filled"} => r.last = 0
             /\ r.execType = "Filled" => r.leaves = 0
             /\ r.id \notin PendingAfter(r)
<1> DEFINE r == reports[1]
           o == orders[r.id]
<1>1. reports \in Seq(ExecutionReport) /\ reports # <<>> /\ TypeOK
  BY DEF LifeInv, WireOK, OnExecutionReport
<1>2. /\ 1 \in DOMAIN reports /\ r \in ExecutionReport
      /\ \A j \in DOMAIN reports : ~(j < 1)
  BY <1>1
<1>3. FirstOf(reports, 1)
  BY <1>2 DEF FirstOf
<1>4. Continues(o.filledQty, o.remainingQty, r)
  BY <1>2, <1>3 DEF AccountInv, Account, FirstContinues
<1>5. /\ r.execType \notin {"PartiallyFilled", "Filled"} => r.last = 0
      /\ r.execType = "Filled" => r.leaves = 0
  BY <1>2 DEF AccountInv, Account, FillsOnly
<1>6. r.id \notin PendingAfter(r)
  <2>1. r.id \in pendingOrders => r.execType # "PartiallyFilled"
    BY <1>2, <1>3 DEF AccountInv, Account, AnsweredFirst
  <2>2. StatusOf(r.execType) = "PartiallyFilled" => r.execType = "PartiallyFilled"
    BY DEF StatusOf
  <2> QED BY <2>1, <2>2 DEF PendingAfter
<1>7. o.status \notin Terminal
  BY <1>2 DEF LifeInv, Life, ReportsOpen
<1>8. o \in Order /\ o.symbol \in Symbols
  BY <1>1, Tables DEF Order
<1> QED BY <1>2, <1>4, <1>5, <1>6, <1>7, <1>8

(* The next report is booked on its order, its position and its pending    *)
(* position alike.                                                         *)
LEMMA BalancedBooks ==
  ASSUME LifeInv, AccountInv, OnExecutionReport, UNCHANGED <<resting, traded>>,
         reports[1].id \in DOMAIN orders
  PROVE  Balanced' /\ reports[1].id \notin pendingOrders'
<1> DEFINE r == reports[1]
           a == r.id
           o == orders[a]
           y == o.symbol
<1>1. TypeOK /\ WireOK /\ Balanced
  BY DEF LifeInv, AccountInv
<1>2. /\ r \in ExecutionReport /\ o \in Order /\ y \in Symbols /\ a \in DOMAIN orders
      /\ o.status \notin Terminal
      /\ Continues(o.filledQty, o.remainingQty, r)
      /\ r.execType \notin {"PartiallyFilled", "Filled"} => r.last = 0
      /\ r.execType = "Filled" => r.leaves = 0
      /\ a \notin PendingAfter(r)
  BY NextReport
<1>3. /\ Books(orders', orders, r)
      /\ \A id \in DOMAIN orders : orders'[id] \in Order
      /\ pendingOrders' = PendingAfter(r)
      /\ positions' = [positions EXCEPT ![y] = @ + Signed(o.side, Filled(r))]
      /\ pendingPositions' = [pendingPositions EXCEPT ![y] = @ - Signed(o.side, Released(r))]
      /\ Filled(r) \in Nat /\ Released(r) \in Nat
  BY <1>1, Booked
<1>4. /\ Filled(r) = r.last
      /\ StatusOf(r.execType) \in Terminal => Released(r) = r.last + r.leaves
      /\ StatusOf(r.execType) \notin Terminal =>
           Released(r) = r.last /\ r.leaves = o.remainingQty - r.last
      /\ Filled(r) <= Released(r) /\ Released(r) <= o.remainingQty
      /\ r.last \in Nat /\ r.cum \in Nat /\ r.leaves \in Nat
      /\ o.filledQty \in Nat /\ o.remainingQty \in Nat /\ o.side \in Sides
      /\ r.cum = o.filledQty + r.last
  BY <1>2, Amounts
<1>5. /\ DOMAIN orders' = DOMAIN orders
      /\ \A id \in DOMAIN orders :
           /\ id # a => orders'[id] = orders[id]
           /\ orders'[id].symbol = orders[id].symbol /\ orders'[id].side = orders[id].side
      /\ orders'[a].status = StatusOf(r.execType) /\ orders'[a].orderQty = o.orderQty
      /\ orders'[a].filledQty = r.cum /\ orders'[a].remainingQty = r.leaves
  BY <1>2, <1>3 DEF Books
<1>6. /\ \A s : IsFiniteSet(Of(s)) /\ Of(s) \subseteq DOMAIN orders
      /\ \A id \in DOMAIN orders :
           /\ SignedFilled[id] = Signed(orders[id].side, orders[id].filledQty)
           /\ SignedReserved[id] = Signed(orders[id].side, Reserved(id))
           /\ SignedFilled[id] \in Int /\ SignedReserved[id] \in Int
  BY <1>1, Terms
<1>7. positions \in [Symbols -> Int] /\ pendingPositions \in [Symbols -> Int]
  BY <1>1, Tables
<1>8. a \in Of(y) /\ a \in OpenOrders /\ \A s : a \in Of(s) => s = y
  <2>1. o.status \in Active
    BY <1>2 DEF Order, Statuses
  <2> QED BY <1>2, <2>1 DEF Of, OpenOrders
<1>9. \A s : Of(s)' = Of(s)
  BY <1>5 DEF Of
<1>10. OpenOrders' = IF StatusOf(r.execType) \in Terminal THEN OpenOrders \ {a} ELSE OpenOrders
  <2>1. StatusOf(r.execType) \in Terminal <=> StatusOf(r.execType) \notin Active
    BY DEF StatusOf, Terminal, Active
  <2> QED BY <1>5, <1>8, <2>1 DEF OpenOrders
<1> DEFINE kept == o.remainingQty - Released(r)
<1>11. /\ kept \in Nat /\ o.remainingQty = kept + Released(r)
       /\ \A id \in DOMAIN orders :
            IF id = a
            THEN /\ Unstated(id)' >= 0 /\ (id \in OpenOrders' => Unstated(id)' = 0)
                 /\ Reserved(id) = o.remainingQty /\ Reserved(id)' = kept
            ELSE /\ id \in OpenOrders' <=> id \in OpenOrders
                 /\ Unstated(id)' = Unstated(id)
  <2>1. ASSUME NEW id \in DOMAIN orders, id # a
        PROVE  (id \in OpenOrders' <=> id \in OpenOrders) /\ Unstated(id)' = Unstated(id)
    BY <1>5, <1>10, <2>1 DEF Unstated
  <2>2. kept \in Nat /\ o.remainingQty = kept + Released(r)
    BY <1>3, <1>4
  <2>3. ASSUME NEW id \in DOMAIN orders, id = a
        PROVE  /\ Unstated(id)' >= 0 /\ (id \in OpenOrders' => Unstated(id)' = 0)
               /\ Reserved(id) = o.remainingQty /\ Reserved(id)' = kept
    <3>1. o.orderQty \in Nat /\ o.orderQty - o.filledQty - o.remainingQty = 0
      <4>1. Unstated(id) = 0
        BY <1>1, <1>8, <2>3 DEF Balanced, ReservationsAccounted
      <4> QED BY <1>2, <2>3, <4>1 DEF Unstated, Order
    <3>2. Unstated(id)' = o.orderQty - r.cum - r.leaves
      BY <1>5, <2>3 DEF Unstated
    <3>3. Unstated(id)' = o.remainingQty - r.last - r.leaves
      BY <1>4, <3>1, <3>2
    <3>4. Reserved(id) = o.remainingQty
      BY <1>8, <2>3 DEF Reserved
    <3>5. CASE StatusOf(r.execType) \in Terminal
      <4>1. id \notin OpenOrders'
        BY <1>10, <2>3, <3>5
      <4>2. Reserved(id)' = Unstated(id)'
        BY <4>1 DEF Reserved
      <4>3. Unstated(id)' = kept
        BY <1>4, <3>3, <3>5
      <4> QED BY <2>2, <3>4, <4>1, <4>2, <4>3
    <3>6. CASE StatusOf(r.execType) \notin Terminal
      <4>1. id \in OpenOrders'
        BY <1>8, <1>10, <2>3, <3>6
      <4>2. Reserved(id)' = orders'[id].remainingQty
        BY <4>1 DEF Reserved
      <4>3. Unstated(id)' = 0 /\ r.leaves = kept
        BY <1>4, <3>3, <3>6
      <4>4. orders'[id].remainingQty = r.leaves
        BY <1>5, <2>3
      <4> QED BY <2>2, <3>4, <4>2, <4>3, <4>4
    <3> QED BY <3>5, <3>6
  <2> HIDE DEF kept
  <2> QED BY <2>1, <2>2, <2>3
<1>12. /\ \A id \in DOMAIN orders : id # a =>
            SignedFilled'[id] = SignedFilled[id] /\ SignedReserved'[id] = SignedReserved[id]
       /\ SignedFilled'[a] = Signed(o.side, r.cum) /\ SignedReserved'[a] = Signed(o.side, kept)
       /\ SignedFilled[a] = Signed(o.side, o.filledQty)
       /\ SignedReserved[a] = Signed(o.side, o.remainingQty)
  <2>1. /\ \A id \in DOMAIN orders : id # a => SignedFilled'[id] = SignedFilled[id]
        /\ SignedFilled'[a] = Signed(o.side, r.cum)
        /\ SignedFilled[a] = Signed(o.side, o.filledQty)
    BY <1>2, <1>5, <1>6 DEF SignedFilled
  <2>2. \A id \in DOMAIN orders : SignedReserved'[id] = Signed(orders'[id].side, Reserved(id)')
    BY <1>5 DEF SignedReserved
  <2>3. \A id \in DOMAIN orders : id # a => orders'[id] = orders[id] /\ Reserved(id)' = Reserved(id)
    BY <1>5, <1>11 DEF Reserved
  <2>4. orders'[a].side = o.side
    BY <1>2, <1>5
  <2> HIDE DEF kept
  <2>5. SignedReserved'[a] = Signed(o.side, kept) /\ SignedReserved[a] = Signed(o.side, o.remainingQty)
    BY <1>2, <1>6, <1>11, <2>2, <2>4
  <2>6. \A id \in DOMAIN orders : id # a => SignedReserved'[id] = SignedReserved[id]
    BY <1>6, <2>2, <2>3
  <2> QED BY <2>1, <2>5, <2>6
<1> HIDE DEF r, a, o, y, kept
<1>13. /\ Signed(o.side, r.cum) = Signed(o.side, o.filledQty) + Signed(o.side, r.last)
       /\ Signed(o.side, o.remainingQty) = Signed(o.side, kept) + Signed(o.side, Released(r))
       /\ Signed(o.side, r.cum) \in Int /\ Signed(o.side, o.filledQty) \in Int
       /\ Signed(o.side, r.last) \in Int /\ Signed(o.side, kept) \in Int
       /\ Signed(o.side, Released(r)) \in Int /\ Signed(o.side, o.remainingQty) \in Int
  <2>1. r.cum = o.filledQty + r.last /\ o.remainingQty = kept + Released(r)
    BY <1>4, <1>11
  <2>2. \A m, n \in Nat : Signed(o.side, m + n) = Signed(o.side, m) + Signed(o.side, n)
    BY <1>4, SignedAmounts
  <2>3. \A m \in Nat : Signed(o.side, m) \in Int
    BY <1>4, SignedAmounts
  <2>4. /\ r.last \in Nat /\ r.cum \in Nat /\ o.filledQty \in Nat /\ o.remainingQty \in Nat
        /\ kept \in Nat /\ Released(r) \in Nat
    BY <1>3, <1>4, <1>11
  <2> QED BY <2>1, <2>2, <2>3, <2>4
<1>14. PositionIsFilledQuantity'
  <2>1. ASSUME NEW s \in Symbols
        PROVE  positions'[s] = SumFunctionOnSet(SignedFilled', Of(s)')
    <3>1. positions[s] = SumFunctionOnSet(SignedFilled, Of(s))
      BY <1>1 DEF Balanced, PositionIsFilledQuantity
    <3>2. CASE s = y
      <4>1. SignedFilled'[a] \in Int /\ SignedFilled[a] \in Int /\ IsFiniteSet(Of(s)) /\ a \in Of(s)
        BY <1>6, <1>8, <1>12, <1>13, <3>2
      <4>2. \A x \in Of(s) : SignedFilled[x] \in Int /\ (x # a => SignedFilled'[x] = SignedFilled[x])
        BY <1>6, <1>12
      <4>3. /\ SumFunctionOnSet(SignedFilled', Of(s) \ {a}) =
                 SumFunctionOnSet(SignedFilled, Of(s)) - SignedFilled[a]
            /\ SumFunctionOnSet(SignedFilled', Of(s)) =
                 SumFunctionOnSet(SignedFilled, Of(s)) - SignedFilled[a] + SignedFilled'[a]
            /\ SumFunctionOnSet(SignedFilled, Of(s)) \in Int
        <5>1. ChangesAt(SignedFilled, SignedFilled', Of(s), a)
          BY <4>1, <4>2, Zenon DEF ChangesAt
        <5> QED BY <5>1, SumMoves, Zenon
      <4>4. positions'[s] = positions[s] + Signed(o.side, r.last)
        BY <1>3, <1>4, <1>7, <3>2
      <4>5. SignedFilled'[a] = SignedFilled[a] + Signed(o.side, r.last)
        BY <1>12, <1>13
      <4>6. SumFunctionOnSet(SignedFilled', Of(s)) =
              SumFunctionOnSet(SignedFilled, Of(s)) + Signed(o.side, r.last)
        BY <1>13, <4>1, <4>3, <4>5
      <4> QED BY <1>9, <3>1, <4>4, <4>6
    <3>3. CASE s # y
      <4>1. \A x \in Of(s) : SignedFilled'[x] = SignedFilled[x]
        BY <1>6, <1>8, <1>12, <3>3
      <4>2. SumFunctionOnSet(SignedFilled', Of(s)) = SumFunctionOnSet(SignedFilled, Of(s))
        BY <1>6, <4>1, SumSame
      <4>3. positions'[s] = positions[s]
        BY <1>3, <1>7, <3>3
      <4> QED BY <1>9, <3>1, <4>2, <4>3
    <3> QED BY <3>2, <3>3
  <2> QED BY <2>1 DEF PositionIsFilledQuantity
<1>15. ReservationsAccounted'
  <2>1. ASSUME NEW s \in Symbols
        PROVE  pendingPositions'[s] = SumFunctionOnSet(SignedReserved', Of(s)')
    <3>1. pendingPositions[s] = SumFunctionOnSet(SignedReserved, Of(s))
      BY <1>1 DEF Balanced, ReservationsAccounted
    <3>2. CASE s = y
      <4>1. SignedReserved'[a] \in Int /\ SignedReserved[a] \in Int /\ IsFiniteSet(Of(s)) /\ a \in Of(s)
        BY <1>6, <1>8, <1>12, <1>13, <3>2
      <4>2. \A x \in Of(s) : SignedReserved[x] \in Int /\ (x # a => SignedReserved'[x] = SignedReserved[x])
        BY <1>6, <1>12
      <4>3. /\ SumFunctionOnSet(SignedReserved', Of(s) \ {a}) =
                 SumFunctionOnSet(SignedReserved, Of(s)) - SignedReserved[a]
            /\ SumFunctionOnSet(SignedReserved', Of(s)) =
                 SumFunctionOnSet(SignedReserved, Of(s)) - SignedReserved[a] + SignedReserved'[a]
            /\ SumFunctionOnSet(SignedReserved, Of(s)) \in Int
        <5>1. ChangesAt(SignedReserved, SignedReserved', Of(s), a)
          BY <4>1, <4>2, Zenon DEF ChangesAt
        <5> QED BY <5>1, SumMoves, Zenon
      <4>4. pendingPositions'[s] = pendingPositions[s] - Signed(o.side, Released(r))
        BY <1>3, <1>7, <3>2
      <4>5. SignedReserved[a] = SignedReserved'[a] + Signed(o.side, Released(r))
        BY <1>12, <1>13
      <4>6. SumFunctionOnSet(SignedReserved', Of(s)) =
              SumFunctionOnSet(SignedReserved, Of(s)) - Signed(o.side, Released(r))
        BY <1>13, <4>1, <4>3, <4>5
      <4> QED BY <1>9, <3>1, <4>4, <4>6
    <3>3. CASE s # y
      <4>1. \A x \in Of(s) : SignedReserved'[x] = SignedReserved[x]
        BY <1>6, <1>8, <1>12, <3>3
      <4>2. SumFunctionOnSet(SignedReserved', Of(s)) = SumFunctionOnSet(SignedReserved, Of(s))
        BY <1>6, <4>1, SumSame
      <4>3. pendingPositions'[s] = pendingPositions[s]
        BY <1>3, <1>7, <3>3
      <4> QED BY <1>9, <3>1, <4>2, <4>3
    <3> QED BY <3>2, <3>3
  <2>2. ASSUME NEW id \in DOMAIN orders'
        PROVE  Unstated(id)' >= 0 /\ (id \in OpenOrders' => Unstated(id)' = 0)
    <3>1. id \in DOMAIN orders /\ Unstated(id) >= 0 /\ (id \in OpenOrders => Unstated(id) = 0)
      BY <1>1, <1>5 DEF Balanced, ReservationsAccounted
    <3> QED BY <1>11, <3>1
  <2> QED BY <2>1, <2>2 DEF ReservationsAccounted
<1>16. a \notin pendingOrders'
  BY <1>2, <1>3
<1>17. PendingAwaitAck'
  <2>1. pendingOrders' \subseteq pendingOrders /\ pendingOrders \ {a} \subseteq pendingOrders'
    BY <1>3 DEF PendingAfter, a
  <2>2. pendingOrders \subseteq DOMAIN orders
    BY <1>1, Tables
  <2>3. StatusOf(r.execType) # "PendingNew"
    BY DEF StatusOf
  <2>4. \A id \in pendingOrders' :
          orders'[id].status \in {"PendingNew", "PendingCancel"} /\ orders'[id].filledQty = 0
    BY <1>1, <1>5, <1>16, <2>1, <2>2 DEF Balanced, PendingAwaitAck
  <2>5. \A id \in DOMAIN orders' : orders'[id].status = "PendingNew" => id \in pendingOrders'
    BY <1>1, <1>5, <2>1, <2>3 DEF Balanced, PendingAwaitAck
  <2> QED BY <2>4, <2>5 DEF PendingAwaitAck
<1>18. TypeOK'
  <2>1. LifeInv'
    BY ReportStep
  <2> QED BY <2>1 DEF LifeInv
<1>19. Signs'
  BY <1>14, <1>15, <1>18, SignsHoldNext DEF Summed
<1>20. ExposureBounded'
  <2>1. ASSUME NEW s \in Symbols, OneSided(s)'
        PROVE  Magnitude(positions'[s] + pendingPositions'[s]) <= MaxPositionPerSymbol
    <3>1. PICK side \in Sides : \A id \in Of(s)' : orders'[id].side = side
      BY <2>1 DEF OneSided
    <3>2. \A id \in Of(s) : orders[id].side = side
      BY <1>5, <1>6, <1>9, <3>1
    <3>3. Magnitude(positions[s] + pendingPositions[s]) <= MaxPositionPerSymbol
      BY <1>1, <3>2 DEF Balanced, ExposureBounded, OneSided
    <3>4. positions[s] \in Int /\ pendingPositions[s] \in Int
      BY <1>7
    <3>5. CASE s # y
      <4>1. positions'[s] = positions[s] /\ pendingPositions'[s] = pendingPositions[s]
        BY <1>3, <1>7, <3>5
      <4> QED BY <3>3, <4>1
    <3>6. CASE s = y
      <4> DEFINE n == Filled(r)
                 m == Released(r)
      <4>1. n \in Nat /\ m \in Nat /\ n <= m
        BY <1>3, <1>4
      <4>2. /\ positions'[s] = positions[s] + Signed(o.side, n)
            /\ pendingPositions'[s] = pendingPositions[s] - Signed(o.side, m)
        BY <1>3, <1>7, <3>6
      <4>3. o.side = side
        BY <1>8, <3>2, <3>6 DEF o
      <4> HIDE DEF n, m
      <4>4. CASE side = "Buy"
        <5>1. Signed(o.side, n) = n /\ Signed(o.side, m) = m
          BY <4>3, <4>4 DEF Signed
        <5>2. positions'[s] \in Nat /\ pendingPositions'[s] \in Nat
          BY <1>19, <3>1, <4>4 DEF Signs
        <5> QED BY <3>3, <3>4, <4>1, <4>2, <5>1, <5>2, GatewayAssumption DEF Magnitude
      <4>5. CASE side = "Sell"
        <5>1. Signed(o.side, n) = -n /\ Signed(o.side, m) = -m
          BY <4>3, <4>5 DEF Signed
        <5>2. /\ positions'[s] \in Int /\ positions'[s] <= 0
              /\ pendingPositions'[s] \in Int /\ pendingPositions'[s] <= 0
          BY <1>19, <3>1, <4>5 DEF Signs
        <5> QED BY <3>3, <3>4, <4>1, <4>2, <5>1, <5>2, GatewayAssumption DEF Magnitude
      <4> QED BY <4>4, <4>5 DEF Sides
    <3> QED BY <3>5, <3>6
  <2> QED BY <2>1 DEF ExposureBounded
<1> QED BY <1>14, <1>15, <1>16, <1>17, <1>20 DEF Balanced, a, r

-----------------------------------------------------------------------------
(* AccountInv holds as long as there is room for the reports. *)

(* The balance is one of the tables alone. *)
LEMMA BalanceKept ==
  ASSUME LifeInv, Balanced, UNCHANGED tables
  PROVE  Balanced'
<1>1. Marks(orders', orders) /\ OpenOrders' = OpenOrders
  BY DEF Marks, OpenOrders, tables
<1>2. /\ \A id \in DOMAIN orders : orders'[id].status = "PendingNew" => orders'[id] = orders[id]
      /\ UNCHANGED <<pendingOrders, positions, pendingPositions>>
  BY DEF tables
<1> QED BY <1>1, <1>2, BalancedMarks DEF LifeInv

(* Nothing of the account moves. *)
LEMMA AccountKept ==
  ASSUME LifeInv, AccountInv, UNCHANGED <<tables, reports, resting>>
  PROVE  AccountInv'
<1>1. Balanced'
  BY BalanceKept DEF AccountInv
<1>2. Account(orders', pendingOrders', reports', resting')
  BY DEF AccountInv, tables
<1> QED BY <1>1, <1>2 DEF AccountInv

(* A live order is what the reports of it say. *)
LEMMA LiveStands ==
  ASSUME AccountInv, NEW id \in DOMAIN resting, id \in DOMAIN orders
  PROVE  Stands(id, resting[id].cum, resting[id].leaves, orders, reports)
BY DEF AccountInv, Account, LastAgrees, NothingToTell, Stands

(* The exchange reports something, and the report finds room. *)
LEMMA AccountTold ==
  ASSUME LifeInv, AccountInv, UNCHANGED tables,
         NEW r \in ExecutionReport, NEW cum, NEW leaves, reports' = Append(reports, r),
         Touches(resting', resting, r.id), Says(r, orders, resting'),
         r.id \in DOMAIN orders =>
           Stands(r.id, cum, leaves, orders, reports) /\ Continues(cum, leaves, r),
         r.execType = "PartiallyFilled" /\ r.id \in pendingOrders =>
           \E k \in DOMAIN reports : reports[k].id = r.id
  PROVE  AccountInv'
<1>1. Balanced'
  BY BalanceKept DEF AccountInv
<1>2. reports \in Seq(ExecutionReport) /\ Account(orders, pendingOrders, reports, resting)
  BY DEF LifeInv, WireOK, AccountInv
<1>3. Account(orders, pendingOrders, reports', resting')
  BY <1>2, AccountTells
<1>4. orders' = orders /\ pendingOrders' = pendingOrders
  BY DEF tables
<1> QED BY <1>1, <1>3, <1>4 DEF AccountInv

(* The report, as it is queued. *)
LEMMA ReportedInRoom ==
  ASSUME RoomForReports, NEW id, NEW execType, NEW last, NEW order, Report(id, execType, last, order)
  PROVE  \E leaves \in Leaves(execType, order) :
           reports' = Append(reports, ReportOf(id, execType, last, order, leaves))
BY DEF RoomForReports, Report, ReportOf

(* A new order is accepted or rejected. *)
LEMMA AccountAnswersNew ==
  ASSUME LifeInv, AccountInv, RoomForReports, AcceptOrder \/ RejectOrder
  PROVE  AccountInv'
<1> DEFINE m == Head(sent)
           execType == IF AcceptOrder THEN "New" ELSE "Rejected"
<1>1. Receive("New")
  BY DEF AcceptOrder, RejectOrder
<1>2. /\ m \in Message /\ m.quantity \in Nat \ {0}
      /\ UNCHANGED tables
  BY <1>1, Taken
<1>3. /\ m.id \in DOMAIN orders /\ m.id \in 1 .. nextOrderId - 1
      /\ orders[m.id].filledQty = 0 /\ orders[m.id].remainingQty = m.quantity
      /\ m.id \notin DOMAIN resting
      /\ \A i \in DOMAIN reports : reports[i].id # m.id
      /\ Arrived(m) \in LiveOrder
  BY <1>1, NewTaken
<1>4. PICK leaves \in Leaves(execType, Arrived(m)) :
        reports' = Append(reports, ReportOf(m.id, execType, 0, Arrived(m), leaves))
  <2>1. Report(m.id, execType, 0, Arrived(m))
    BY DEF AcceptOrder, RejectOrder
  <2> HIDE DEF m, execType
  <2> QED BY <2>1, ReportedInRoom
<1> DEFINE r == ReportOf(m.id, execType, 0, Arrived(m), leaves)
<1>5. /\ DOMAIN resting' \subseteq DOMAIN resting \cup {m.id}
      /\ \A id \in DOMAIN resting' : id # m.id => resting'[id] = resting[id]
      /\ m.id \in DOMAIN resting' => execType = "New" /\ resting'[m.id] = Arrived(m)
  <2>1. CASE AcceptOrder
    <3>1. resting' = With(m.id, Arrived(m))
      BY <2>1 DEF AcceptOrder
    <3>2. execType = "New"
      BY <2>1
    <3> HIDE DEF m, execType
    <3> QED BY <3>1, <3>2 DEF With
  <2>2. CASE RejectOrder
    BY <1>3, <2>2 DEF RejectOrder
  <2> QED BY <2>1, <2>2
<1>6. execType \in {"New", "Rejected"}
  OBVIOUS
<1> HIDE DEF m, execType
<1>7. /\ r \in ExecutionReport /\ r.id = m.id /\ r.execType = execType
      /\ r.last = 0 /\ r.cum = 0
      /\ r.leaves = m.quantity \/ (execType = "Rejected" /\ r.leaves = 0)
      /\ Arrived(m).cum = 0 /\ Arrived(m).leaves = m.quantity
  BY <1>2, <1>3, <1>6 DEF Leaves, ReportOf, ExecutionReport, ExecTypes, Arrived
<1>8. reports' = Append(reports, r)
  BY <1>4
<1> HIDE DEF r
<1>9. Touches(resting', resting, r.id) /\ Says(r, orders, resting')
  BY <1>5, <1>6, <1>7 DEF Touches, Says
<1>10. Stands(r.id, 0, m.quantity, orders, reports)
  BY <1>3, <1>7 DEF Stands
<1>11. Continues(0, m.quantity, r)
  BY <1>2, <1>7 DEF Continues
<1> QED BY <1>2, <1>6, <1>7, <1>8, <1>9, <1>10, <1>11, AccountTold

(* An order is cancelled, and that is reported under some id. *)
LEMMA AccountCancelled ==
  ASSUME LifeInv, AccountInv, RoomForReports, UNCHANGED tables,
         NEW id \in DOMAIN resting, resting' = Without(id),
         NEW i \in Nat, i = id \/ i \notin DOMAIN orders,
         Report(i, "Canceled", 0, resting[id])
  PROVE  AccountInv'
<1> DEFINE o == resting[id]
<1>1. o \in LiveOrder
  BY LiveKnown
<1>2. PICK leaves \in Leaves("Canceled", o) :
        reports' = Append(reports, ReportOf(i, "Canceled", 0, o, leaves))
  BY ReportedInRoom
<1> DEFINE r == ReportOf(i, "Canceled", 0, o, leaves)
<1>3. i \in DOMAIN orders => Stands(i, o.cum, o.leaves, orders, reports)
  BY LiveStands
<1> HIDE DEF o
<1>4. /\ r \in ExecutionReport /\ r.id = i /\ r.execType = "Canceled"
      /\ r.last = 0 /\ r.cum = o.cum /\ r.leaves \in {0, o.leaves}
      /\ o.cum \in Nat /\ o.leaves \in Nat
  BY <1>1 DEF Leaves, ReportOf, ExecutionReport, ExecTypes, LiveOrder
<1>5. /\ DOMAIN resting' = DOMAIN resting \ {id}
      /\ \A other \in DOMAIN resting' : resting'[other] = resting[other]
  BY DEF Without
<1>6. reports' = Append(reports, r)
  BY <1>2
<1> HIDE DEF r
<1>7. Touches(resting', resting, r.id) /\ Says(r, orders, resting')
  BY <1>4, <1>5 DEF Touches, Says
<1>8. Continues(o.cum, o.leaves, r)
  BY <1>4 DEF Continues
<1> QED BY <1>3, <1>4, <1>6, <1>7, <1>8, AccountTold

(* A request to cancel is taken. *)
LEMMA AccountCancels ==
  ASSUME LifeInv, AccountInv, RoomForReports, HandleCancel
  PROVE  AccountInv'
<1> DEFINE m == Head(sent)
<1>1. Receive("Cancel") /\ UNCHANGED tables
  BY Taken DEF HandleCancel
<1>2. CASE UNCHANGED <<resting, reports>>
  BY <1>1, <1>2, AccountKept
<1>3. CASE /\ m.orig \in DOMAIN resting /\ resting' = Without(m.orig)
           /\ Report(m.orig, "Canceled", 0, resting[m.orig])
  <2>1. m.orig \in Nat
    BY <1>3, LiveKnown
  <2> QED BY <1>1, <1>3, <2>1, AccountCancelled
<1>4. CASE /\ m.orig \in DOMAIN resting /\ resting' = Without(m.orig)
           /\ Report(m.id, "Canceled", 0, resting[m.orig])
  <2>1. m.id \notin DOMAIN orders /\ m.id \in Nat
    BY <1>1, RequestTaken
  <2> QED BY <1>1, <1>4, <2>1, AccountCancelled
<1> QED BY <1>2, <1>3, <1>4 DEF HandleCancel

(* A request to replace is taken: what is reported is of no order here. *)
LEMMA AccountReplaces ==
  ASSUME LifeInv, AccountInv, RoomForReports, HandleReplace
  PROVE  AccountInv'
<1> DEFINE m == Head(sent)
           o == [resting[m.orig] EXCEPT !.leaves = m.quantity - resting[m.orig].cum]
<1>1. UNCHANGED tables /\ m = sent[1] /\ 1 \in DOMAIN sent /\ m.action = "Replace"
  BY Taken DEF HandleReplace
<1>2. CASE UNCHANGED <<resting, reports>>
  BY <1>1, <1>2, AccountKept
<1>3. CASE /\ m.orig \in DOMAIN resting /\ m.quantity > resting[m.orig].cum
           /\ resting' = [id \in (DOMAIN resting \ {m.orig}) \cup {m.id} |->
                            IF id = m.id THEN o ELSE resting[id]]
           /\ Report(m.id, "Replaced", 0, o)
  <2>1. m.id \notin DOMAIN orders
    BY <1>1 DEF LifeInv, Life, RequestsUnknown
  <2>2. PICK leaves \in Leaves("Replaced", o) :
          reports' = Append(reports, ReportOf(m.id, "Replaced", 0, o, leaves))
    BY <1>3, ReportedInRoom
  <2> DEFINE r == ReportOf(m.id, "Replaced", 0, o, leaves)
  <2>3. m \in Message /\ m.id \in Nat /\ m.quantity \in Nat
    BY <1>1, OnTheWire DEF LifeInv, Message
  <2>4. resting[m.orig] \in LiveOrder
    BY <1>3, LiveKnown
  <2>5. DOMAIN resting' = (DOMAIN resting \ {m.orig}) \cup {m.id}
        /\ \A id \in DOMAIN resting' : id # m.id => resting'[id] = resting[id]
    BY <1>3
  <2> HIDE DEF m
  <2>6. o.leaves \in Nat /\ o.cum \in Nat
    <3> DEFINE l == resting[m.orig]
               left == m.quantity - l.cum
    <3>1. l \in LiveOrder /\ l.cum \in Nat /\ m.quantity > l.cum
      BY <1>3, <2>4 DEF LiveOrder
    <3>2. left \in Nat
      BY <2>3, <3>1
    <3>3. o = [l EXCEPT !.leaves = left]
      OBVIOUS
    <3> HIDE DEF l, left, o
    <3> QED BY <3>1, <3>2, <3>3 DEF LiveOrder
  <2> HIDE DEF o
  <2>7. r \in ExecutionReport /\ r.id = m.id /\ r.execType = "Replaced" /\ r.last = 0
    BY <2>3, <2>6 DEF Leaves, ReportOf, ExecutionReport, ExecTypes
  <2>8. reports' = Append(reports, r)
    BY <2>2
  <2> HIDE DEF r
  <2>9. Touches(resting', resting, r.id) /\ Says(r, orders, resting')
    BY <2>1, <2>5, <2>7 DEF Touches, Says
  <2> QED BY <1>1, <2>1, <2>7, <2>9, <2>8, AccountTold
<1> QED BY <1>2, <1>3 DEF HandleReplace

(* The exchange trades. *)
LEMMA AccountFills ==
  ASSUME LifeInv, AccountInv, RoomForReports,
         NEW id \in DOMAIN resting, NEW quantity \in 1 .. resting[id].leaves, Fill(id, quantity)
  PROVE  AccountInv'
<1> DEFINE o == resting[id]
           left == o.leaves - quantity
           l == [symbol |-> o.symbol, side |-> o.side, leaves |-> left, cum |-> o.cum + quantity]
           r == [id |-> id, execType |-> IF left = 0 THEN "Filled" ELSE "PartiallyFilled",
                 last |-> quantity, cum |-> o.cum + quantity, leaves |-> left]
<1>1. /\ o \in LiveOrder /\ quantity \in Nat \ {0} /\ left \in Nat
      /\ r \in ExecutionReport
      /\ reports' = Append(reports, r)
      /\ left = 0 => resting' = Without(id)
      /\ left # 0 => resting' = With(id, l)
      /\ UNCHANGED tables
  BY Filling
<1>2. id \in DOMAIN orders => Stands(id, o.cum, o.leaves, orders, reports)
  BY LiveStands
<1>3. id \in pendingOrders => \E k \in DOMAIN reports : reports[k].id = id
  BY DEF AccountInv, Account, AnsweredFirst
<1>4. /\ r.id = id /\ r.last = quantity /\ r.cum = o.cum + quantity /\ r.leaves = left
      /\ l.cum = o.cum + quantity /\ l.leaves = left
      /\ r.execType = "Filled" => left = 0
      /\ r.execType \in {"PartiallyFilled", "Filled"}
  OBVIOUS
<1>5. Continues(o.cum, o.leaves, r)
  BY <1>1, <1>4 DEF Continues, LiveOrder
<1> HIDE DEF r, left, l, o
<1>6. Touches(resting', resting, r.id) /\ Says(r, orders, resting')
  <2>1. CASE left = 0
    <3>1. /\ DOMAIN resting' = DOMAIN resting \ {id}
          /\ \A other \in DOMAIN resting' : resting'[other] = resting[other]
      BY <1>1, <2>1 DEF Without
    <3> QED BY <1>4, <2>1, <3>1 DEF Touches, Says
  <2>2. CASE left # 0
    <3>1. /\ DOMAIN resting' = DOMAIN resting \cup {id} /\ resting'[id] = l
          /\ \A other \in DOMAIN resting' : other # id => resting'[other] = resting[other]
      BY <1>1, <2>2 DEF With
    <3> QED BY <1>4, <2>2, <3>1 DEF Touches, Says
  <2> QED BY <2>1, <2>2
<1> QED BY <1>1, <1>2, <1>3, <1>4, <1>5, <1>6, AccountTold

(* A new order is entered, sent or not. *)
LEMMA AccountSubmits ==
  ASSUME EnableRiskChecks, LifeInv, AccountInv, NEW r \in Requests, Accepts(r),
         orders' = [id \in DOMAIN orders \cup {nextOrderId} |->
                      IF id = nextOrderId THEN NewOrder(r) ELSE orders[id]],
         pendingOrders' = pendingOrders \cup {nextOrderId},
         pendingPositions' = [pendingPositions EXCEPT ![r.symbol] = @ + Signed(r.side, r.quantity)],
         UNCHANGED <<positions, reports, resting>>
  PROVE  AccountInv'
<1> DEFINE m == NewMessage(r)
<1>1. Balanced'
  BY BalancedSubmit DEF AccountInv
<1>2. /\ DOMAIN orders' = DOMAIN orders \cup {nextOrderId} /\ nextOrderId \notin DOMAIN orders
      /\ \A id \in DOMAIN orders : orders'[id] = orders[id]
      /\ orders'[nextOrderId] = NewOrder(r)
  BY Entered
<1>3. /\ m.id = nextOrderId /\ m.quantity = r.quantity /\ m.symbol = r.symbol /\ m.side = r.side
  BY DEF NewMessage
<1> HIDE DEF m
<1>4. Enters(orders', orders, m)
  BY <1>2, <1>3 DEF Enters, NewOrder
<1>5. Unknown(m.id, <<>>, reports, resting)
  <2>1. nextOrderId \in Nat
    BY Tables DEF LifeInv
  <2>2. \A k \in DOMAIN reports : reports[k].id # m.id
    BY <1>3, <2>1 DEF LifeInv, WireOK
  <2>3. m.id \notin DOMAIN resting
    BY <1>3, <2>1 DEF LifeInv, WireOK
  <2> QED BY <2>2, <2>3 DEF Unknown
<1>6. Account(orders', pendingOrders \cup {m.id}, reports, resting)
  BY <1>4, <1>5, AccountEnters DEF AccountInv
<1> QED BY <1>1, <1>3, <1>6 DEF AccountInv

(* Open orders are marked as being cancelled. *)
LEMMA AccountAsksCancel ==
  ASSUME LifeInv, AccountInv, NEW ids \in Seq(OpenOrders), Cancel(ids), UNCHANGED resting
  PROVE  AccountInv'
<1>1. /\ Marks(orders', orders) /\ OpenOrders' = OpenOrders
      /\ \A id \in DOMAIN orders : orders'[id].status = "PendingNew" => orders'[id] = orders[id]
  BY Marked DEF LifeInv
<1>2. UNCHANGED <<pendingOrders, positions, pendingPositions, reports>>
  BY DEF Cancel
<1>3. Balanced'
  BY <1>1, <1>2, BalancedMarks DEF LifeInv, AccountInv
<1>4. Account(orders', pendingOrders, reports, resting)
  BY <1>1, AccountMarks DEF AccountInv
<1> QED BY <1>2, <1>3, <1>4 DEF AccountInv

(* A report is taken. *)
LEMMA AccountTakes ==
  ASSUME LifeInv, AccountInv, OnExecutionReport, UNCHANGED <<resting, traded>>
  PROVE  AccountInv'
<1>1. /\ reports # <<>> /\ reports' = Tail(reports) /\ reports \in Seq(ExecutionReport)
      /\ Books(orders', orders, reports[1])
      /\ pendingOrders' \subseteq pendingOrders
      /\ reports[1].id \notin DOMAIN orders => UNCHANGED tables
  BY Booked DEF LifeInv, WireOK
<1>2. Balanced' /\ reports[1].id \notin pendingOrders'
  <2>1. CASE reports[1].id \in DOMAIN orders
    BY <2>1, BalancedBooks
  <2>2. CASE reports[1].id \notin DOMAIN orders
    <3>1. pendingOrders \subseteq DOMAIN orders
      BY Tables DEF LifeInv
    <3> QED BY <1>1, <2>2, <3>1, BalanceKept DEF AccountInv
  <2> QED BY <2>1, <2>2
<1>3. Account(orders', pendingOrders', Tail(reports), resting)
  BY <1>1, <1>2, AccountBooks DEF AccountInv
<1> QED BY <1>1, <1>2, <1>3 DEF AccountInv

(* To begin with, all is empty. *)
LEMMA AccountInit ==
  ASSUME Init
  PROVE  AccountInv
<1>1. orders = <<>> /\ reports = <<>> /\ resting = <<>> /\ pendingOrders = {}
  BY DEF Init, GatewayInit
<1>2. DOMAIN orders = {} /\ DOMAIN reports = {} /\ DOMAIN resting = {}
  BY <1>1
<1>3. \A s \in Symbols : positions[s] = 0 /\ pendingPositions[s] = 0
  BY DEF Init, GatewayInit
<1>4. Account(orders, pendingOrders, reports, resting)
  BY <1>1, <1>2 DEF Account, FillsOnly, FirstContinues, OthersContinue, LastAgrees, NothingToTell,
                    AnsweredFirst
<1>5. PositionIsFilledQuantity /\ ReservationsAccounted
  <2>1. \A s : Of(s) = {}
    BY <1>2 DEF Of
  <2>2. SumFunctionOnSet(SignedFilled, {}) = 0 /\ SumFunctionOnSet(SignedReserved, {}) = 0
    BY SumEmpty
  <2> QED BY <1>2, <1>3, <2>1, <2>2 DEF PositionIsFilledQuantity, ReservationsAccounted
<1>6. PendingAwaitAck
  BY <1>1, <1>2 DEF PendingAwaitAck
<1>7. ExposureBounded
  BY <1>3, GatewayAssumption DEF ExposureBounded, Magnitude
<1> QED BY <1>4, <1>5, <1>6, <1>7 DEF AccountInv, Balanced

(* Every step keeps the account, if there is room for what it reports. *)
LEMMA AccountStep ==
  ASSUME EnableRiskChecks, LifeInv, AccountInv, RoomForReports, [Next]_vars
  PROVE  AccountInv'
<1>1. ASSUME UNCHANGED <<tables, reports, resting>>
      PROVE  AccountInv'
  BY <1>1, AccountKept
<1>2. ASSUME GatewayNext, UNCHANGED <<resting, traded>>
      PROVE  AccountInv'
  <2>1. CASE Tick
    BY <1>1, <1>2, <2>1 DEF Tick
  <2>2. ASSUME NEW r \in Requests, SubmitOrder(r)  PROVE AccountInv'
    <3>1. CASE UNCHANGED tables
      BY <1>1, <1>2, <2>2, <3>1 DEF SubmitOrder
    <3>2. CASE Accepts(r) /\ ~UNCHANGED tables
      BY <1>2, <2>2, <3>2, AccountSubmits DEF SubmitOrder
    <3> QED BY <2>2, <3>1, <3>2 DEF SubmitOrder
  <2>3. ASSUME NEW id, CancelOrder(id)  PROVE AccountInv'
    <3>1. <<id>> \in Seq(OpenOrders) /\ Cancel(<<id>>)
      BY <2>3, CancelledAreOpen DEF LifeInv
    <3> QED BY <1>2, <3>1, AccountAsksCancel
  <2>4. ASSUME NEW symbol \in Symbols, CancelAllOrders(symbol)  PROVE AccountInv'
    <3>1. PICK ids \in Seq(OpenOrders) : Cancel(ids)
      BY <2>4, CancelledAreOpen DEF LifeInv
    <3> QED BY <1>2, <3>1, AccountAsksCancel
  <2>5. ASSUME NEW id, NEW newQty \in ReplaceQuantities, ReplaceOrder(id, newQty)  PROVE AccountInv'
    BY <1>1, <1>2, <2>5 DEF ReplaceOrder
  <2>6. CASE OnExecutionReport
    BY <1>2, <2>6, AccountTakes
  <2> QED BY <1>2, <2>1, <2>2, <2>3, <2>4, <2>5, <2>6 DEF GatewayNext
<1>3. CASE OnLogon \/ OnLogout \/ UNCHANGED vars
  BY <1>1, <1>3 DEF OnLogon, OnLogout, vars, gatewayVars, exchangeVars
<1>4. CASE Answer
  BY <1>4, AccountAnswersNew, AccountCancels, AccountReplaces DEF Answer
<1>5. ASSUME NEW id \in DOMAIN resting, NEW quantity \in 1 .. resting[id].leaves, Fill(id, quantity)
      PROVE  AccountInv'
  BY <1>5, AccountFills
<1> QED BY <1>2, <1>3, <1>4, <1>5 DEF Next, exchangeVars

(* The account of every order adds up: what the gateway believes, the      *)
(* reports under way and what the exchange knows, for any requests and     *)
(* limits, whatever a report that ends an order states as left of it, and  *)
(* under whatever id a cancel is confirmed, as long as no report is lost.  *)
THEOREM AccountInvariant ==
  ASSUME EnableRiskChecks
  PROVE  Spec /\ []RoomForReports => []AccountInv
<1>1. Init => AccountInv
  BY AccountInit
<1>2. LifeInv /\ AccountInv /\ RoomForReports /\ [Next]_vars => AccountInv'
  BY AccountStep
<1> QED BY <1>1, <1>2, LifeInvariant, PTL DEF Spec

(* TablesConsistent: every report is booked once, on its order and on the  *)
(* position, and takes the order out of the pending set                    *)
(* (onExecutionReport, updatePositionOnFill, cleanupOrder).                *)
THEOREM TablesStayConsistent ==
  ASSUME EnableRiskChecks
  PROVE  Spec /\ []RoomForReports => []TablesConsistent
<1>1. LifeInv /\ AccountInv => TablesConsistent
  BY DEF LifeInv, AccountInv, Balanced, TablesConsistent
<1> QED BY <1>1, LifeInvariant, AccountInvariant, PTL

(* ReservationsAccounted: the pending position is what the open orders     *)
(* could still trade, and what the last report of a closed one kept back   *)
(* (updatePositionOnOrder, OnFill, OnCancel): reservations are never given *)
(* back twice, and nothing else is left behind.                            *)
THEOREM ReservationsAddUp ==
  ASSUME EnableRiskChecks
  PROVE  Spec /\ []RoomForReports => []ReservationsAccounted
<1>1. AccountInv => ReservationsAccounted
  BY DEF AccountInv, Balanced
<1> QED BY <1>1, AccountInvariant, PTL

(* OneSidedPositionHolds: with the orders of a symbol all on one side, the *)
(* position stays within the limit (wouldExceedPositionLimit), because     *)
(* position and pending position have the same sign and their sum is       *)
(* within it.                                                              *)
THEOREM PositionLimitHolds ==
  ASSUME EnableRiskChecks
  PROVE  Spec /\ []RoomForReports => []OneSidedPositionHolds
<1>1. ASSUME LifeInv, AccountInv  PROVE OneSidedPositionHolds
  <2>1. Signs
    BY <1>1, SignsHold DEF LifeInv, AccountInv, Balanced, Summed
  <2>2. ASSUME NEW s \in Symbols, NEW side \in Sides,
               \A id \in DOMAIN orders : orders[id].symbol = s => orders[id].side = side
        PROVE  Magnitude(positions[s]) <= MaxPositionPerSymbol
    <3>1. \A id \in Of(s) : orders[id].side = side
      BY <2>2 DEF Of
    <3>2. Magnitude(positions[s] + pendingPositions[s]) <= MaxPositionPerSymbol
      BY <1>1, <3>1 DEF AccountInv, Balanced, ExposureBounded, OneSided
    <3>3. \/ positions[s] \in Nat /\ pendingPositions[s] \in Nat
          \/ /\ positions[s] \in Int /\ positions[s] <= 0
             /\ pendingPositions[s] \in Int /\ pendingPositions[s] <= 0
      BY <2>1, <3>1 DEF Signs, Sides
    <3> QED BY <3>2, <3>3, GatewayAssumption DEF Magnitude
  <2> QED BY <2>2 DEF OneSidedPositionHolds, Sides
<1> QED BY <1>1, LifeInvariant, AccountInvariant, PTL

-----------------------------------------------------------------------------
(* Gateway and exchange agree. *)

(* A new order has been told nothing of. *)
LEMMA ToldEnters ==
  ASSUME NEW told, NEW os, NEW rs, NEW live, NEW m, NEW os2, NEW told2,
         Tells(told, os, rs, live), Enters(os2, os, m), Unknown(m.id, <<>>, rs, live),
         told2 = [id \in DOMAIN os2 |-> IF id = m.id THEN 0 ELSE told[id]]
  PROVE  Tells(told2, os2, rs, live)
<1>1. /\ DOMAIN os2 = DOMAIN os \cup {m.id} /\ m.id \notin DOMAIN os
      /\ \A id \in DOMAIN os : os2[id] = os[id]
      /\ os2[m.id].filledQty = 0
      /\ m.id \notin DOMAIN live /\ \A k \in DOMAIN rs : rs[k].id # m.id
  BY DEF Enters, Unknown
<1>2. told2 \in [DOMAIN os2 -> Nat]
  BY <1>1 DEF Tells
<1>3. told2[m.id] = 0 /\ \A id \in DOMAIN os : told2[id] = told[id]
  BY <1>1
<1>4. \A k \in DOMAIN rs :
        rs[k].id \in DOMAIN os2 /\ LastOf(rs, k) => told2[rs[k].id] = rs[k].cum
  BY <1>1, <1>3 DEF Tells
<1>5. \A id \in DOMAIN os2 :
        (\A k \in DOMAIN rs : rs[k].id # id) => told2[id] = os2[id].filledQty
  BY <1>1, <1>3 DEF Tells
<1>6. \A id \in DOMAIN os2 \cap DOMAIN live : told2[id] = live[id].cum
  BY <1>1, <1>3 DEF Tells
<1> QED BY <1>2, <1>4, <1>5, <1>6 DEF Tells

(* Marking an order tells nothing. *)
LEMMA ToldMarks ==
  ASSUME NEW told, NEW os, NEW rs, NEW live, NEW os2,
         Tells(told, os, rs, live), Marks(os2, os)
  PROVE  Tells(told, os2, rs, live)
<1>1. /\ DOMAIN os2 = DOMAIN os
      /\ \A id \in DOMAIN os : os2[id].filledQty = os[id].filledQty
  BY DEF Marks
<1> QED BY <1>1 DEF Tells

(* What has been told, with one more report. *)
Learns(told2, told, os, r) ==
  /\ told2 \in [DOMAIN os -> Nat]
  /\ \A id \in DOMAIN os : told2[id] = IF id = r.id THEN r.cum ELSE told[id]

(* A report tells what it says. *)
LEMMA ToldReports ==
  ASSUME NEW told, NEW os, NEW rs, NEW live, NEW r, NEW live2, NEW rs2, NEW told2,
         Tells(told, os, rs, live),
         rs \in Seq(ExecutionReport), r \in ExecutionReport, rs2 = Append(rs, r),
         Touches(live2, live, r.id), Says(r, os, live2),
         Learns(told2, told, os, r)
  PROVE  Tells(told2, os, rs2, live2)
<1> DEFINE n == Len(rs)
<1>0. /\ told2 \in [DOMAIN os -> Nat]
      /\ \A id \in DOMAIN os : told2[id] = IF id = r.id THEN r.cum ELSE told[id]
  BY DEF Learns
<1>1. /\ n \in Nat /\ DOMAIN rs = 1 .. n /\ DOMAIN rs2 = 1 .. n + 1
      /\ rs2[n + 1] = r
      /\ \A k \in DOMAIN rs : rs2[k] = rs[k]
  BY Grown
<1> HIDE DEF n
<1>2. \A k \in DOMAIN rs2 : k \in DOMAIN rs \/ k = n + 1
  BY <1>1
<1>3. \A k \in DOMAIN rs : k \in DOMAIN rs2 /\ k < n + 1
  BY <1>1
<1>4. n + 1 \in DOMAIN rs2
  BY <1>1
<1>5. ASSUME NEW k \in DOMAIN rs2, rs2[k].id \in DOMAIN os, LastOf(rs2, k)
      PROVE  told2[rs2[k].id] = rs2[k].cum
  <2>1. CASE k = n + 1
    BY <1>0, <1>1, <1>5, <2>1
  <2>2. CASE k \in DOMAIN rs
    <3>1. rs[k].id # r.id
      BY <1>1, <1>3, <1>4, <1>5, <2>2 DEF LastOf
    <3>2. LastOf(rs, k)
      BY <1>1, <1>3, <1>5, <2>2 DEF LastOf
    <3> QED BY <1>0, <1>1, <1>5, <2>2, <3>1, <3>2 DEF Tells
  <2> QED BY <1>2, <2>1, <2>2
<1>6. ASSUME NEW id \in DOMAIN os, \A k \in DOMAIN rs2 : rs2[k].id # id
      PROVE  told2[id] = os[id].filledQty
  <2>1. id # r.id /\ \A k \in DOMAIN rs : rs[k].id # id
    BY <1>1, <1>3, <1>4, <1>6
  <2> QED BY <1>0, <2>1 DEF Tells
<1>7. ASSUME NEW id \in DOMAIN os \cap DOMAIN live2
      PROVE  told2[id] = live2[id].cum
  <2>1. CASE id = r.id
    BY <1>0, <2>1 DEF Says
  <2>2. CASE id # r.id
    BY <1>0, <2>2 DEF Touches, Tells
  <2> QED BY <2>1, <2>2
<1> QED BY <1>0, <1>5, <1>6, <1>7 DEF Tells

(* A report of no order here tells nothing. *)
LEMMA ToldUnknown ==
  ASSUME NEW told, NEW os, NEW rs, NEW live, NEW r, NEW live2, NEW rs2,
         Tells(told, os, rs, live),
         rs \in Seq(ExecutionReport), r \in ExecutionReport, rs2 = Append(rs, r),
         r.id \notin DOMAIN os,
         \A id \in DOMAIN live2 : id \in DOMAIN live /\ live2[id] = live[id]
  PROVE  Tells(told, os, rs2, live2)
<1> DEFINE n == Len(rs)
<1>1. /\ n \in Nat /\ DOMAIN rs = 1 .. n /\ DOMAIN rs2 = 1 .. n + 1
      /\ rs2[n + 1] = r
      /\ \A k \in DOMAIN rs : rs2[k] = rs[k]
  BY Grown
<1> HIDE DEF n
<1>2. /\ \A k \in DOMAIN rs2 : k \in DOMAIN rs \/ k = n + 1
      /\ \A k \in DOMAIN rs : k \in DOMAIN rs2
  BY <1>1
<1>3. ASSUME NEW k \in DOMAIN rs2, rs2[k].id \in DOMAIN os, LastOf(rs2, k)
      PROVE  told[rs2[k].id] = rs2[k].cum
  <2>1. k \in DOMAIN rs
    BY <1>1, <1>2, <1>3
  <2>2. LastOf(rs, k)
    BY <1>1, <1>2, <1>3, <2>1 DEF LastOf
  <2> QED BY <1>1, <1>3, <2>1, <2>2 DEF Tells
<1>4. ASSUME NEW id \in DOMAIN os, \A k \in DOMAIN rs2 : rs2[k].id # id
      PROVE  told[id] = os[id].filledQty
  BY <1>1, <1>2, <1>4 DEF Tells
<1>5. \A id \in DOMAIN os \cap DOMAIN live2 : told[id] = live2[id].cum
  BY DEF Tells
<1> QED BY <1>3, <1>4, <1>5 DEF Tells

(* What is booked has been told. *)
LEMMA ToldBooks ==
  ASSUME NEW told, NEW os, NEW rs, NEW live, NEW os2,
         Tells(told, os, rs, live),
         rs \in Seq(ExecutionReport), rs # <<>>, Books(os2, os, rs[1])
  PROVE  Tells(told, os2, Tail(rs), live)
<1> DEFINE t == Tail(rs)
<1>1. /\ 1 \in DOMAIN rs
      /\ \A k \in DOMAIN t : k + 1 \in DOMAIN rs /\ t[k] = rs[k + 1] /\ k \in Nat
      /\ \A k \in DOMAIN rs : k \in Nat \ {0} /\ (1 < k => k - 1 \in DOMAIN t /\ t[k - 1] = rs[k])
  <2>1. /\ Len(rs) \in Nat \ {0} /\ DOMAIN rs = 1 .. Len(rs) /\ DOMAIN t = 1 .. Len(rs) - 1
        /\ \A k \in DOMAIN t : k + 1 \in DOMAIN rs /\ t[k] = rs[k + 1]
    BY Shrunk
  <2> HIDE DEF t
  <2>2. ASSUME NEW k \in DOMAIN rs, 1 < k  PROVE k - 1 \in DOMAIN t /\ t[k - 1] = rs[k]
    <3>1. k - 1 \in DOMAIN t /\ (k - 1) + 1 = k
      BY <2>1, <2>2
    <3> QED BY <2>1, <3>1
  <2> QED BY <2>1, <2>2
<1> HIDE DEF t
<1>2. DOMAIN os2 = DOMAIN os /\ \A id \in DOMAIN os : id # rs[1].id => os2[id] = os[id]
  BY DEF Books
<1>3. rs[1].id \in DOMAIN os => os2[rs[1].id].filledQty = rs[1].cum
  BY DEF Books
<1>4. ASSUME NEW k \in DOMAIN t, t[k].id \in DOMAIN os, LastOf(t, k)
      PROVE  told[t[k].id] = t[k].cum
  <2>1. k + 1 \in DOMAIN rs /\ t[k] = rs[k + 1] /\ k \in Nat
    BY <1>1
  <2>2. ASSUME NEW j \in DOMAIN rs, k + 1 < j  PROVE rs[j].id # rs[k + 1].id
    <3>1. j \in Nat /\ 1 < j /\ k < j - 1
      BY <1>1, <2>1, <2>2
    <3>2. j - 1 \in DOMAIN t /\ t[j - 1] = rs[j]
      BY <1>1, <3>1
    <3> QED BY <1>4, <2>1, <3>1, <3>2 DEF LastOf
  <2>3. LastOf(rs, k + 1)
    BY <2>2 DEF LastOf
  <2> QED BY <1>4, <2>1, <2>3 DEF Tells
<1>5. ASSUME NEW id \in DOMAIN os, \A k \in DOMAIN t : t[k].id # id
      PROVE  told[id] = os2[id].filledQty
  <2>1. ASSUME NEW j \in DOMAIN rs, 1 < j  PROVE rs[j].id # id
    BY <1>1, <1>5, <2>1
  <2>2. CASE id = rs[1].id
    <3>1. LastOf(rs, 1)
      BY <2>1, <2>2 DEF LastOf
    <3> QED BY <1>1, <1>3, <2>2, <3>1 DEF Tells
  <2>3. CASE id # rs[1].id
    <3>1. \A j \in DOMAIN rs : j = 1 \/ 1 < j
      BY <1>1
    <3>2. \A j \in DOMAIN rs : rs[j].id # id
      BY <2>1, <2>3, <3>1
    <3> QED BY <1>2, <2>3, <3>2 DEF Tells
  <2> QED BY <2>2, <2>3
<1>6. \A id \in DOMAIN os2 \cap DOMAIN live : told[id] = live[id].cum
  BY <1>2 DEF Tells
<1>7. told \in [DOMAIN os2 -> Nat]
  BY <1>2 DEF Tells
<1> QED BY <1>2, <1>4, <1>5, <1>6, <1>7 DEF Tells, t

(* A message is taken; the others keep their order. *)
LEMMA TakenKeeps ==
  ASSUME LifeInv, NEW action, Receive(action)
  PROVE  /\ \A k \in DOMAIN sent : k = 1 \/ \E j \in DOMAIN sent' : sent'[j] = sent[k]
         /\ \A j \in DOMAIN sent' : \E k \in DOMAIN sent : sent'[j] = sent[k]
<1>1. sent # <<>> /\ sent \in Seq(Message) /\ sent' = Tail(sent)
  BY DEF Receive, LifeInv, WireOK
<1>2. /\ Len(sent) \in Nat \ {0} /\ DOMAIN sent = 1 .. Len(sent) /\ DOMAIN sent' = 1 .. Len(sent) - 1
      /\ \A k \in DOMAIN sent' : k + 1 \in DOMAIN sent /\ sent'[k] = sent[k + 1]
  BY <1>1, Shrunk
<1>3. ASSUME NEW k \in DOMAIN sent, k # 1
      PROVE  \E j \in DOMAIN sent' : sent'[j] = sent[k]
  <2>1. k - 1 \in DOMAIN sent' /\ (k - 1) + 1 = k
    BY <1>2, <1>3
  <2> QED BY <1>2, <2>1
<1> QED BY <1>2, <1>3

(* What the steps of the exchange that report something have in common: a  *)
(* report on an order of here, of what the exchange has traded with it.    *)
Tell(r) ==
  /\ r \in ExecutionReport /\ r.id \in DOMAIN orders \ unheard
  /\ reports' = Append(reports, r)
  /\ Touches(resting', resting, r.id) /\ Says(r, orders, resting')
  /\ r.id \in DOMAIN resting' \/ r.execType \in Terminal
  /\ \A id \in DOMAIN resting : id # r.id => id \in DOMAIN resting'
  /\ \A k \in DOMAIN sent :
       sent[k].action = "New" /\ sent[k].id # r.id => \E j \in DOMAIN sent' : sent'[j] = sent[k]
  /\ \A j \in DOMAIN sent' : \E k \in DOMAIN sent : sent'[j] = sent[k]
  /\ UNCHANGED <<tables, missed, unheard>>
  /\ \/ r.id \in DOMAIN resting /\ r.cum = resting[r.id].cum + r.last
     \/ /\ \A k \in DOMAIN reports : reports[k].id # r.id
        /\ r.cum = orders[r.id].filledQty + r.last
  /\ \A s \in Symbols :
       traded'[s] = IF s = orders[r.id].symbol THEN traded[s] + Signed(orders[r.id].side, r.last)
                                               ELSE traded[s]

(* A report that moves no quantity. *)
LEMMA TradesNothing ==
  ASSUME LifeInv, UNCHANGED traded, NEW r, r.last = 0, r.id \in DOMAIN orders
  PROVE  \A s \in Symbols :
           traded'[s] = IF s = orders[r.id].symbol THEN traded[s] + Signed(orders[r.id].side, r.last)
                                                   ELSE traded[s]
<1>1. traded \in [Symbols -> Int]
  BY DEF LifeInv, WireOK
<1>2. Signed(orders[r.id].side, 0) = 0
  BY SignedZero
<1>3. \A s \in Symbols : traded[s] + 0 = traded[s]
  BY <1>1
<1> QED BY <1>2, <1>3

(* The answer to a new order tells of it, and no trade. *)
LEMMA NewTells ==
  ASSUME LifeInv, RoomForReports, UnheardGone, AcceptOrder \/ RejectOrder
  PROVE  \E r : Tell(r)
<1> DEFINE m == Head(sent)
           execType == IF AcceptOrder THEN "New" ELSE "Rejected"
<1>1. Receive("New")
  BY DEF AcceptOrder, RejectOrder
<1>2. /\ m = sent[1] /\ 1 \in DOMAIN sent /\ m.action = "New" /\ m.quantity \in Nat \ {0}
      /\ UNCHANGED <<tables, missed, traded, unheard>>
  BY <1>1, Taken DEF AcceptOrder, RejectOrder
<1>3. /\ m.id \in DOMAIN orders /\ m.id \in 1 .. nextOrderId - 1
      /\ orders[m.id].filledQty = 0
      /\ m.id \notin DOMAIN resting
      /\ \A i \in DOMAIN reports : reports[i].id # m.id
      /\ Arrived(m) \in LiveOrder
  BY <1>1, NewTaken
<1>4. PICK leaves \in Leaves(execType, Arrived(m)) :
        reports' = Append(reports, ReportOf(m.id, execType, 0, Arrived(m), leaves))
  <2>1. Report(m.id, execType, 0, Arrived(m))
    BY DEF AcceptOrder, RejectOrder
  <2> HIDE DEF m, execType
  <2> QED BY <2>1, ReportedInRoom
<1> DEFINE r == ReportOf(m.id, execType, 0, Arrived(m), leaves)
<1>5. /\ \A k \in DOMAIN sent : k = 1 \/ \E j \in DOMAIN sent' : sent'[j] = sent[k]
      /\ \A j \in DOMAIN sent' : \E k \in DOMAIN sent : sent'[j] = sent[k]
  BY <1>1, TakenKeeps
<1>6. /\ AcceptOrder => DOMAIN resting' = DOMAIN resting \cup {m.id}
      /\ ~AcceptOrder => DOMAIN resting' = DOMAIN resting
      /\ \A id \in DOMAIN resting : resting'[id] = resting[id]
      /\ m.id \in DOMAIN resting' => resting'[m.id] = Arrived(m)
  <2>1. CASE AcceptOrder
    <3>1. resting' = With(m.id, Arrived(m))
      BY <2>1 DEF AcceptOrder
    <3> HIDE DEF m
    <3> QED BY <1>3, <2>1, <3>1 DEF With
  <2>2. CASE ~AcceptOrder
    <3>1. resting' = resting
      BY <2>2 DEF RejectOrder
    <3> QED BY <1>3, <2>2, <3>1
  <2> QED BY <2>1, <2>2
<1>7. /\ \A k \in DOMAIN sent : sent[k].id # m.id => k # 1
      /\ m.id \notin unheard
  BY <1>2 DEF UnheardGone
<1>16. execType = IF AcceptOrder THEN "New" ELSE "Rejected"
  OBVIOUS
<1> HIDE DEF m, execType
<1>8. /\ r \in ExecutionReport /\ r.id = m.id
      /\ AcceptOrder => r.leaves = m.quantity
      /\ ~AcceptOrder => r.execType \in Terminal
      /\ r.execType \in {"New", "Rejected"}
      /\ r.last = 0 /\ r.cum = 0
      /\ Arrived(m).cum = 0 /\ Arrived(m).leaves = m.quantity
  BY <1>2, <1>3, <1>16 DEF Leaves, ReportOf, ExecutionReport, ExecTypes, Arrived, Terminal
<1>17. reports' = Append(reports, r)
  BY <1>4
<1> HIDE DEF r
<1>9. Touches(resting', resting, r.id) /\ Says(r, orders, resting')
  <2>1. r.id \in DOMAIN resting' => AcceptOrder
    BY <1>3, <1>6, <1>8
  <2> QED BY <1>6, <1>8, <2>1 DEF Touches, Says
<1>10. r.cum = orders[r.id].filledQty + r.last
  BY <1>3, <1>8
<1>11. \A s \in Symbols :
         traded'[s] = IF s = orders[r.id].symbol THEN traded[s] + Signed(orders[r.id].side, r.last)
                                                 ELSE traded[s]
  BY <1>2, <1>3, <1>8, TradesNothing
<1>12. r.id \in DOMAIN resting' \/ r.execType \in Terminal
  BY <1>6, <1>8
<1>13. \A id \in DOMAIN resting : id # r.id => id \in DOMAIN resting'
  BY <1>6
<1>14. \A k \in DOMAIN sent :
         sent[k].action = "New" /\ sent[k].id # r.id => \E j \in DOMAIN sent' : sent'[j] = sent[k]
  BY <1>5, <1>7, <1>8
<1>15. r.id \in DOMAIN orders \ unheard /\ \A k \in DOMAIN reports : reports[k].id # r.id
  BY <1>3, <1>7, <1>8
<1> QED BY <1>2, <1>5, <1>8, <1>9, <1>10, <1>11, <1>12, <1>13, <1>14, <1>15, <1>17 DEF Tell

(* So does a cancellation under the order's id. *)
LEMMA CancelTells ==
  ASSUME LifeInv, RoomForReports, NoReplaces, UnheardGone, Receive("Cancel"),
         NEW id \in DOMAIN resting, resting' = Without(id),
         Report(id, "Canceled", 0, resting[id]), UNCHANGED unheard
  PROVE  \E r : Tell(r)
<1> DEFINE o == resting[id]
<1>2. /\ Head(sent) = sent[1] /\ Head(sent).action = "Cancel"
      /\ UNCHANGED <<tables, missed, traded>>
  BY Taken
<1>4. o \in LiveOrder /\ id \in Nat
  BY LiveKnown
<1>5. PICK leaves \in Leaves("Canceled", o) :
        reports' = Append(reports, ReportOf(id, "Canceled", 0, o, leaves))
  BY ReportedInRoom
<1> DEFINE r == ReportOf(id, "Canceled", 0, o, leaves)
<1>6. id \in DOMAIN orders \ unheard
  BY DEF NoReplaces, UnheardGone
<1>7. /\ \A k \in DOMAIN sent : k = 1 \/ \E j \in DOMAIN sent' : sent'[j] = sent[k]
      /\ \A j \in DOMAIN sent' : \E k \in DOMAIN sent : sent'[j] = sent[k]
  BY TakenKeeps
<1>8. \A k \in DOMAIN sent :
        sent[k].action = "New" => \E j \in DOMAIN sent' : sent'[j] = sent[k]
  BY <1>2, <1>7
<1>3. o.cum = resting[id].cum
  OBVIOUS
<1> HIDE DEF o
<1>9. /\ r \in ExecutionReport /\ r.id = id /\ r.execType = "Canceled" /\ r.execType \in Terminal
      /\ r.last = 0 /\ r.cum = o.cum /\ o.cum \in Nat
  BY <1>4 DEF Leaves, ReportOf, ExecutionReport, ExecTypes, LiveOrder, Terminal
<1>10. /\ DOMAIN resting' = DOMAIN resting \ {id}
       /\ \A other \in DOMAIN resting' : resting'[other] = resting[other]
  BY DEF Without
<1>15. reports' = Append(reports, r)
  BY <1>5
<1> HIDE DEF r
<1>11. Touches(resting', resting, r.id) /\ Says(r, orders, resting')
  BY <1>9, <1>10 DEF Touches, Says
<1>12. r.id \in DOMAIN resting /\ r.cum = resting[r.id].cum + r.last
  BY <1>3, <1>9
<1>13. \A s \in Symbols :
         traded'[s] = IF s = orders[r.id].symbol THEN traded[s] + Signed(orders[r.id].side, r.last)
                                                 ELSE traded[s]
  BY <1>2, <1>6, <1>9, TradesNothing
<1>14. \A other \in DOMAIN resting : other # r.id => other \in DOMAIN resting'
  BY <1>9, <1>10
<1> QED BY <1>2, <1>6, <1>7, <1>8, <1>9, <1>11, <1>12, <1>13, <1>14, <1>15 DEF Tell

(* A fill tells of what it trades. *)
LEMMA FillTells ==
  ASSUME LifeInv, RoomForReports, NoReplaces, UnheardGone,
         NEW id \in DOMAIN resting, NEW quantity \in 1 .. resting[id].leaves, Fill(id, quantity)
  PROVE  \E r : Tell(r)
<1> DEFINE o == resting[id]
           left == o.leaves - quantity
           l == [symbol |-> o.symbol, side |-> o.side, leaves |-> left, cum |-> o.cum + quantity]
           r == [id |-> id, execType |-> IF left = 0 THEN "Filled" ELSE "PartiallyFilled",
                 last |-> quantity, cum |-> o.cum + quantity, leaves |-> left]
<1>1. /\ o \in LiveOrder /\ quantity \in Nat \ {0} /\ left \in Nat
      /\ r \in ExecutionReport
      /\ reports' = Append(reports, r)
      /\ left = 0 => resting' = Without(id)
      /\ left # 0 => resting' = With(id, l)
      /\ traded' = [traded EXCEPT ![o.symbol] = @ + Signed(o.side, quantity)]
      /\ UNCHANGED <<tables, missed, sent>>
  BY Filling
<1>8. UNCHANGED unheard
  BY DEF Fill
<1>2. /\ id \in DOMAIN orders \ unheard
      /\ orders[id].symbol = o.symbol /\ orders[id].side = o.side
  BY LiveKnown DEF NoReplaces, UnheardGone
<1>3. /\ r.id = id /\ r.last = quantity /\ r.cum = o.cum + quantity /\ r.leaves = left
      /\ l.cum = o.cum + quantity /\ l.leaves = left
      /\ r.execType = "Filled" => left = 0
      /\ left = 0 => r.execType \in Terminal
      /\ r.execType \in {"PartiallyFilled", "Filled"}
  BY DEF Terminal
<1> HIDE DEF r, left, l
<1>4. /\ Touches(resting', resting, r.id) /\ Says(r, orders, resting')
      /\ r.id \in DOMAIN resting' \/ r.execType \in Terminal
      /\ \A other \in DOMAIN resting : other # r.id => other \in DOMAIN resting'
  <2>1. CASE left = 0
    <3>1. /\ DOMAIN resting' = DOMAIN resting \ {id}
          /\ \A other \in DOMAIN resting' : resting'[other] = resting[other]
      BY <1>1, <2>1 DEF Without
    <3> QED BY <1>3, <2>1, <3>1 DEF Touches, Says
  <2>2. CASE left # 0
    <3>1. /\ DOMAIN resting' = DOMAIN resting \cup {id} /\ resting'[id] = l
          /\ \A other \in DOMAIN resting' : other # id => resting'[other] = resting[other]
      BY <1>1, <2>2 DEF With
    <3> QED BY <1>3, <2>2, <3>1 DEF Touches, Says
  <2> QED BY <2>1, <2>2
<1>5. r.id \in DOMAIN resting /\ r.cum = resting[r.id].cum + r.last
  BY <1>3
<1>6. \A s \in Symbols :
        traded'[s] = IF s = orders[r.id].symbol THEN traded[s] + Signed(orders[r.id].side, r.last)
                                                ELSE traded[s]
  <2>1. traded \in [Symbols -> Int]
    BY DEF LifeInv, WireOK
  <2> QED BY <1>1, <1>2, <1>3, <2>1
<1>7. /\ \A k \in DOMAIN sent : \E j \in DOMAIN sent' : sent'[j] = sent[k]
      /\ \A j \in DOMAIN sent' : \E k \in DOMAIN sent : sent'[j] = sent[k]
  BY <1>1
<1> QED BY <1>1, <1>2, <1>3, <1>4, <1>5, <1>6, <1>7, <1>8 DEF Tell

(* What the exchange tells agrees with what it trades. *)
LEMMA AgreementTold ==
  ASSUME LifeInv, AgreementInv, NEW r, Tell(r)
  PROVE  AgreementInv'
<1> DEFINE a == r.id
           y == orders[a].symbol
           side == orders[a].side
<1>1. /\ r \in ExecutionReport /\ a \in DOMAIN orders
      /\ reports' = Append(reports, r) /\ reports \in Seq(ExecutionReport)
      /\ Touches(resting', resting, a) /\ Says(r, orders, resting')
      /\ orders' = orders /\ missed' = missed /\ unheard' = unheard
  BY DEF Tell, LifeInv, WireOK, tables
<1>2. orders[a] \in Order /\ r.cum \in Nat /\ r.last \in Nat
  BY <1>1, Tables DEF LifeInv, ExecutionReport
<1>3. NoReplaces'
  <2>1. DOMAIN resting' \subseteq DOMAIN orders'
    BY <1>1 DEF AgreementInv, NoReplaces, Touches
  <2>2. \A k \in DOMAIN sent' : sent'[k].action # "Replace"
    BY DEF Tell, AgreementInv, NoReplaces
  <2> QED BY <2>1, <2>2 DEF NoReplaces
<1>16. UnheardGone'
  <2>1. unheard' \cap DOMAIN resting' = {}
    BY <1>1 DEF AgreementInv, UnheardGone, Tell, Touches
  <2>2. \A j \in DOMAIN sent' : sent'[j].action = "New" => sent'[j].id \notin unheard'
    BY <1>1 DEF AgreementInv, UnheardGone, Tell
  <2> QED BY <1>1, <2>1, <2>2 DEF AgreementInv, UnheardGone
<1>4. ASSUME ~missed'
      PROVE  Accounted'
  <2>1. OpenOrders' = OpenOrders
    BY <1>1 DEF OpenOrders
  <2>2. /\ \A k \in DOMAIN reports : k \in DOMAIN reports' /\ reports'[k] = reports[k]
        /\ \E k \in DOMAIN reports' : reports'[k] = r
    <3>1. /\ Len(reports) \in Nat
          /\ DOMAIN reports = 1 .. Len(reports) /\ DOMAIN reports' = 1 .. Len(reports) + 1
          /\ reports'[Len(reports) + 1] = r
          /\ \A k \in DOMAIN reports : reports'[k] = reports[k]
      BY <1>1, Grown
    <3>2. Len(reports) + 1 \in DOMAIN reports' /\ DOMAIN reports \subseteq DOMAIN reports'
      BY <3>1
    <3> QED BY <3>1, <3>2
  <2>3. ASSUME NEW id \in OpenOrders \ unheard
        PROVE  Whereabouts(id, sent', reports', resting')
    <3>1. Whereabouts(id, sent, reports, resting)
      BY <1>1, <1>4, <2>3 DEF AgreementInv, Accounted
    <3>2. CASE id = a
      BY <2>2, <3>2 DEF Tell, Whereabouts
    <3>3. CASE id # a
      BY <2>2, <3>1, <3>3 DEF Tell, Whereabouts
    <3> QED BY <3>2, <3>3
  <2> QED BY <1>1, <2>1, <2>3 DEF Accounted
<1>5. PICK told : TradedAsTold(told)
  BY DEF AgreementInv
<1> DEFINE told2 == [told EXCEPT ![a] = r.cum]
<1>6. /\ told \in [DOMAIN orders -> Nat]
      /\ \A s \in Symbols : traded[s] = SumFunctionOnSet(SignedTold(told), Of(s))
      /\ Tells(told, orders, reports, resting)
  BY <1>5 DEF TradedAsTold, Tells
<1>7. r.cum = told[a] + r.last
  <2>1. CASE a \in DOMAIN resting /\ r.cum = resting[a].cum + r.last
    <3>1. told[a] = resting[a].cum
      BY <1>1, <1>6, <2>1 DEF Tells
    <3> QED BY <2>1, <3>1
  <2>2. CASE (\A k \in DOMAIN reports : reports[k].id # a) /\ r.cum = orders[a].filledQty + r.last
    <3>1. told[a] = orders[a].filledQty
      BY <1>1, <1>6, <2>2 DEF Tells
    <3> QED BY <2>2, <3>1
  <2> QED BY <2>1, <2>2 DEF Tell
<1>8. /\ told2 \in [DOMAIN orders -> Nat]
      /\ \A id \in DOMAIN orders : told2[id] = IF id = a THEN r.cum ELSE told[id]
  BY <1>1, <1>2, <1>6
<1> HIDE DEF told2
<1>9. Tells(told2, orders, reports', resting')
  <2>1. Learns(told2, told, orders, r)
    BY <1>8 DEF Learns
  <2> QED BY <1>1, <1>6, <2>1, ToldReports
<1>10. /\ \A s : IsFiniteSet(Of(s)) /\ Of(s) \subseteq DOMAIN orders
       /\ \A id \in DOMAIN orders :
            /\ SignedTold(told)[id] = Signed(orders[id].side, told[id])
            /\ SignedTold(told2)[id] = Signed(orders[id].side, told2[id])
            /\ SignedTold(told)[id] \in Int /\ SignedTold(told2)[id] \in Int
            /\ id # a => SignedTold(told2)[id] = SignedTold(told)[id]
  <2>1. \A id \in DOMAIN orders : Signed(orders[id].side, told[id]) \in Int
                                  /\ Signed(orders[id].side, told2[id]) \in Int
    BY <1>6, <1>8 DEF Signed
  <2>2. \A s : IsFiniteSet(Of(s)) /\ Of(s) \subseteq DOMAIN orders
    BY Terms DEF LifeInv
  <2>3. \A id \in DOMAIN orders :
          /\ SignedTold(told)[id] = Signed(orders[id].side, told[id])
          /\ SignedTold(told2)[id] = Signed(orders[id].side, told2[id])
    BY DEF SignedTold
  <2> QED BY <1>8, <2>1, <2>2, <2>3
<1>11. SignedTold(told2)[a] = SignedTold(told)[a] + Signed(side, r.last)
  <2>1. told[a] \in Nat /\ told2[a] = told[a] + r.last /\ side \in Sides
    BY <1>1, <1>2, <1>6, <1>7, <1>8 DEF Order
  <2>2. Signed(side, told[a] + r.last) = Signed(side, told[a]) + Signed(side, r.last)
    BY <1>2, <2>1, SignedAmounts
  <2> QED BY <1>1, <1>10, <2>1, <2>2
<1>12. /\ a \in Of(y) /\ \A s : a \in Of(s) => s = y
       /\ Signed(side, r.last) \in Int
  BY <1>1, <1>2 DEF Of, Signed
<1>13. \A s \in Symbols :
         traded'[s] = IF s = y THEN traded[s] + Signed(side, r.last) ELSE traded[s]
  BY DEF Tell
<1> HIDE DEF y, side
<1>14. ASSUME NEW s \in Symbols
       PROVE  traded'[s] = SumFunctionOnSet(SignedTold(told2), Of(s))
  <2> DEFINE f == SignedTold(told)
             g == SignedTold(told2)
  <2>1. traded[s] = SumFunctionOnSet(f, Of(s))
    BY <1>6
  <2>2. IsFiniteSet(Of(s)) /\ \A x \in Of(s) : f[x] \in Int /\ (x # a => g[x] = f[x])
    BY <1>10
  <2>3. g[a] = f[a] + Signed(side, r.last) /\ g[a] \in Int /\ f[a] \in Int
    BY <1>1, <1>10, <1>11
  <2> HIDE DEF f, g
  <2>4. CASE s = y
    <3>1. ChangesAt(f, g, Of(s), a)
      BY <1>12, <2>2, <2>3, <2>4 DEF ChangesAt
    <3>2. /\ SumFunctionOnSet(g, Of(s) \ {a}) = SumFunctionOnSet(f, Of(s)) - f[a]
          /\ SumFunctionOnSet(g, Of(s)) = SumFunctionOnSet(f, Of(s)) - f[a] + g[a]
          /\ SumFunctionOnSet(f, Of(s)) \in Int
      BY <3>1, SumMoves, Zenon
    <3>3. SumFunctionOnSet(g, Of(s)) = SumFunctionOnSet(f, Of(s)) + Signed(side, r.last)
      BY <1>12, <2>3, <3>2
    <3> QED BY <1>13, <2>1, <2>4, <3>3 DEF g
  <2>5. CASE s # y
    <3>1. \A x \in Of(s) : g[x] = f[x]
      BY <1>12, <2>2, <2>5
    <3>2. SumFunctionOnSet(g, Of(s)) = SumFunctionOnSet(f, Of(s))
      BY <2>2, <3>1, SumSame
    <3> QED BY <1>13, <2>1, <2>5, <3>2 DEF g
  <2> QED BY <2>4, <2>5
<1>15. TradedAsTold(told2)'
  <2>1. \A s : Of(s)' = Of(s)
    BY <1>1 DEF Of
  <2>2. SignedTold(told2)' = SignedTold(told2)
    BY <1>1 DEF SignedTold
  <2>3. \A s \in Symbols : traded'[s] = SumFunctionOnSet(SignedTold(told2)', Of(s)')
    BY <1>14, <2>1, <2>2
  <2>4. Tells(told2, orders', reports', resting')
    BY <1>1, <1>9
  <2> QED BY <2>3, <2>4 DEF TradedAsTold
<1> QED BY <1>3, <1>4, <1>15, <1>16 DEF AgreementInv

(* As long as orders keep symbol and side, the sums are the same. *)
LEMMA TradedKept ==
  ASSUME NEW told, TradedAsTold(told), UNCHANGED traded,
         DOMAIN orders' = DOMAIN orders,
         \A id \in DOMAIN orders :
           orders'[id].symbol = orders[id].symbol /\ orders'[id].side = orders[id].side,
         Tells(told, orders', reports', resting')
  PROVE  TradedAsTold(told)'
<1>1. \A s : Of(s)' = Of(s)
  BY DEF Of
<1>2. SignedTold(told)' = SignedTold(told)
  BY DEF SignedTold
<1>3. \A s \in Symbols : traded'[s] = SumFunctionOnSet(SignedTold(told)', Of(s)')
  BY <1>1, <1>2 DEF TradedAsTold
<1> QED BY <1>3 DEF TradedAsTold

(* A cancellation reported under another id tells the gateway nothing: the *)
(* order is open here for good.                                            *)
LEMMA AgreementUnheard ==
  ASSUME LifeInv, AgreementInv, RoomForReports, Receive("Cancel"),
         NEW id \in DOMAIN resting, resting' = Without(id),
         NEW i \in Nat, i \notin DOMAIN orders,
         Report(i, "Canceled", 0, resting[id]), unheard' = unheard \cup {id}
  PROVE  AgreementInv'
<1> DEFINE o == resting[id]
<1>1. /\ Head(sent) = sent[1] /\ Head(sent).action = "Cancel"
      /\ UNCHANGED <<tables, missed, traded>>
  BY Taken
<1>2. /\ orders' = orders /\ missed' = missed
      /\ reports \in Seq(ExecutionReport)
  BY <1>1 DEF LifeInv, WireOK, tables
<1>3. /\ \A k \in DOMAIN sent : k = 1 \/ \E j \in DOMAIN sent' : sent'[j] = sent[k]
      /\ \A j \in DOMAIN sent' : \E k \in DOMAIN sent : sent'[j] = sent[k]
  BY TakenKeeps
<1>4. \A k \in DOMAIN sent : sent[k].action = "New" => \E j \in DOMAIN sent' : sent'[j] = sent[k]
  BY <1>1, <1>3
<1>5. o \in LiveOrder
  BY LiveKnown
<1>6. PICK leaves \in Leaves("Canceled", o) :
        reports' = Append(reports, ReportOf(i, "Canceled", 0, o, leaves))
  BY ReportedInRoom
<1> DEFINE r == ReportOf(i, "Canceled", 0, o, leaves)
<1>7. /\ DOMAIN resting' = DOMAIN resting \ {id}
      /\ \A other \in DOMAIN resting' : resting'[other] = resting[other]
  BY DEF Without
<1> HIDE DEF o
<1>8. r \in ExecutionReport /\ r.id = i
  BY <1>5 DEF Leaves, ReportOf, ExecutionReport, ExecTypes, LiveOrder
<1>9. reports' = Append(reports, r)
  BY <1>6
<1> HIDE DEF r
<1>10. \A k \in DOMAIN reports : k \in DOMAIN reports' /\ reports'[k] = reports[k]
  <2>1. /\ Len(reports) \in Nat
        /\ DOMAIN reports = 1 .. Len(reports) /\ DOMAIN reports' = 1 .. Len(reports) + 1
        /\ \A k \in DOMAIN reports : reports'[k] = reports[k]
    BY <1>2, <1>8, <1>9, Grown
  <2> QED BY <2>1
<1>11. NoReplaces'
  BY <1>2, <1>3, <1>7 DEF AgreementInv, NoReplaces
<1>12. UnheardGone'
  <2>1. \A k \in DOMAIN sent : sent[k].action = "New" => sent[k].id # id
    BY DEF LifeInv, Life, OnTheWay
  <2>2. \A j \in DOMAIN sent' : sent'[j].action = "New" => sent'[j].id \notin unheard \cup {id}
    BY <1>3, <2>1 DEF AgreementInv, UnheardGone
  <2>3. id \in DOMAIN orders
    BY DEF AgreementInv, NoReplaces
  <2> QED BY <1>2, <1>7, <2>2, <2>3 DEF AgreementInv, UnheardGone
<1>13. ASSUME ~missed'
       PROVE  Accounted'
  <2>1. OpenOrders' = OpenOrders
    BY <1>2 DEF OpenOrders
  <2>2. ASSUME NEW other \in OpenOrders \ unheard, other # id
        PROVE  Whereabouts(other, sent', reports', resting')
    <3>1. Whereabouts(other, sent, reports, resting)
      BY <1>2, <1>13, <2>2 DEF AgreementInv, Accounted
    <3> QED BY <1>4, <1>7, <1>10, <2>2, <3>1 DEF Whereabouts
  <2> QED BY <2>1, <2>2 DEF Accounted
<1>14. PICK told : TradedAsTold(told)
  BY DEF AgreementInv
<1>15. Tells(told, orders, reports', resting')
  BY <1>2, <1>7, <1>8, <1>9, <1>14, ToldUnknown DEF TradedAsTold
<1>16. TradedAsTold(told)'
  BY <1>1, <1>2, <1>14, <1>15, TradedKept
<1> QED BY <1>11, <1>12, <1>13, <1>16 DEF AgreementInv

(* Nothing moves but messages on their way, and no new order goes missing. *)
LEMMA AgreementKept ==
  ASSUME AgreementInv, UNCHANGED <<tables, reports, resting, traded, missed, unheard>>,
         \A k \in DOMAIN sent : sent[k].action = "New" => \E j \in DOMAIN sent' : sent'[j] = sent[k],
         \A j \in DOMAIN sent' : \E k \in DOMAIN sent : sent'[j] = sent[k]
  PROVE  AgreementInv'
<1>1. NoReplaces'
  BY DEF AgreementInv, NoReplaces, tables
<1>2. OpenOrders' = OpenOrders
  BY DEF OpenOrders, tables
<1>3. ~missed' => Accounted'
  BY <1>2 DEF AgreementInv, Accounted, Whereabouts
<1>4. PICK told : TradedAsTold(told)
  BY DEF AgreementInv
<1>5. TradedAsTold(told)'
  BY <1>4, TradedKept DEF tables, TradedAsTold
<1>6. UnheardGone'
  BY DEF AgreementInv, UnheardGone, tables
<1> QED BY <1>1, <1>3, <1>5, <1>6 DEF AgreementInv

(* A new order is entered, and sent or missed. *)
LEMMA AgreementSubmits ==
  ASSUME EnableRiskChecks, LifeInv, AgreementInv, NEW r \in Requests, Accepts(r),
         orders' = [id \in DOMAIN orders \cup {nextOrderId} |->
                      IF id = nextOrderId THEN NewOrder(r) ELSE orders[id]],
         Send(<<NewMessage(r)>>),
         UNCHANGED <<reports, resting, traded, unheard>>
  PROVE  AgreementInv'
<1> DEFINE m == NewMessage(r)
           new == m.id
<1>1. /\ m \in Message /\ DOMAIN orders' = DOMAIN orders \cup {nextOrderId}
      /\ nextOrderId \notin DOMAIN orders
      /\ \A id \in DOMAIN orders : orders'[id] = orders[id]
      /\ orders'[nextOrderId] = NewOrder(r)
      /\ OpenOrders' = OpenOrders \cup {nextOrderId}
      /\ r.symbol \in Symbols
  BY Entered
<1>2. /\ m.id = nextOrderId /\ m.action = "New"
      /\ m.quantity = r.quantity /\ m.symbol = r.symbol /\ m.side = r.side
  BY DEF NewMessage
<1>3. sent \in Seq(Message) /\ missed \in BOOLEAN /\ nextOrderId \in Nat
  BY Tables DEF LifeInv, WireOK
<1> HIDE DEF m
<1>4. \/ sent' = sent /\ missed'
      \/ sent' = Append(sent, m) /\ missed' = missed
  <2>1. Send(<<m>>)
    BY DEF m
  <2> QED BY <1>1, <1>3, <2>1, SendOne
<1>5. Enters(orders', orders, m)
  BY <1>1, <1>2 DEF Enters, NewOrder
<1>6. Unknown(m.id, <<>>, reports, resting)
  <2>1. \A k \in DOMAIN reports : reports[k].id # m.id
    BY <1>2, <1>3 DEF LifeInv, WireOK
  <2>2. m.id \notin DOMAIN resting
    BY <1>2, <1>3 DEF LifeInv, WireOK
  <2> QED BY <2>1, <2>2 DEF Unknown
<1>7. /\ \A k \in DOMAIN sent : k \in DOMAIN sent' /\ sent'[k] = sent[k]
      /\ \A k \in DOMAIN sent' : (k \in DOMAIN sent /\ sent'[k] = sent[k]) \/ sent'[k] = m
      /\ ~missed' => \E k \in DOMAIN sent' : sent'[k] = m
  <2>1. CASE sent' = sent /\ missed'
    BY <2>1
  <2>2. CASE sent' = Append(sent, m)
    <3>1. /\ Len(sent) \in Nat
          /\ DOMAIN sent = 1 .. Len(sent) /\ DOMAIN sent' = 1 .. Len(sent) + 1
          /\ sent'[Len(sent) + 1] = m
          /\ \A k \in DOMAIN sent : sent'[k] = sent[k]
      BY <1>1, <1>3, <2>2, Grown
    <3>2. /\ Len(sent) + 1 \in DOMAIN sent' /\ DOMAIN sent \subseteq DOMAIN sent'
          /\ \A k \in DOMAIN sent' : k \in DOMAIN sent \/ k = Len(sent) + 1
      BY <3>1
    <3> QED BY <3>1, <3>2
  <2> QED BY <1>4, <2>1, <2>2
<1>8. NoReplaces'
  BY <1>1, <1>2, <1>7 DEF AgreementInv, NoReplaces
<1>9. ASSUME ~missed'
      PROVE  Accounted'
  <2>1. ~missed
    BY <1>4, <1>9
  <2>2. \A id \in OpenOrders \ unheard : Whereabouts(id, sent', reports', resting')
    BY <1>7, <2>1 DEF AgreementInv, Accounted, Whereabouts
  <2>3. Whereabouts(nextOrderId, sent', reports', resting')
    BY <1>2, <1>7, <1>9 DEF Whereabouts
  <2> QED BY <1>1, <2>2, <2>3 DEF Accounted
<1>10. PICK told : TradedAsTold(told)
  BY DEF AgreementInv
<1>11. PICK told2 : told2 = [id \in DOMAIN orders' |-> IF id = m.id THEN 0 ELSE told[id]]
  OBVIOUS
<1>12. /\ Tells(told2, orders', reports, resting)
       /\ told2[nextOrderId] = 0 /\ \A id \in DOMAIN orders : told2[id] = told[id]
  <2>1. Tells(told2, orders', reports, resting)
    BY <1>5, <1>6, <1>10, <1>11, ToldEnters DEF TradedAsTold
  <2> QED BY <1>1, <1>2, <1>11, <2>1
<1> DEFINE f == SignedTold(told)
           g == [id \in DOMAIN orders' |-> Signed(orders'[id].side, told2[id])]
<1>13. /\ \A id \in DOMAIN orders : f[id] \in Int /\ g[id] = f[id]
       /\ g[nextOrderId] = 0
  <2>1. told \in [DOMAIN orders -> Nat]
    BY <1>10 DEF TradedAsTold, Tells
  <2>2. \A id \in DOMAIN orders : f[id] = Signed(orders[id].side, told[id]) /\ f[id] \in Int
    BY <2>1 DEF SignedTold, Signed
  <2>3. \A id \in DOMAIN orders : g[id] = Signed(orders[id].side, told[id])
    BY <1>1, <1>12
  <2>4. g[nextOrderId] = Signed(orders'[nextOrderId].side, 0)
    BY <1>1, <1>12
  <2>5. Signed(orders'[nextOrderId].side, 0) = 0
    BY SignedZero
  <2> QED BY <2>2, <2>3, <2>4, <2>5
<1>14. /\ \A s : IsFiniteSet(Of(s)) /\ Of(s) \subseteq DOMAIN orders
       /\ \A s \in Symbols : traded[s] = SumFunctionOnSet(f, Of(s))
  BY <1>10, Terms DEF LifeInv, TradedAsTold
<1>15. \A s : Of(s)' = IF s = r.symbol THEN Of(s) \cup {nextOrderId} ELSE Of(s)
  <2>1. orders'[nextOrderId].symbol = r.symbol
    BY <1>1 DEF NewOrder
  <2> QED BY <1>1, <2>1 DEF Of
<1>16. SignedTold(told2)' = g
  BY DEF SignedTold
<1> HIDE DEF f, g
<1>17. ASSUME NEW s \in Symbols
       PROVE  traded[s] = SumFunctionOnSet(g, Of(s)')
  <2>1. \A x \in Of(s) : f[x] \in Int /\ g[x] = f[x]
    BY <1>13, <1>14
  <2>2. IsFiniteSet(Of(s)) /\ nextOrderId \notin Of(s)
    BY <1>1, <1>14
  <2>3. CASE s = r.symbol
    <3>1. g[nextOrderId] \in Int
      BY <1>13
    <3>2. /\ SumFunctionOnSet(g, Of(s) \cup {nextOrderId}) = SumFunctionOnSet(f, Of(s)) + g[nextOrderId]
          /\ SumFunctionOnSet(f, Of(s)) \in Int
      BY <2>1, <2>2, <3>1, SumAdds, Zenon
    <3>3. SumFunctionOnSet(g, Of(s) \cup {nextOrderId}) = SumFunctionOnSet(f, Of(s))
      BY <1>13, <3>2
    <3> QED BY <1>14, <1>15, <2>3, <3>3
  <2>4. CASE s # r.symbol
    <3>1. SumFunctionOnSet(g, Of(s)) = SumFunctionOnSet(f, Of(s))
      BY <2>1, <2>2, SumSame
    <3> QED BY <1>14, <1>15, <2>4, <3>1
  <2> QED BY <2>3, <2>4
<1>18. TradedAsTold(told2)'
  <2>1. Tells(told2, orders', reports', resting')
    BY <1>12
  <2>2. \A s \in Symbols : traded'[s] = SumFunctionOnSet(SignedTold(told2)', Of(s)')
    BY <1>16, <1>17
  <2> QED BY <2>1, <2>2 DEF TradedAsTold
<1>19. UnheardGone'
  BY <1>1, <1>2, <1>7 DEF AgreementInv, UnheardGone
<1> QED BY <1>8, <1>9, <1>18, <1>19 DEF AgreementInv

(* Open orders are marked as being cancelled, and the requests sent. *)
LEMMA AgreementAsksCancel ==
  ASSUME LifeInv, AgreementInv, NEW ids \in Seq(OpenOrders), Cancel(ids),
         UNCHANGED <<resting, traded, unheard>>
  PROVE  AgreementInv'
<1> DEFINE asked == {CancelMessages(ids)[i] : i \in DOMAIN CancelMessages(ids)}
<1>1. Marks(orders', orders) /\ OpenOrders' = OpenOrders
  BY Marked DEF LifeInv
<1>2. /\ CancelMessages(ids) \in Seq(Message)
      /\ \A m \in asked : m.action = "Cancel"
  BY CancelsWellFormed DEF LifeInv
<1>3. Send(CancelMessages(ids)) /\ UNCHANGED reports
  BY DEF Cancel
<1>4. sent \in Seq(Message) /\ missed \in BOOLEAN
  BY DEF LifeInv, WireOK
<1>5. /\ DOMAIN sent \subseteq DOMAIN sent' /\ Adds(sent', sent, asked)
      /\ missed => missed'
  BY <1>2, <1>3, <1>4, SendAdds
<1> HIDE DEF asked
<1>6. /\ \A k \in DOMAIN sent : k \in DOMAIN sent' /\ sent'[k] = sent[k]
      /\ \A k \in DOMAIN sent' : (k \in DOMAIN sent /\ sent'[k] = sent[k]) \/ sent'[k] \in asked
  BY <1>5 DEF Adds
<1>7. /\ DOMAIN orders' = DOMAIN orders
      /\ \A id \in DOMAIN orders :
           orders'[id].symbol = orders[id].symbol /\ orders'[id].side = orders[id].side
  BY <1>1 DEF Marks
<1>8. NoReplaces'
  BY <1>2, <1>6, <1>7 DEF AgreementInv, NoReplaces
<1>9. ~missed' => Accounted'
  BY <1>1, <1>3, <1>5, <1>6 DEF AgreementInv, Accounted, Whereabouts
<1>10. PICK told : TradedAsTold(told)
  BY DEF AgreementInv
<1>11. Tells(told, orders', reports, resting)
  BY <1>1, <1>10, ToldMarks DEF TradedAsTold
<1>12. TradedAsTold(told)'
  BY <1>3, <1>7, <1>10, <1>11, TradedKept
<1>13. UnheardGone'
  BY <1>2, <1>6, <1>7 DEF AgreementInv, UnheardGone
<1> QED BY <1>8, <1>9, <1>12, <1>13 DEF AgreementInv

(* A report is taken. *)
LEMMA AgreementTakes ==
  ASSUME LifeInv, AgreementInv, OnExecutionReport, UNCHANGED <<resting, traded, unheard>>
  PROVE  AgreementInv'
<1>1. /\ reports # <<>> /\ reports' = Tail(reports) /\ reports \in Seq(ExecutionReport)
      /\ Books(orders', orders, reports[1])
      /\ UNCHANGED <<missed, sent>>
  BY Booked DEF LifeInv, WireOK
<1>2. /\ DOMAIN orders' = DOMAIN orders
      /\ \A id \in DOMAIN orders :
           /\ id # reports[1].id => orders'[id] = orders[id]
           /\ orders'[id].symbol = orders[id].symbol /\ orders'[id].side = orders[id].side
      /\ reports[1].id \in DOMAIN orders =>
           orders'[reports[1].id].status = StatusOf(reports[1].execType)
  BY <1>1 DEF Books
<1>3. NoReplaces'
  BY <1>1, <1>2 DEF AgreementInv, NoReplaces
<1>4. PICK told : TradedAsTold(told)
  BY DEF AgreementInv
<1>5. Tells(told, orders', reports', resting')
  BY <1>1, <1>4, ToldBooks DEF TradedAsTold
<1>6. TradedAsTold(told)'
  BY <1>2, <1>4, <1>5, TradedKept
<1>7. \A k \in DOMAIN reports : k = 1 \/ \E j \in DOMAIN reports' : reports'[j] = reports[k]
  <2>1. /\ Len(reports) \in Nat \ {0} /\ DOMAIN reports = 1 .. Len(reports)
        /\ DOMAIN reports' = 1 .. Len(reports) - 1
        /\ \A k \in DOMAIN reports' : reports'[k] = reports[k + 1]
    BY <1>1, Shrunk
  <2>2. ASSUME NEW k \in DOMAIN reports, k # 1
        PROVE  \E j \in DOMAIN reports' : reports'[j] = reports[k]
    <3>1. k - 1 \in DOMAIN reports' /\ (k - 1) + 1 = k
      BY <2>1, <2>2
    <3> QED BY <2>1, <3>1
  <2> QED BY <2>2
<1>8. ASSUME ~missed'
      PROVE  Accounted'
  <2>1. ASSUME NEW id \in OpenOrders' \ unheard'
        PROVE  Whereabouts(id, sent', reports', resting')
    <3>1. id \in DOMAIN orders /\ orders'[id].status \in Active
      BY <1>2, <2>1 DEF OpenOrders
    <3>2. id \in OpenOrders \ unheard
      <4>1. CASE id = reports[1].id
        <5>1. orders[id].status \notin Terminal /\ orders[id] \in Order
          BY <1>1, <3>1, <4>1, Tables, Shrunk DEF LifeInv, Life, ReportsOpen
        <5> QED BY <2>1, <3>1, <5>1 DEF OpenOrders, Order, Statuses
      <4>2. CASE id # reports[1].id
        BY <1>2, <2>1, <3>1, <4>2 DEF OpenOrders
      <4> QED BY <4>1, <4>2
    <3>3. Whereabouts(id, sent, reports, resting)
      BY <1>1, <1>8, <3>2 DEF AgreementInv, Accounted
    <3>4. ASSUME NEW k \in DOMAIN reports, reports[k].id = id, reports[k].execType \in Terminal
          PROVE  \E j \in DOMAIN reports' : reports'[j] = reports[k]
      <4>1. CASE k = 1
        <5>1. orders'[id].status \in Terminal
          BY <1>2, <3>1, <3>4, <4>1 DEF StatusOf, Terminal
        <5> QED BY <3>1, <5>1 DEF Terminal, Active
      <4> QED BY <1>7, <4>1
    <3> QED BY <1>1, <3>3, <3>4 DEF Whereabouts
  <2> QED BY <2>1 DEF Accounted
<1>9. UnheardGone'
  BY <1>1, <1>2 DEF AgreementInv, UnheardGone
<1> QED BY <1>3, <1>6, <1>8, <1>9 DEF AgreementInv

(* To begin with, all is empty. *)
LEMMA AgreementInit ==
  ASSUME Init
  PROVE  AgreementInv
<1>1. orders = <<>> /\ sent = <<>> /\ reports = <<>> /\ resting = <<>>
  BY DEF Init, GatewayInit
<1>2. DOMAIN orders = {} /\ DOMAIN sent = {} /\ DOMAIN reports = {} /\ DOMAIN resting = {}
  BY <1>1
<1>3. NoReplaces
  BY <1>2 DEF NoReplaces
<1>4. Accounted
  BY <1>2 DEF Accounted, OpenOrders
<1>5. PICK told : told = [id \in {} |-> 0]
  OBVIOUS
<1>6. Tells(told, orders, reports, resting)
  BY <1>2, <1>5 DEF Tells
<1>7. \A s \in Symbols : traded[s] = 0 /\ Of(s) = {}
  BY <1>2 DEF Init, Of
<1>8. SumFunctionOnSet(SignedTold(told), {}) = 0
  BY SumEmpty
<1>9. TradedAsTold(told)
  BY <1>6, <1>7, <1>8 DEF TradedAsTold
<1>10. UnheardGone
  BY <1>2 DEF Init, UnheardGone
<1> QED BY <1>3, <1>4, <1>9, <1>10 DEF AgreementInv

(* Every step keeps both ends in agreement, if orders are not replaced and *)
(* there is room for what is reported.                                     *)
LEMMA AgreementStep ==
  ASSUME EnableRiskChecks, ReplaceQuantities = {}, LifeInv, AgreementInv, RoomForReports, [Next]_vars
  PROVE  AgreementInv'
<1>0. NoReplaces /\ UnheardGone
  BY DEF AgreementInv
<1>1. ASSUME UNCHANGED <<tables, sent, reports, resting, traded, missed, unheard>>
      PROVE  AgreementInv'
  BY <1>1, AgreementKept
<1>2. ASSUME GatewayNext, UNCHANGED <<resting, traded, unheard>>
      PROVE  AgreementInv'
  <2>1. CASE Tick
    BY <1>1, <1>2, <2>1 DEF Tick
  <2>2. ASSUME NEW r \in Requests, SubmitOrder(r)  PROVE AgreementInv'
    <3>1. CASE UNCHANGED <<tables, missed, sent>>
      BY <1>1, <1>2, <2>2, <3>1 DEF SubmitOrder
    <3>2. CASE Accepts(r) /\ ~UNCHANGED <<tables, missed, sent>>
      BY <1>2, <2>2, <3>2, AgreementSubmits DEF SubmitOrder, NewMessage
    <3> QED BY <2>2, <3>1, <3>2 DEF SubmitOrder
  <2>3. ASSUME NEW id, CancelOrder(id)  PROVE AgreementInv'
    <3>1. <<id>> \in Seq(OpenOrders) /\ Cancel(<<id>>)
      BY <2>3, CancelledAreOpen DEF LifeInv
    <3> QED BY <1>2, <3>1, AgreementAsksCancel
  <2>4. ASSUME NEW symbol \in Symbols, CancelAllOrders(symbol)  PROVE AgreementInv'
    <3>1. PICK ids \in Seq(OpenOrders) : Cancel(ids)
      BY <2>4, CancelledAreOpen DEF LifeInv
    <3> QED BY <1>2, <3>1, AgreementAsksCancel
  <2>5. CASE OnExecutionReport
    BY <1>2, <2>5, AgreementTakes
  <2> QED BY <1>2, <2>1, <2>2, <2>3, <2>4, <2>5 DEF GatewayNext
<1>3. CASE OnLogon \/ OnLogout \/ UNCHANGED vars
  BY <1>1, <1>3 DEF OnLogon, OnLogout, vars, gatewayVars, exchangeVars
<1>4. CASE AcceptOrder \/ RejectOrder
  BY <1>0, <1>4, NewTells, AgreementTold
<1>5. CASE HandleCancel
  <2> DEFINE m == Head(sent)
  <2>1. Receive("Cancel")
    BY <1>5 DEF HandleCancel
  <2>2. CASE UNCHANGED <<resting, unheard, reports>>
    <3>1. /\ sent[1].action = "Cancel" /\ UNCHANGED <<tables, missed, traded>>
          /\ \A k \in DOMAIN sent : k = 1 \/ \E j \in DOMAIN sent' : sent'[j] = sent[k]
          /\ \A j \in DOMAIN sent' : \E k \in DOMAIN sent : sent'[j] = sent[k]
      BY <2>1, Taken, TakenKeeps
    <3>2. \A k \in DOMAIN sent : sent[k].action = "New" => \E j \in DOMAIN sent' : sent'[j] = sent[k]
      BY <3>1
    <3> QED BY <2>2, <3>1, <3>2, AgreementKept
  <2>3. CASE /\ m.orig \in DOMAIN resting /\ resting' = Without(m.orig)
             /\ Report(m.orig, "Canceled", 0, resting[m.orig]) /\ UNCHANGED unheard
    <3>1. \E r : Tell(r)
      BY <1>0, <2>1, <2>3, CancelTells
    <3> QED BY <3>1, AgreementTold
  <2>4. CASE /\ m.orig \in DOMAIN resting /\ resting' = Without(m.orig)
             /\ Report(m.id, "Canceled", 0, resting[m.orig]) /\ unheard' = unheard \cup {m.orig}
    <3>1. m.id \notin DOMAIN orders /\ m.id \in Nat
      BY <2>1, RequestTaken
    <3> QED BY <2>1, <2>4, <3>1, AgreementUnheard
  <2> QED BY <1>5, <2>2, <2>3, <2>4 DEF HandleCancel
<1>6. CASE HandleReplace
  <2>1. 1 \in DOMAIN sent /\ sent[1].action = "Replace"
    BY <1>6, Taken DEF HandleReplace
  <2> QED BY <1>0, <2>1 DEF NoReplaces
<1>7. ASSUME NEW id \in DOMAIN resting, NEW quantity \in 1 .. resting[id].leaves, Fill(id, quantity)
      PROVE  AgreementInv'
  BY <1>0, <1>7, FillTells, AgreementTold
<1> QED BY <1>2, <1>3, <1>4, <1>5, <1>6, <1>7 DEF Next, Answer, exchangeVars

(* What the invariants come to when everything is processed. *)
LEMMA AgreementShows ==
  ASSUME LifeInv, AccountInv, AgreementInv
  PROVE  AgreesWithExchange
<1>1. PICK told : TradedAsTold(told)
  BY DEF AgreementInv
<1>2. ASSUME reports = <<>>
      PROVE  positions = traded
  <2>1. DOMAIN reports = {}
    BY <1>2
  <2>2. \A id \in DOMAIN orders : told[id] = orders[id].filledQty
    BY <1>1, <2>1 DEF TradedAsTold, Tells
  <2>3. SignedTold(told) = SignedFilled
    BY <2>2 DEF SignedTold, SignedFilled
  <2>4. \A s \in Symbols : positions[s] = traded[s]
    BY <1>1, <2>3 DEF TradedAsTold, AccountInv, Balanced, PositionIsFilledQuantity
  <2>5. positions \in [Symbols -> Int] /\ traded \in [Symbols -> Int]
    BY Tables DEF LifeInv, WireOK
  <2> QED BY <2>4, <2>5
<1>3. ASSUME ~missed, sent = <<>>, reports = <<>>
      PROVE  /\ OpenOrders \ unheard = DOMAIN resting
             /\ \A id \in DOMAIN resting : orders[id].remainingQty = resting[id].leaves
  <2>1. DOMAIN reports = {} /\ DOMAIN sent = {}
    BY <1>3
  <2>2. OpenOrders \ unheard \subseteq DOMAIN resting
    BY <1>3, <2>1 DEF AgreementInv, Accounted, Whereabouts
  <2>3. ASSUME NEW id \in DOMAIN resting
        PROVE  id \in OpenOrders \ unheard /\ orders[id].remainingQty = resting[id].leaves
    <3>1. id \in DOMAIN orders
      BY DEF AgreementInv, NoReplaces
    <3>2. orders[id].status \notin Terminal /\ orders[id] \in Order
      BY <3>1, Tables DEF LifeInv, Life, LiveIsOpen
    <3>3. id \in OpenOrders
      BY <3>1, <3>2 DEF OpenOrders, Order, Statuses
    <3>4. orders[id].remainingQty = resting[id].leaves
      BY <2>1, <3>1 DEF AccountInv, Account, NothingToTell
    <3>5. id \notin unheard
      BY DEF AgreementInv, UnheardGone
    <3> QED BY <3>3, <3>4, <3>5
  <2> QED BY <2>2, <2>3
<1> QED BY <1>2, <1>3 DEF AgreesWithExchange, PositionMatchesExchange, OpenOrdersMatchExchange

(* AgreesWithExchange: once everything under way is processed, gateway and *)
(* exchange agree about the positions and, if no message was missed, about *)
(* the open orders but for those whose cancellation was reported under the *)
(* id of the request, across any logouts (onExecutionReport, sendNewOrder, *)
(* sendCancelOrder), whatever a report that ends an order says is left of  *)
(* it.  The hypotheses are what the code needs for it: no order is         *)
(* replaced, and no report is dropped, by a full queue or for an OrderID   *)
(* that is not a number.                                                   *)
THEOREM BothEndsAgree ==
  ASSUME EnableRiskChecks, ReplaceQuantities = {}
  PROVE  Spec /\ []RoomForReports => []AgreesWithExchange
<1>1. Init => AgreementInv
  BY AgreementInit
<1>2. LifeInv /\ AgreementInv /\ RoomForReports /\ [Next]_vars => AgreementInv'
  BY AgreementStep
<1>3. LifeInv /\ AccountInv /\ AgreementInv => AgreesWithExchange
  BY AgreementShows
<1> QED BY <1>1, <1>2, <1>3, LifeInvariant, AccountInvariant, PTL DEF Spec
=============================================================================
