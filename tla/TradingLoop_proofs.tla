-------------------------- MODULE TradingLoop_proofs --------------------------
(***************************************************************************)
(* The way from the feed to the orders, for every set of symbols, every    *)
(* threshold, queue size and strategy parameter, and any number of         *)
(* messages, lost or not.                                                  *)
(*                                                                         *)
(* FeedInv says what is on the link and in the two queues.  HeardInv ties  *)
(* the last sequence numbers to the messages heard: what is still on the   *)
(* link comes after all of them.  HeldInv says that the two legs cancel.   *)
(* FlightInv, of an adapter's feed nothing of which was dropped, follows   *)
(* the venue's book through the messages under way: applied one after the  *)
(* other to the handler's books they give the venue's, and each of the     *)
(* books in between was quoted by the venue until its message was sent or  *)
(* later.                                                                  *)
(***************************************************************************)
EXTENDS TradingLoop, TLAPS

Side == {"Buy", "Sell"}
VenueOrder == [id : Nat \ {0}, side : Side, price : Int \ {NoPrice}]
Update ==
  [symbol : Symbols, type : {"Add", "Modify", "Delete"}, id : Nat \ {0}, side : Side,
   price : Int \ {NoPrice}, quantity : Nat]
FixEntry ==
  [symbol : Symbols, type : {"Add"}, side : {"Buy"}, price : {Min(Prices)}, quantity : {1}]
Message(content) ==
  [kind : {"incremental", "snapshot"}, seq : Nat \ {0}, sent : Nat, entries : Seq(content)]
Normalized ==
  [symbol : Symbols, seq : Nat \ {0}, sent : Nat, received : Nat,
   type : {"Add", "Modify", "Delete"}, id : Nat \ {0}, side : Side,
   price : Int \ {NoPrice}, quantity : Nat]
QueuedEntry ==
  [symbol : Symbols, type : {"Add"}, side : {"Buy"}, price : {Min(Prices)}, quantity : {1},
   received : Nat]

(* What is on the link, in order, and what each message carried. *)
WireOK ==
  /\ wire \in Seq(Message(IF way = "adapter" THEN Update ELSE FixEntry))
  /\ \A k \in DOMAIN wire :
       /\ wire[k].sent <= now /\ wire[k].seq <= Len(carried) /\ wire[k].entries # <<>>
       /\ wire[k].kind = "incremental" =>
            carried[wire[k].seq] = {e.symbol : e \in ToSet(wire[k].entries)}
  /\ \A j, k \in DOMAIN wire : j < k => wire[j].seq < wire[k].seq

(* One of the three ways is in use. *)
FeedInv ==
  /\ now \in Nat \ {0}
  /\ way \in {"adapter", "direct", "queued"}
  /\ carried \in Seq(SUBSET Symbols)
  /\ WireOK
  /\ mdQueue \in Seq(Normalized)
  /\ \A k \in DOMAIN mdQueue : mdQueue[k].sent <= now
  /\ entries \in Seq(QueuedEntry)
  /\ IF way = "adapter" THEN entries = <<>> ELSE mdQueue = <<>>

(* The venue's books: its next order has an id of its own. *)
VenueInv ==
  /\ venueBooks \in [Symbols -> SUBSET VenueOrder]
  /\ \A s \in Symbols : \A o \in venueBooks[s] : o.id < 100 + Len(carried)

-----------------------------------------------------------------------------
(* The two legs cancel, and the clock of the position runs with it. *)
HeldInv ==
  /\ spotPosition \in Int /\ futuresPosition \in Int
  /\ spotPosition + futuresPosition = 0
  /\ entryTime \in Nat
  /\ HoldingTimeMatchesPosition

(* A fill moves both legs; every other step leaves them, or clears them.   *)
LEMMA HeldNext ==
  ASSUME HeldInv, now \in Nat \ {0}, [Next]_vars
  PROVE  HeldInv'
<1> USE DEF HeldInv, HoldingTimeMatchesPosition
<1>1. CASE Fill
  <2> DEFINE direction == CASE lastSignal = "BuySpot" -> 1 [] lastSignal = "SellSpot" -> -1 [] OTHER -> 0
  <2>1. /\ spotPosition' = spotPosition + direction * 1
        /\ futuresPosition' = futuresPosition - direction * 1
        /\ entryTime' = IF spotPosition' = 0 /\ futuresPosition' = 0 THEN 0
                        ELSE IF direction # 0 /\ entryTime = 0 THEN now ELSE entryTime
    BY <1>1 DEF Fill, HandleOrderFill
  <2>2. direction \in {-1, 0, 1}
    OBVIOUS
  <2> HIDE DEF direction
  <2> QED BY <2>1, <2>2
<1>2. CASE NextMessage
  BY <1>2 DEF NextMessage, RunStrategy, OnMarketData, strategyVars
<1>3. CASE Control
  BY <1>3 DEF Control, Initialize, Stop, Pause, Resume, tracking
<1>4. CASE Tick \/ PublishUpdate \/ PublishFix \/ Lose \/ ReceiveByAdapter \/ ReceiveByFix
           \/ NextEntry \/ UNCHANGED vars
  BY <1>4 DEF Tick, PublishUpdate, PublishFix, Publish, Lose, ReceiveByAdapter, ReceiveByFix,
              NextEntry, vars, strategyVars
<1> QED BY <1>1, <1>2, <1>3, <1>4 DEF Next

-----------------------------------------------------------------------------
(* The link and the queues *)

(* What the venue publishes is an update of one of its orders, or a new    *)
(* order with the next id.                                                 *)
LEMMA UpdatesAreTyped ==
  ASSUME FeedInv, VenueInv, NEW u \in Updates
  PROVE  /\ u \in Update
         /\ \/ u.type = "Add" /\ u.id = 100 + Len(carried) /\ u.quantity = 1
            \/ u.type \in {"Modify", "Delete"} /\ \E o \in venueBooks[u.symbol] : o.id = u.id
         /\ u.type = "Delete" => u.quantity = 0
<1> USE DEF FeedInv, VenueInv, Update, VenueOrder, Side
<1>1. Len(carried) \in Nat
  OBVIOUS
<1>2. CASE \E s \in Symbols, side \in {"Buy", "Sell"}, price \in Prices :
             u = Change(s, "Add", [id |-> 100 + Len(carried), side |-> side, price |-> price], 1)
  BY <1>1, <1>2, FeedAssumption DEF Change
<1>3. CASE \E s \in Symbols : \E o \in venueBooks[s] :
             u \in {Change(s, "Modify", o, 2), Change(s, "Modify", o, 0), Change(s, "Delete", o, 0)}
  BY <1>3 DEF Change
<1> QED BY <1>2, <1>3 DEF Updates

(* What the fields of a message on the link are. *)
LEMMA OnTheLink ==
  ASSUME FeedInv
  PROVE  /\ Len(carried) \in Nat /\ Len(wire) \in Nat
         /\ DOMAIN wire = 1 .. Len(wire) /\ DOMAIN carried = 1 .. Len(carried)
         /\ \A k \in DOMAIN wire :
              /\ wire[k].seq \in 1 .. Len(carried) /\ wire[k].sent \in Nat
              /\ wire[k].kind \in {"incremental", "snapshot"}
              /\ wire[k].entries \in Seq(IF way = "adapter" THEN Update ELSE FixEntry)
<1> DEFINE content == IF way = "adapter" THEN Update ELSE FixEntry
<1>1. wire \in Seq(Message(content)) /\ carried \in Seq(SUBSET Symbols)
  BY DEF FeedInv, WireOK
<1>2. \A k \in DOMAIN wire : wire[k].seq <= Len(carried)
  BY DEF FeedInv, WireOK
<1> HIDE DEF content
<1>3. /\ Len(carried) \in Nat /\ Len(wire) \in Nat
      /\ DOMAIN wire = 1 .. Len(wire) /\ DOMAIN carried = 1 .. Len(carried)
      /\ \A k \in DOMAIN wire : wire[k] \in Message(content)
  BY <1>1
<1>4. \A k \in DOMAIN wire : /\ wire[k].seq \in Nat \ {0} /\ wire[k].sent \in Nat
                            /\ wire[k].kind \in {"incremental", "snapshot"}
                            /\ wire[k].entries \in Seq(content)
  BY <1>3 DEF Message
<1> QED BY <1>2, <1>3, <1>4 DEF content

(* A message published goes to the end of the link, with a number of its   *)
(* own.                                                                    *)
LEMMA PublishKeepsWire ==
  ASSUME FeedInv, NEW kind \in {"incremental", "snapshot"},
         NEW updates \in Seq(IF way = "adapter" THEN Update ELSE FixEntry),
         updates # <<>>, {u.symbol : u \in ToSet(updates)} \subseteq Symbols,
         Publish(kind, updates)
  PROVE  FeedInv'
<1> DEFINE f == [kind |-> kind, seq |-> Len(carried) + 1, sent |-> now, entries |-> updates]
           here == IF kind = "snapshot" THEN {} ELSE {u.symbol : u \in ToSet(updates)}
           content == IF way = "adapter" THEN Update ELSE FixEntry
<1> USE DEF FeedInv, WireOK
<1>1. /\ wire' = Append(wire, f) /\ carried' = Append(carried, here)
      /\ UNCHANGED <<now, mdQueue, entries, way>>
  BY DEF Publish, handlerVars
<1>2. f \in Message(content)
  BY DEF Message
<1>3. here \in SUBSET Symbols
  OBVIOUS
<1>4. /\ f.seq = Len(carried) + 1 /\ f.sent = now /\ f.entries # <<>>
      /\ f.kind = "incremental" => here = {u.symbol : u \in ToSet(f.entries)}
      /\ f.kind = kind
  OBVIOUS
<1> HIDE DEF f, here, content
<1>5. /\ wire \in Seq(Message(content)) /\ carried \in Seq(SUBSET Symbols)
      /\ wire' \in Seq(Message(content)) /\ carried' \in Seq(SUBSET Symbols)
      /\ Len(carried') = Len(carried) + 1 /\ carried'[Len(carried) + 1] = here
      /\ \A q \in 1 .. Len(carried) : carried'[q] = carried[q]
  BY <1>1, <1>2, <1>3 DEF content
<1>6. /\ Len(wire') = Len(wire) + 1 /\ wire'[Len(wire) + 1] = f
      /\ \A k \in 1 .. Len(wire) : wire'[k] = wire[k] /\ wire[k].seq \in Nat \ {0}
      /\ DOMAIN wire' = 1 .. Len(wire) + 1 /\ DOMAIN wire = 1 .. Len(wire) /\ Len(wire) \in Nat
  <2> HIDE DEF FeedInv, WireOK
  <2> QED BY <1>1, <1>2, <1>5, OnTheLink, SMTT(30)
<1>7. \A k \in DOMAIN wire' :
        /\ wire'[k].sent <= now' /\ wire'[k].seq <= Len(carried') /\ wire'[k].entries # <<>>
        /\ wire'[k].kind = "incremental" =>
             carried'[wire'[k].seq] = {e.symbol : e \in ToSet(wire'[k].entries)}
  <2> SUFFICES ASSUME NEW k \in DOMAIN wire'
               PROVE  /\ wire'[k].sent <= now' /\ wire'[k].seq <= Len(carried')
                      /\ wire'[k].entries # <<>>
                      /\ wire'[k].kind = "incremental" =>
                           carried'[wire'[k].seq] = {e.symbol : e \in ToSet(wire'[k].entries)}
    OBVIOUS
  <2>1. CASE k = Len(wire) + 1
    BY <2>1, <1>1, <1>4, <1>5, <1>6, SMTT(30)
  <2>2. CASE k \in DOMAIN wire
    <3> HIDE DEF FeedInv, WireOK
    <3>1. wire'[k] = wire[k] /\ wire[k].seq \in 1 .. Len(carried) /\ Len(carried) \in Nat
      BY <2>2, <1>6, OnTheLink
    <3>2. carried'[wire[k].seq] = carried[wire[k].seq] /\ wire[k].seq <= Len(carried')
      BY <3>1, <1>5
    <3> USE DEF FeedInv, WireOK
    <3> QED BY <3>1, <3>2, <2>2, <1>1
  <2> QED BY <2>1, <2>2, <1>6, SMTT(30)
<1>8. \A j, k \in DOMAIN wire' : j < k => wire'[j].seq < wire'[k].seq
  <2>1. \A k \in 1 .. Len(wire) : wire[k].seq < Len(carried) + 1
    <3> HIDE DEF FeedInv, WireOK
    <3> QED BY OnTheLink
  <2>2. \A j, k \in 1 .. Len(wire) : j < k => wire[j].seq < wire[k].seq
    BY <1>6
  <2> HIDE DEF FeedInv, WireOK
  <2> QED BY <2>1, <2>2, <1>4, <1>6
<1> QED BY <1>1, <1>5, <1>7, <1>8 DEF content

(* What is left on the link when its first message is gone. *)
LEMMA TailKeepsWire ==
  ASSUME FeedInv, wire # <<>>, wire' = Tail(wire), UNCHANGED <<now, way, carried>>
  PROVE  WireOK'
<1> DEFINE content == IF way = "adapter" THEN Update ELSE FixEntry
<1>1. wire \in Seq(Message(content))
  BY DEF FeedInv, WireOK
<1> HIDE DEF content
<1>2. /\ wire' \in Seq(Message(content))
      /\ DOMAIN wire' = 1 .. Len(wire) - 1 /\ DOMAIN wire = 1 .. Len(wire) /\ Len(wire) \in Nat
      /\ \A k \in DOMAIN wire' : wire'[k] = wire[k + 1] /\ k + 1 \in DOMAIN wire
  BY <1>1
<1>3. \A j, k \in DOMAIN wire : j < k => wire[j].seq < wire[k].seq
  BY DEF FeedInv, WireOK
<1>4. \A j, k \in DOMAIN wire' : j < k => wire'[j].seq < wire'[k].seq
  <2> SUFFICES ASSUME NEW j \in DOMAIN wire', NEW k \in DOMAIN wire', j < k
               PROVE  wire'[j].seq < wire'[k].seq
    OBVIOUS
  <2>1. j + 1 \in DOMAIN wire /\ k + 1 \in DOMAIN wire /\ j + 1 < k + 1
    BY <1>2
  <2> QED BY <2>1, <1>2, <1>3
<1>5. \A k \in DOMAIN wire' :
        /\ wire'[k].sent <= now' /\ wire'[k].seq <= Len(carried') /\ wire'[k].entries # <<>>
        /\ wire'[k].kind = "incremental" =>
             carried'[wire'[k].seq] = {e.symbol : e \in ToSet(wire'[k].entries)}
  <2>1. \A k \in DOMAIN wire :
          /\ wire[k].sent <= now /\ wire[k].seq <= Len(carried) /\ wire[k].entries # <<>>
          /\ wire[k].kind = "incremental" =>
               carried[wire[k].seq] = {e.symbol : e \in ToSet(wire[k].entries)}
    BY DEF FeedInv, WireOK
  <2> QED BY <2>1, <1>2, ZenonT(60)
<1>6. wire' \in Seq(Message(IF way' = "adapter" THEN Update ELSE FixEntry))
  BY <1>2 DEF content
<1> QED BY <1>4, <1>5, <1>6 DEF WireOK

(* Whatever happens, the link and the queues stay in order. *)
LEMMA FeedNext ==
  ASSUME FeedInv, VenueInv, [Next]_vars
  PROVE  FeedInv'
<1> USE DEF FeedInv
<1>1. CASE Tick
  <2>1. now' = now + 1 /\ UNCHANGED <<way, wire, carried, mdQueue, entries>>
    BY <1>1 DEF Tick, handlerVars, feedVars
  <2>2. \A k \in DOMAIN wire : wire[k].sent <= now + 1
    <3>1. \A k \in DOMAIN wire : wire[k].sent \in Nat
      <4> HIDE DEF FeedInv
      <4> QED BY OnTheLink
    <3>2. now \in Nat /\ \A k \in DOMAIN wire : wire[k].sent <= now
      BY DEF WireOK
    <3> QED BY <3>1, <3>2
  <2>3. \A k \in DOMAIN mdQueue : mdQueue[k].sent <= now + 1
    <3>1. \A k \in DOMAIN mdQueue : mdQueue[k] \in Normalized
      OBVIOUS
    <3>2. \A k \in DOMAIN mdQueue : mdQueue[k].sent \in Nat
      BY <3>1 DEF Normalized
    <3>3. now \in Nat /\ \A k \in DOMAIN mdQueue : mdQueue[k].sent <= now
      OBVIOUS
    <3> QED BY <3>2, <3>3
  <2>4. WireOK'
    <3>1. /\ wire \in Seq(Message(IF way = "adapter" THEN Update ELSE FixEntry))
          /\ \A k \in DOMAIN wire :
               /\ wire[k].seq <= Len(carried) /\ wire[k].entries # <<>>
               /\ wire[k].kind = "incremental" =>
                    carried[wire[k].seq] = {e.symbol : e \in ToSet(wire[k].entries)}
          /\ \A j, k \in DOMAIN wire : j < k => wire[j].seq < wire[k].seq
      BY DEF WireOK
    <3> QED BY <3>1, <2>1, <2>2 DEF WireOK
  <2> QED BY <2>1, <2>3, <2>4
<1>2. CASE PublishUpdate
  <2>1. way = "adapter"
    BY <1>2 DEF PublishUpdate
  <2>2. PICK u \in Updates : Publish("incremental", <<u>>)
    BY <1>2 DEF PublishUpdate
  <2>3. u \in Update
    BY UpdatesAreTyped
  <2>4. <<u>> \in Seq(Update) /\ <<u>> # <<>> /\ {x.symbol : x \in ToSet(<<u>>)} \subseteq Symbols
    BY <2>3 DEF ToSet, Update
  <2> QED BY <2>1, <2>2, <2>4, PublishKeepsWire
<1>3. CASE PublishFix
  <2>1. way # "adapter"
    BY <1>3 DEF PublishFix
  <2> DEFINE entry(s) == [symbol |-> s, type |-> "Add", side |-> "Buy",
                          price |-> Min(Prices), quantity |-> 1]
  <2>2. PICK kind \in {"incremental", "snapshot"}, s \in Symbols, t \in Symbols :
          Publish(kind, IF s = t THEN <<entry(s)>> ELSE <<entry(s), entry(t)>>)
    BY <1>3 DEF PublishFix
  <2>3. entry(s) \in FixEntry /\ entry(t) \in FixEntry
        /\ entry(s).symbol = s /\ entry(t).symbol = t
    BY DEF FixEntry
  <2> HIDE DEF entry
  <2>4. PICK updates : updates = IF s = t THEN <<entry(s)>> ELSE <<entry(s), entry(t)>>
    OBVIOUS
  <2>5. updates \in Seq(FixEntry) /\ updates # <<>>
        /\ {x.symbol : x \in ToSet(updates)} \subseteq Symbols
    BY <2>3, <2>4 DEF ToSet
  <2> QED BY <2>1, <2>2, <2>4, <2>5, PublishKeepsWire
<1>4. CASE Lose
  BY <1>4, TailKeepsWire DEF Lose, handlerVars
<1>5. CASE ReceiveByAdapter
  <2> DEFINE f == wire[1]
             u == f.entries[1]
             m == [symbol |-> u.symbol, seq |-> f.seq, sent |-> f.sent, received |-> now,
                   type |-> u.type, id |-> u.id, side |-> u.side, price |-> u.price,
                   quantity |-> u.quantity]
  <2>1. /\ way = "adapter" /\ wire # <<>> /\ wire' = Tail(wire)
        /\ mdQueue' = IF Len(mdQueue) < QueueSize THEN Append(mdQueue, m) ELSE mdQueue
        /\ UNCHANGED <<now, way, carried, entries>>
    BY <1>5 DEF ReceiveByAdapter, Enqueue
  <2>2. f \in Message(Update) /\ f.sent <= now /\ f.entries # <<>>
    BY <2>1 DEF WireOK
  <2>3. u \in Update
    BY <2>2 DEF Message
  <2>4. m \in Normalized /\ m.sent <= now
    BY <2>2, <2>3 DEF Message, Update, Normalized
  <2> HIDE DEF m, f, u
  <2>5. mdQueue' \in Seq(Normalized) /\ \A k \in DOMAIN mdQueue' : mdQueue'[k].sent <= now
    BY <2>1, <2>4
  <2> QED BY <2>1, <2>5, TailKeepsWire
<1>6. CASE ReceiveByFix
  <2>1. /\ way # "adapter" /\ wire # <<>> /\ wire' = Tail(wire)
        /\ UNCHANGED <<now, way, carried, mdQueue>>
    BY <1>6 DEF ReceiveByFix, QueueEntries, ProcessIncremental, ProcessSnapshot, handlerVars
  <2>2. entries' \in Seq(QueuedEntry)
    <3>1. CASE entries' = entries
      BY <3>1
    <3>2. CASE QueueEntries(Head(wire))
      <4> DEFINE f == Head(wire)
                 queued == [i \in DOMAIN f.entries |->
                             [symbol |-> f.entries[i].symbol,
                              type |-> IF f.kind = "snapshot" THEN "Add" ELSE f.entries[i].type,
                              side |-> f.entries[i].side, price |-> f.entries[i].price,
                              quantity |-> f.entries[i].quantity, received |-> now]]
                 n == Min({QueueSize - Len(entries), Len(queued)})
      <4>1. entries' = entries \o SubSeq(queued, 1, n)
        BY <3>2 DEF QueueEntries
      <4>2. f \in Message(FixEntry)
        BY <2>1 DEF WireOK
      <4>3. f.entries \in Seq(FixEntry)
        BY <4>2 DEF Message
      <4> HIDE DEF f
      <4>4. \A i \in DOMAIN f.entries : f.entries[i] \in FixEntry
        BY <4>3
      <4>5. queued \in Seq(QueuedEntry)
        <5>1. \A i \in DOMAIN f.entries : queued[i] \in QueuedEntry
          BY <4>4 DEF FixEntry, QueuedEntry
        <5>2. PICK l \in Nat : DOMAIN f.entries = 1 .. l
          BY <4>3
        <5>3. queued = [i \in 1 .. l |-> queued[i]]
          BY <5>2
        <5>4. \A i \in 1 .. l : queued[i] \in QueuedEntry
          BY <5>1, <5>2
        <5> HIDE DEF queued
        <5>5. queued \in [1 .. l -> QueuedEntry]
          BY <5>3, <5>4
        <5> QED BY <5>5
      <4> HIDE DEF queued
      <4>6. n \in Int /\ n <= Len(queued)
        <5>1. QueueSize - Len(entries) \in Int /\ Len(queued) \in Int
          BY <4>5, QueueSizeAssumption
        <5>2. \A a, b \in Int : Min({a, b}) \in Int /\ Min({a, b}) <= b
          <6> SUFFICES ASSUME NEW a \in Int, NEW b \in Int
                       PROVE  Min({a, b}) \in Int /\ Min({a, b}) <= b
            OBVIOUS
          <6>1. \E x \in {a, b} : \A y \in {a, b} : x <= y
            OBVIOUS
          <6> QED BY <6>1 DEF Min
        <5> QED BY <5>1, <5>2
      <4> HIDE DEF n
      <4>7. SubSeq(queued, 1, n) \in Seq(QueuedEntry)
        BY <4>5, <4>6
      <4> QED BY <4>1, <4>7
    <3> QED BY <1>6, <3>1, <3>2 DEF ReceiveByFix, ProcessIncremental, ProcessSnapshot, handlerVars
  <2> QED BY <2>1, <2>2, TailKeepsWire
<1>7. CASE NextMessage
  <2>1. mdQueue # <<>> /\ mdQueue' = Tail(mdQueue) /\ UNCHANGED <<now, way, carried, wire, entries>>
    BY <1>7 DEF NextMessage, ProcessNext, feedVars
  <2>2. mdQueue' \in Seq(Normalized) /\ \A k \in DOMAIN mdQueue' : mdQueue'[k].sent <= now
    BY <2>1
  <2>3. way = "adapter"
    BY <2>1
  <2> QED BY <2>1, <2>2, <2>3 DEF WireOK
<1>8. CASE NextEntry
  <2>1. entries # <<>> /\ entries' = Tail(entries) /\ UNCHANGED <<now, way, carried, wire, mdQueue>>
    BY <1>8 DEF NextEntry, ProcessEntry, feedVars
  <2>2. entries' \in Seq(QueuedEntry) /\ way # "adapter"
    BY <2>1
  <2> QED BY <2>1, <2>2 DEF WireOK
<1>9. CASE Fill \/ Control \/ UNCHANGED vars
  BY <1>9 DEF Fill, Control, WireOK, vars, handlerVars, feedVars
<1> QED BY <1>1, <1>2, <1>3, <1>4, <1>5, <1>6, <1>7, <1>8, <1>9 DEF Next

(* The venue's books stay books, and ids are not given out twice. *)
LEMMA VenueNext ==
  ASSUME FeedInv, VenueInv, [Next]_vars
  PROVE  VenueInv'
<1> USE DEF VenueInv
<1>1. CASE PublishUpdate
  <2>1. PICK u \in Updates : /\ Publish("incremental", <<u>>)
                             /\ venueBooks' = [venueBooks EXCEPT ![u.symbol] = AtVenue(@, u)]
    BY <1>1 DEF PublishUpdate
  <2>2. u \in Update /\ (u.type = "Add" => u.id = 100 + Len(carried))
    BY UpdatesAreTyped
  <2>3. Len(carried) \in Nat /\ Len(carried') = Len(carried) + 1
    BY <2>1 DEF FeedInv, Publish
  <2>4. /\ AtVenue(venueBooks[u.symbol], u) \in SUBSET VenueOrder
        /\ \A o \in AtVenue(venueBooks[u.symbol], u) : o.id < 100 + Len(carried')
    BY <2>2, <2>3 DEF AtVenue, Update, VenueOrder
  <2> HIDE DEF AtVenue
  <2>5. u.symbol \in Symbols
    BY <2>2 DEF Update
  <2>6. \A s \in Symbols : \A o \in venueBooks[s] : o.id < 100 + Len(carried')
    BY <2>3 DEF VenueOrder
  <2> QED BY <2>1, <2>4, <2>5, <2>6
<1>2. CASE PublishFix
  <2>1. Len(carried) \in Nat /\ Len(carried') = Len(carried) + 1 /\ UNCHANGED venueBooks
    BY <1>2 DEF FeedInv, PublishFix, Publish
  <2> QED BY <2>1 DEF VenueOrder
<1>3. UNCHANGED <<venueBooks, carried>> => VenueInv'
  OBVIOUS
<1> QED BY <1>1, <1>2, <1>3 DEF Next, vars, feedVars, Tick, Lose, ReceiveByAdapter, ReceiveByFix,
           NextMessage, NextEntry, Fill, Control

-----------------------------------------------------------------------------
(* Staleness *)

(* Each way to a book looks at the age of what it hands over. *)
LEMMA StaleNext ==
  ASSUME FeedInv, StaleNeverApplied, [Next]_vars
  PROVE  StaleNeverApplied'
<1>1. now \in Nat
  BY DEF FeedInv
<1>2. \A m : m.sent \in Nat /\ ~IsStale(m) => now - m.sent <= Threshold
  BY <1>1, ThresholdAssumption DEF IsStale
<1>3. ASSUME NEW m, m.sent \in Nat, ~IsStale(m), handed' = {[message |-> m, at |-> now]}
      PROVE  StaleNeverApplied'
  <2>1. \A h \in handed' : h.at = now /\ h.message = m
    BY <1>3
  <2>2. now - m.sent <= Threshold
    BY <1>2, <1>3
  <2> QED BY <2>1, <2>2 DEF StaleNeverApplied
<1>4. UNCHANGED handed => StaleNeverApplied'
  BY DEF StaleNeverApplied
<1>5. CASE ReceiveByFix
  <2> DEFINE f == Head(wire)
  <2>1. wire # <<>>
    BY <1>5 DEF ReceiveByFix
  <2>2. f = wire[1] /\ 1 \in DOMAIN wire /\ f.sent \in Nat
    BY <2>1, OnTheLink
  <2>3. f.entries \in Seq(IF way = "adapter" THEN Update ELSE FixEntry) /\ f.entries # <<>>
    BY <2>2, OnTheLink DEF FeedInv, WireOK
  <2> HIDE DEF f
  <2>4. CASE ProcessIncremental(f)
    <3> DEFINE u == [i \in DOMAIN f.entries |-> FromEntry(f.entries[i], f.seq, f.sent)]
    <3>1. CASE IsStale(f)
      BY <2>4, <3>1, <1>4 DEF ProcessIncremental, handlerVars
    <3>2. CASE ~IsStale(f)
      <4>1. handed' = {[message |-> Last(u), at |-> now]}
        BY <2>4, <3>2 DEF ProcessIncremental
      <4>2. PICK n \in Nat \ {0} : DOMAIN f.entries = 1 .. n
        BY <2>3
      <4>3. Len(u) = n
        BY <4>2
      <4>4. Last(u) = FromEntry(f.entries[n], f.seq, f.sent)
        BY <4>2, <4>3 DEF Last
      <4>5. Last(u).sent = f.sent
        BY <4>4 DEF FromEntry
      <4>6. ~IsStale(Last(u))
        BY <4>5, <3>2 DEF IsStale
      <4> HIDE DEF u
      <4> QED BY <4>1, <4>5, <4>6, <2>2, <1>3
    <3> QED BY <3>1, <3>2
  <2>5. CASE ProcessSnapshot(f)
    <3> DEFINE u == [FromEntry(Last(f.entries), 0, f.sent) EXCEPT !.type = "Snapshot"]
    <3>1. handed' = IF IsStale(f) THEN handed ELSE {[message |-> u, at |-> now]}
      BY <2>5 DEF ProcessSnapshot
    <3>2. u.sent = f.sent
      BY DEF FromEntry
    <3>3. IsStale(f) <=> IsStale(u)
      BY <3>2 DEF IsStale
    <3> HIDE DEF u
    <3> QED BY <3>1, <3>2, <3>3, <2>2, <1>3, <1>4
  <2>6. CASE QueueEntries(f)
    BY <2>6, <1>4 DEF QueueEntries
  <2> QED BY <1>5, <2>4, <2>5, <2>6 DEF ReceiveByFix, f
<1>6. CASE NextMessage
  <2> DEFINE m == Head(mdQueue)
  <2>1. mdQueue # <<>> /\ (IsStale(m) => handed' = handed)
        /\ (~IsStale(m) => handed' = {[message |-> m, at |-> now]})
    BY <1>6 DEF NextMessage, ProcessNext
  <2>2. m \in Normalized
    BY <2>1 DEF FeedInv
  <2>3. m.sent \in Nat
    BY <2>2 DEF Normalized
  <2> HIDE DEF m
  <2> QED BY <2>1, <2>3, <1>3, <1>4
<1>7. CASE NextEntry
  <2> DEFINE e == Head(entries)
             m == [FromEntry(e, 0, e.received) EXCEPT !.received = e.received]
  <2>1. entries # <<>> /\ (IsStale(m) => handed' = handed)
        /\ (~IsStale(m) => handed' = {[message |-> m, at |-> now]})
    BY <1>7 DEF NextEntry, ProcessEntry
  <2>2. e \in QueuedEntry
    BY <2>1 DEF FeedInv
  <2>3. m.sent \in Nat
    BY <2>2 DEF QueuedEntry, FromEntry
  <2> HIDE DEF m
  <2> QED BY <2>1, <2>3, <1>3, <1>4
<1>8. CASE ReceiveByAdapter
  BY <1>8, <1>4 DEF ReceiveByAdapter, Enqueue
<1> QED BY <1>4, <1>5, <1>6, <1>7, <1>8 DEF Next, vars, handlerVars, Tick, PublishUpdate, PublishFix,
           Publish, Lose, Fill, Control

-----------------------------------------------------------------------------
(* Sequence numbers *)

(* lastSeq is the last number heard with a symbol, what is on the link     *)
(* comes after it, and what never made it between two heard is a gap.      *)
HeardInv ==
  /\ heard \in [Symbols -> SUBSET Nat] /\ lastSeq \in [Symbols -> Nat]
  /\ \A s \in Symbols :
       /\ heard[s] \subseteq DOMAIN carried
       /\ \A q \in heard[s] : q <= lastSeq[s]
       /\ IF lastSeq[s] = 0 THEN heard[s] = {} ELSE lastSeq[s] \in heard[s]
       /\ \A k \in DOMAIN wire : lastSeq[s] < wire[k].seq
  /\ NoSilentLoss

(* What it takes for a step that checks no number. *)
LEMMA NothingHeard ==
  ASSUME FeedInv, HeardInv, UNCHANGED <<heard, lastSeq, gaps, carried>>,
         wire' = wire \/ (wire # <<>> /\ wire' = Tail(wire))
  PROVE  HeardInv'
<1>1. \A k \in DOMAIN wire' : \E j \in DOMAIN wire : wire'[k] = wire[j]
  <2>1. wire \in Seq(Message(IF way = "adapter" THEN Update ELSE FixEntry))
    BY DEF FeedInv, WireOK
  <2>2. CASE wire # <<>> /\ wire' = Tail(wire)
    <3>1. \A k \in DOMAIN wire' : k + 1 \in DOMAIN wire /\ wire'[k] = wire[k + 1]
      BY <2>1, <2>2
    <3> QED BY <3>1
  <2>3. CASE wire' = wire
    BY <2>3
  <2> QED BY <2>2, <2>3
<1>2. NoSilentLoss'
  BY DEF HeardInv, NoSilentLoss
<1> QED BY <1>1, <1>2 DEF HeardInv

(* A message sent has a number none before it has. *)
LEMMA PublishedUnheard ==
  ASSUME FeedInv, HeardInv, NEW kind, NEW updates, Publish(kind, updates)
  PROVE  HeardInv'
<1> DEFINE f == [kind |-> kind, seq |-> Len(carried) + 1, sent |-> now, entries |-> updates]
           here == IF kind = "snapshot" THEN {} ELSE {u.symbol : u \in ToSet(updates)}
<1>1. /\ wire' = Append(wire, f) /\ carried' = Append(carried, here)
      /\ UNCHANGED <<heard, lastSeq, gaps>>
  BY DEF Publish, handlerVars
<1>2. f.seq = Len(carried) + 1
  OBVIOUS
<1> HIDE DEF f, here
<1>3. carried \in Seq(SUBSET Symbols) /\ wire \in Seq(Message(IF way = "adapter" THEN Update ELSE FixEntry))
  BY DEF FeedInv, WireOK
<1>4. /\ DOMAIN carried = 1 .. Len(carried) /\ DOMAIN carried' = 1 .. Len(carried) + 1
      /\ Len(carried) \in Nat
      /\ \A q \in DOMAIN carried : carried'[q] = carried[q]
      /\ DOMAIN wire' = 1 .. Len(wire) + 1 /\ DOMAIN wire = 1 .. Len(wire) /\ Len(wire) \in Nat
      /\ \A k \in DOMAIN wire : wire'[k] = wire[k]
      /\ wire'[Len(wire) + 1] = f
  BY <1>1, <1>3
<1>5. ASSUME NEW s \in Symbols
      PROVE  /\ heard[s] \subseteq DOMAIN carried'
             /\ \A k \in DOMAIN wire' : lastSeq[s] < wire'[k].seq
  <2>1. heard[s] \subseteq 1 .. Len(carried) /\ lastSeq[s] <= Len(carried) /\ lastSeq[s] \in Nat
    BY <1>4 DEF HeardInv
  <2>2. \A k \in DOMAIN wire : lastSeq[s] < wire[k].seq
    BY DEF HeardInv
  <2> QED BY <2>1, <2>2, <1>2, <1>4
<1>6. NoSilentLoss'
  <2>1. \A s \in Symbols : \A q \in DOMAIN carried' : \A after \in heard[s] :
          q < after => q \in DOMAIN carried
    BY <1>4 DEF HeardInv
  <2>2. NoSilentLoss
    BY DEF HeardInv
  <2> QED BY <2>1, <2>2, <1>1, <1>4 DEF NoSilentLoss
<1> QED BY <1>1, <1>5, <1>6 DEF HeardInv

(* A message whose number is checked. *)
LEMMA HeardMore ==
  ASSUME FeedInv, HeardInv, NEW f, wire # <<>>, f = wire[1], f.kind = "incremental",
         NEW symbols, symbols = {e.symbol : e \in ToSet(f.entries)},
         CheckSequenceGap(symbols, f.seq), wire' = Tail(wire), UNCHANGED carried,
         heard' = [s \in Symbols |->
                    IF s \in carried[f.seq] THEN heard[s] \cup {f.seq} ELSE heard[s]]
  PROVE  HeardInv'
<1>1. /\ 1 \in DOMAIN wire /\ f.seq \in 1 .. Len(carried) /\ Len(carried) \in Nat
      /\ DOMAIN carried = 1 .. Len(carried)
  BY OnTheLink
<1>2. carried[f.seq] = symbols
  BY <1>1 DEF FeedInv, WireOK
<1>3. symbols \subseteq Symbols
  <2>1. carried \in Seq(SUBSET Symbols)
    BY DEF FeedInv
  <2> QED BY <2>1, <1>1, <1>2, SMTT(30)
<1>4. \A k \in DOMAIN wire' : \E j \in DOMAIN wire : 1 < j /\ wire'[k] = wire[j]
  <2>1. wire \in Seq(Message(IF way = "adapter" THEN Update ELSE FixEntry))
    BY DEF FeedInv, WireOK
  <2>2. \A k \in DOMAIN wire' : k + 1 \in DOMAIN wire /\ wire'[k] = wire[k + 1] /\ 1 < k + 1
    BY <2>1
  <2> QED BY <2>2
<1>5. \A k \in DOMAIN wire' : f.seq < wire'[k].seq
  BY <1>1, <1>4 DEF FeedInv, WireOK
<1>6. /\ lastSeq' = [s \in Symbols |-> IF s \in symbols THEN f.seq ELSE lastSeq[s]]
      /\ gaps \subseteq gaps'
      /\ \A s \in symbols : lastSeq[s] # 0 /\ f.seq > lastSeq[s] + 1 =>
           \E g \in gaps' : g.symbol = s /\ g.from = lastSeq[s] /\ g.to = f.seq
  <2>1. gaps' = gaps \cup {[symbol |-> s, from |-> lastSeq[s], to |-> f.seq,
                            large |-> f.seq - lastSeq[s] - 1 > MaxSequenceGap] :
                          s \in {x \in symbols : lastSeq[x] # 0 /\ f.seq > lastSeq[x] + 1}}
        /\ lastSeq' = [s \in Symbols |-> IF s \in symbols THEN f.seq ELSE lastSeq[s]]
    BY DEF CheckSequenceGap
  <2>2. ASSUME NEW s \in symbols, lastSeq[s] # 0 /\ f.seq > lastSeq[s] + 1
        PROVE  \E g \in gaps' : g.symbol = s /\ g.from = lastSeq[s] /\ g.to = f.seq
    <3> DEFINE g == [symbol |-> s, from |-> lastSeq[s], to |-> f.seq,
                     large |-> f.seq - lastSeq[s] - 1 > MaxSequenceGap]
    <3>1. g \in gaps'
      BY <2>1, <2>2
    <3>2. g.symbol = s /\ g.from = lastSeq[s] /\ g.to = f.seq
      OBVIOUS
    <3> HIDE DEF g
    <3> QED BY <3>1, <3>2
  <2> QED BY <2>1, <2>2
<1>7. \A s \in Symbols :
        /\ lastSeq[s] \in Nat /\ lastSeq[s] < f.seq
        /\ heard[s] \subseteq DOMAIN carried /\ heard[s] \subseteq Nat
        /\ \A q \in heard[s] : q <= lastSeq[s]
        /\ IF lastSeq[s] = 0 THEN heard[s] = {} ELSE lastSeq[s] \in heard[s]
        /\ \A k \in DOMAIN wire' : lastSeq[s] < wire'[k].seq
  BY <1>1, <1>4 DEF HeardInv
<1>8. \A s \in Symbols : /\ heard'[s] = IF s \in symbols THEN heard[s] \cup {f.seq} ELSE heard[s]
                         /\ lastSeq'[s] = IF s \in symbols THEN f.seq ELSE lastSeq[s]
  BY <1>2, <1>6
<1>9. /\ heard' \in [Symbols -> SUBSET Nat] /\ lastSeq' \in [Symbols -> Nat]
      /\ \A s \in Symbols :
           /\ heard'[s] \subseteq DOMAIN carried'
           /\ \A q \in heard'[s] : q <= lastSeq'[s]
           /\ IF lastSeq'[s] = 0 THEN heard'[s] = {} ELSE lastSeq'[s] \in heard'[s]
           /\ \A k \in DOMAIN wire' : lastSeq'[s] < wire'[k].seq
  <2>1. heard' \in [Symbols -> SUBSET Nat] /\ lastSeq' \in [Symbols -> Nat]
    BY <1>1, <1>2, <1>6, <1>7
  <2>2. ASSUME NEW s \in Symbols
        PROVE  /\ heard'[s] \subseteq DOMAIN carried'
               /\ \A q \in heard'[s] : q <= lastSeq'[s]
               /\ IF lastSeq'[s] = 0 THEN heard'[s] = {} ELSE lastSeq'[s] \in heard'[s]
               /\ \A k \in DOMAIN wire' : lastSeq'[s] < wire'[k].seq
    <3>1. CASE s \in symbols
      <4>1. heard'[s] = heard[s] \cup {f.seq} /\ lastSeq'[s] = f.seq /\ f.seq \in Nat \ {0}
        <5>1. heard'[s] = heard[s] \cup {f.seq} /\ lastSeq'[s] = f.seq
          BY <3>1, <1>8
        <5>2. f.seq \in Nat \ {0}
          BY <1>1
        <5> QED BY <5>1, <5>2
      <4>2. \A q \in heard[s] : q \in Nat /\ q <= lastSeq[s] /\ lastSeq[s] \in Nat /\ lastSeq[s] < f.seq
        BY <1>7
      <4>3. \A q \in heard'[s] : q <= lastSeq'[s]
        BY <4>1, <4>2
      <4>4. heard'[s] \subseteq DOMAIN carried'
        BY <4>1, <1>1, <1>7
      <4> QED BY <4>1, <4>3, <4>4, <1>5
    <3>2. CASE s \notin symbols
      BY <3>2, <1>7, <1>8
    <3> QED BY <3>1, <3>2
  <2> QED BY <2>1, <2>2
<1>10. NoSilentLoss'
  <2> SUFFICES ASSUME NEW s \in Symbols, NEW q \in DOMAIN carried, s \in carried[q],
                      q \notin heard'[s], NEW before \in heard'[s], NEW after \in heard'[s],
                      before < q, q < after
               PROVE  \E g \in gaps' : g.symbol = s /\ g.from < q /\ q < g.to
    BY DEF NoSilentLoss
  <2>1. q \in Nat /\ q \notin heard[s]
    BY <1>1, <1>8
  <2>2. NoSilentLoss
    BY DEF HeardInv
  <2>3. CASE after \in heard[s]
    <3>1. before \in heard[s]
      BY <2>1, <2>3, <1>1, <1>7, <1>8
    <3> QED BY <2>1, <2>2, <2>3, <3>1, <1>6 DEF NoSilentLoss
  <2>4. CASE after \notin heard[s]
    <3>1. s \in symbols /\ after = f.seq
      BY <2>4, <1>8
    <3>2. before \in heard[s]
      BY <3>1, <2>1, <1>1, <1>8
    <3>3. lastSeq[s] \in heard[s] /\ lastSeq[s] # 0 /\ lastSeq[s] # q
      BY <3>2, <2>1, <1>7
    <3>4. CASE q < lastSeq[s]
      BY <2>1, <2>2, <3>2, <3>3, <3>4, <1>6 DEF NoSilentLoss
    <3>5. CASE lastSeq[s] < q
      <4>1. f.seq > lastSeq[s] + 1
        BY <3>1, <3>5, <2>1, <1>1, <1>7
      <4> QED BY <4>1, <3>1, <3>3, <3>5, <1>6
    <3> QED BY <3>3, <3>4, <3>5, <2>1, <1>7
  <2> QED BY <2>3, <2>4
<1> QED BY <1>9, <1>10 DEF HeardInv

LEMMA HeardNext ==
  ASSUME FeedInv, HeardInv, [Next]_vars
  PROVE  HeardInv'
<1>1. CASE PublishUpdate \/ PublishFix
  <2>1. PICK kind, updates : Publish(kind, updates)
    BY <1>1 DEF PublishUpdate, PublishFix
  <2> QED BY <2>1, PublishedUnheard
<1>2. CASE ReceiveByFix
  <2> DEFINE f == Head(wire)
             checked == way = "direct" /\ f.kind = "incremental" /\ ~IsStale(f)
  <2>1. /\ way # "adapter" /\ wire # <<>> /\ wire' = Tail(wire) /\ UNCHANGED carried
        /\ heard' = [s \in Symbols |->
                      IF checked /\ s \in carried[f.seq] THEN heard[s] \cup {f.seq} ELSE heard[s]]
    BY <1>2 DEF ReceiveByFix
  <2>2. CASE checked
    <3>1. CheckSequenceGap({e.symbol : e \in ToSet(f.entries)}, f.seq)
      BY <1>2, <2>2 DEF ReceiveByFix, ProcessIncremental
    <3>2. f = wire[1] /\ f.kind = "incremental"
      BY <2>1, <2>2
    <3>3. heard' = [s \in Symbols |->
                     IF s \in carried[f.seq] THEN heard[s] \cup {f.seq} ELSE heard[s]]
      BY <2>1, <2>2
    <3> HIDE DEF f
    <3> QED BY <2>1, <3>1, <3>2, <3>3, HeardMore
  <2>3. CASE ~checked
    <3>1. heard' = heard
      BY <2>1, <2>3 DEF HeardInv
    <3>2. UNCHANGED <<lastSeq, gaps>>
      <4>1. CASE way = "direct" /\ f.kind = "incremental"
        <5>1. ProcessIncremental(f)
          BY <1>2, <4>1 DEF ReceiveByFix
        <5> QED BY <4>1, <5>1, <2>3 DEF ProcessIncremental, handlerVars
      <4>2. CASE ~(way = "direct" /\ f.kind = "incremental")
        BY <1>2, <4>2 DEF ReceiveByFix, ProcessSnapshot, QueueEntries
      <4> QED BY <4>1, <4>2
    <3> QED BY <2>1, <3>1, <3>2, NothingHeard
  <2> QED BY <2>2, <2>3
<1>3. CASE Lose
  BY <1>3, NothingHeard DEF Lose, handlerVars
<1>4. CASE ReceiveByAdapter
  BY <1>4, NothingHeard DEF ReceiveByAdapter, Enqueue
<1>5. CASE Tick \/ NextMessage \/ NextEntry \/ Fill \/ Control \/ UNCHANGED vars
  <2>1. UNCHANGED <<heard, lastSeq, gaps, carried>>
    BY <1>5 DEF Tick, NextMessage, ProcessNext, NextEntry, ProcessEntry, Fill, Control, vars,
       handlerVars, feedVars
  <2>2. wire' = wire
    BY <1>5 DEF Tick, NextMessage, NextEntry, Fill, Control, vars, feedVars
  <2> QED BY <2>1, <2>2, NothingHeard
<1> QED BY <1>1, <1>2, <1>3, <1>4, <1>5 DEF Next

-----------------------------------------------------------------------------
(* The messages under way *)

Bare(m) ==
  [symbol |-> m.symbol, type |-> m.type, id |-> m.id, side |-> m.side, price |-> m.price,
   quantity |-> m.quantity]

(* The updates in the queue and on the link, in order, and when each left. *)
UnderWay(queue, link) ==
  [i \in 1 .. Len(queue) + Len(link) |->
    IF i <= Len(queue) THEN [update |-> Bare(queue[i]), sent |-> queue[i].sent]
    ELSE [update |-> link[i - Len(queue)].entries[1], sent |-> link[i - Len(queue)].sent]]

(* The k-th quote was the venue's until t, or later. *)
Stood(qs, k, t) == k = Len(qs) \/ qs[k + 1].since >= t

(* The n updates lead from the handler's books to the venue's, through     *)
(* books the venue has quoted.                                             *)
Leads(updates, n, here, there, qs) ==
  \E p, k :
    /\ p[1] = here /\ p[n + 1] = there
    /\ \A i \in 1 .. n + 1 : k[i] \in DOMAIN qs /\ qs[k[i]].prices = BestPrices(p[i])
    /\ \A i \in 1 .. n : /\ p[i + 1] = OnMarketDataUpdate(p[i], updates[i].update)
                         /\ Stood(qs, k[i + 1], updates[i].sent)

QuoteRecord == [prices : {BestPrices(bs) : bs \in [Symbols -> SUBSET VenueOrder]}, since : Nat]

FlightInv ==
  /\ dropped \in BOOLEAN
  /\ Len(mdQueue) <= QueueSize
  /\ quoted \in Seq(QuoteRecord) /\ quoted # <<>>
  /\ Last(quoted).prices = BestPrices(venueBooks)
  /\ \A p \in pair : p.at \in Nat /\ p.at <= now
  /\ way # "adapter" => pair = {}
  /\ TradesOnFreshQuotesUnlessDropped
  /\ ~dropped /\ way = "adapter" =>
       Leads(UnderWay(mdQueue, wire), Len(mdQueue) + Len(wire), books, venueBooks, quoted)

(* A new quote leaves the others standing until it was made. *)
LEMMA QuotesGrow ==
  ASSUME NEW qs \in Seq(QuoteRecord), NEW q \in QuoteRecord, NEW new,
         new = qs \/ new = Append(qs, q), NEW k \in DOMAIN qs
  PROVE  /\ k \in DOMAIN new /\ new[k] = qs[k]
         /\ \A t \in Int : t <= q.since /\ Stood(qs, k, t) => Stood(new, k, t)
<1>1. CASE new = qs
  BY <1>1
<1>2. CASE new = Append(qs, q)
  <2>1. /\ DOMAIN qs = 1 .. Len(qs) /\ Len(qs) \in Nat /\ Len(new) = Len(qs) + 1
        /\ DOMAIN new = 1 .. Len(qs) + 1
        /\ new[Len(qs) + 1] = q /\ \A i \in DOMAIN qs : new[i] = qs[i]
    BY <1>2
  <2>2. q.since \in Nat
    BY DEF QuoteRecord
  <2>3. k = Len(qs) \/ k + 1 \in DOMAIN qs
    BY <2>1
  <2> QED BY <2>1, <2>2, <2>3 DEF Stood
<1> QED BY <1>1, <1>2

(* The venue applies one more update and sends it. *)
LEMMA LeadsOn ==
  ASSUME NEW n \in Nat, NEW updates, NEW more, NEW here, NEW there, NEW beyond,
         NEW qs \in Seq(QuoteRecord), NEW q \in QuoteRecord, NEW new,
         new = qs \/ new = Append(qs, q),
         Leads(updates, n, here, there, qs),
         \A i \in 1 .. n : more[i] = updates[i] /\ updates[i].sent \in Int
                           /\ updates[i].sent <= q.since,
         beyond = OnMarketDataUpdate(there, more[n + 1].update),
         new[Len(new)].prices = BestPrices(beyond)
  PROVE  Leads(more, n + 1, here, beyond, new)
<1>1. PICK p, k :
        /\ p[1] = here /\ p[n + 1] = there
        /\ \A i \in 1 .. n + 1 : k[i] \in DOMAIN qs /\ qs[k[i]].prices = BestPrices(p[i])
        /\ \A i \in 1 .. n : /\ p[i + 1] = OnMarketDataUpdate(p[i], updates[i].update)
                             /\ Stood(qs, k[i + 1], updates[i].sent)
  BY DEF Leads
<1>2. PICK p2 : p2 = [i \in 1 .. n + 2 |-> IF i = n + 2 THEN beyond ELSE p[i]]
  OBVIOUS
<1>3. PICK k2 : k2 = [i \in 1 .. n + 2 |-> IF i = n + 2 THEN Len(new) ELSE k[i]]
  OBVIOUS
<1>4. /\ p2[n + 2] = beyond /\ k2[n + 2] = Len(new)
      /\ \A i \in 1 .. n + 1 : p2[i] = p[i] /\ k2[i] = k[i]
  BY <1>2, <1>3
<1>5. 1 \in DOMAIN qs
  BY <1>1
<1>6. Len(new) \in DOMAIN new
  BY <1>5
<1>7. \A i \in 1 .. n + 2 : k2[i] \in DOMAIN new /\ new[k2[i]].prices = BestPrices(p2[i])
  <2> SUFFICES ASSUME NEW i \in 1 .. n + 2
               PROVE  k2[i] \in DOMAIN new /\ new[k2[i]].prices = BestPrices(p2[i])
    OBVIOUS
  <2>1. CASE i = n + 2
    BY <2>1, <1>4, <1>6
  <2>2. CASE i \in 1 .. n + 1
    <3>1. k[i] \in DOMAIN qs /\ qs[k[i]].prices = BestPrices(p[i])
      BY <2>2, <1>1
    <3>2. k[i] \in DOMAIN new /\ new[k[i]] = qs[k[i]]
      BY <3>1, QuotesGrow, SMTT(30)
    <3> QED BY <3>1, <3>2, <2>2, <1>4
  <2> QED BY <2>1, <2>2
<1>8. \A i \in 1 .. n + 1 : /\ p2[i + 1] = OnMarketDataUpdate(p2[i], more[i].update)
                            /\ Stood(new, k2[i + 1], more[i].sent)
  <2> SUFFICES ASSUME NEW i \in 1 .. n + 1
               PROVE  /\ p2[i + 1] = OnMarketDataUpdate(p2[i], more[i].update)
                      /\ Stood(new, k2[i + 1], more[i].sent)
    OBVIOUS
  <2>1. CASE i = n + 1
    <3>1. p2[i] = there /\ p2[i + 1] = beyond /\ k2[i + 1] = Len(new)
      BY <2>1, <1>1, <1>4
    <3> QED BY <2>1, <3>1 DEF Stood
  <2>2. CASE i \in 1 .. n
    <3>1. i + 1 \in 1 .. n + 1 /\ i \in 1 .. n + 1
      BY <2>2
    <3>2. k[i + 1] \in DOMAIN qs /\ Stood(qs, k[i + 1], updates[i].sent)
      BY <2>2, <3>1, <1>1
    <3>3. updates[i].sent \in Int /\ updates[i].sent <= q.since /\ more[i] = updates[i]
      BY <2>2
    <3>4. Stood(new, k[i + 1], updates[i].sent)
      BY <3>2, <3>3, QuotesGrow
    <3>5. p2[i + 1] = p[i + 1] /\ p2[i] = p[i] /\ k2[i + 1] = k[i + 1]
      BY <3>1, <1>4
    <3> QED BY <3>3, <3>4, <3>5, <2>2, <1>1
  <2> QED BY <2>1, <2>2
<1>9. n + 1 + 1 = n + 2 /\ 1 \in 1 .. n + 1
  OBVIOUS
<1>10. p2[1] = here /\ p2[n + 1 + 1] = beyond
  BY <1>1, <1>4, <1>9
<1>11. \A i \in 1 .. n + 1 + 1 : k2[i] \in DOMAIN new /\ new[k2[i]].prices = BestPrices(p2[i])
  BY <1>7, <1>9
<1> SUFFICES \E p3, k3 :
      /\ p3[1] = here /\ p3[n + 1 + 1] = beyond
      /\ \A i \in 1 .. n + 1 + 1 : k3[i] \in DOMAIN new /\ new[k3[i]].prices = BestPrices(p3[i])
      /\ \A i \in 1 .. n + 1 : /\ p3[i + 1] = OnMarketDataUpdate(p3[i], more[i].update)
                               /\ Stood(new, k3[i + 1], more[i].sent)
  BY Zenon DEF Leads
<1> WITNESS p2, k2
<1> QED BY <1>8, <1>10, <1>11, Zenon

(* The handler applies the first update: its books are those the venue     *)
(* quoted when it sent it.                                                 *)
LEMMA LeadsFrom ==
  ASSUME NEW n \in Nat \ {0}, NEW updates, NEW fewer, NEW here, NEW there, NEW qs,
         Leads(updates, n, here, there, qs),
         \A i \in 1 .. n - 1 : fewer[i] = updates[i + 1]
  PROVE  LET next == OnMarketDataUpdate(here, updates[1].update)
         IN  /\ Leads(fewer, n - 1, next, there, qs)
             /\ \E k \in DOMAIN qs : qs[k].prices = BestPrices(next) /\ Stood(qs, k, updates[1].sent)
<1>1. PICK p, k :
        /\ p[1] = here /\ p[n + 1] = there
        /\ \A i \in 1 .. n + 1 : k[i] \in DOMAIN qs /\ qs[k[i]].prices = BestPrices(p[i])
        /\ \A i \in 1 .. n : /\ p[i + 1] = OnMarketDataUpdate(p[i], updates[i].update)
                             /\ Stood(qs, k[i + 1], updates[i].sent)
  BY DEF Leads
<1>2. PICK next : next = OnMarketDataUpdate(here, updates[1].update)
  OBVIOUS
<1>3. 1 \in 1 .. n /\ 2 \in 1 .. n + 1 /\ 1 + 1 = 2
  OBVIOUS
<1>4. p[2] = next /\ k[2] \in DOMAIN qs /\ qs[k[2]].prices = BestPrices(next)
      /\ Stood(qs, k[2], updates[1].sent)
  BY <1>1, <1>2, <1>3
<1>5. PICK p2 : p2 = [i \in 1 .. n |-> p[i + 1]]
  OBVIOUS
<1>6. PICK k2 : k2 = [i \in 1 .. n |-> k[i + 1]]
  OBVIOUS
<1>7. /\ \A i \in 1 .. n : p2[i] = p[i + 1] /\ k2[i] = k[i + 1] /\ i + 1 \in 1 .. n + 1
      /\ \A i \in 1 .. n - 1 : i \in 1 .. n /\ i + 1 \in 1 .. n
      /\ n - 1 + 1 = n /\ n \in 1 .. n
  BY <1>5, <1>6
<1>8. p2[1] = next /\ p2[n - 1 + 1] = there
  BY <1>1, <1>3, <1>4, <1>7
<1>9. \A i \in 1 .. n - 1 + 1 : k2[i] \in DOMAIN qs /\ qs[k2[i]].prices = BestPrices(p2[i])
  BY <1>1, <1>7
<1>10. \A i \in 1 .. n - 1 : /\ p2[i + 1] = OnMarketDataUpdate(p2[i], fewer[i].update)
                             /\ Stood(qs, k2[i + 1], fewer[i].sent)
  <2> SUFFICES ASSUME NEW i \in 1 .. n - 1
               PROVE  /\ p2[i + 1] = OnMarketDataUpdate(p2[i], fewer[i].update)
                      /\ Stood(qs, k2[i + 1], fewer[i].sent)
    OBVIOUS
  <2>1. /\ p2[i] = p[i + 1] /\ p2[i + 1] = p[(i + 1) + 1] /\ k2[i + 1] = k[(i + 1) + 1]
        /\ i + 1 \in 1 .. n
    BY <1>7
  <2> QED BY <2>1, <1>1
<1>11. Leads(fewer, n - 1, next, there, qs)
  BY <1>8, <1>9, <1>10 DEF Leads
<1> QED BY <1>2, <1>4, <1>11

(* The book takes from a message what its update says. *)
LEMMA SameUpdate ==
  \A bs, m : OnMarketDataUpdate(bs, m) = OnMarketDataUpdate(bs, Bare(m))
BY DEF OnMarketDataUpdate, AfterUpdate, Accepts, Bare

(* The venue's own book does with an update what the handler's will.       *)
LEMMA VenueAgrees ==
  ASSUME FeedInv, VenueInv, NEW u \in Updates
  PROVE  [venueBooks EXCEPT ![u.symbol] = AtVenue(@, u)] = OnMarketDataUpdate(venueBooks, u)
<1>1. /\ u \in Update
      /\ \/ u.type = "Add" /\ u.id = 100 + Len(carried) /\ u.quantity = 1
         \/ u.type \in {"Modify", "Delete"} /\ \E o \in venueBooks[u.symbol] : o.id = u.id
      /\ u.type = "Delete" => u.quantity = 0
  BY UpdatesAreTyped
<1>2. /\ u.symbol \in Symbols /\ u.type \in {"Add", "Modify", "Delete"} /\ u.id \in Nat \ {0}
      /\ u.price # NoPrice /\ u.quantity \in Nat
  BY <1>1 DEF Update
<1>3. AtVenue(venueBooks[u.symbol], u) = AfterUpdate(venueBooks[u.symbol], u)
  <2>1. CASE u.type = "Add"
    <3>1. ~Holds(venueBooks[u.symbol], u.id)
      <4>1. Len(carried) \in Nat
        BY DEF FeedInv
      <4>2. \A o \in venueBooks[u.symbol] : o.id < 100 + Len(carried) /\ o.id \in Nat
        BY <1>2 DEF VenueInv, VenueOrder
      <4> QED BY <4>1, <4>2, <2>1, <1>1 DEF Holds
    <3>2. Accepts(venueBooks[u.symbol], u)
      BY <3>1, <2>1, <1>1, <1>2 DEF Accepts, NoId
    <3>3. AtVenue(venueBooks[u.symbol], u) =
            venueBooks[u.symbol] \cup {[id |-> u.id, side |-> u.side, price |-> u.price]}
      BY <2>1, <1>1 DEF AtVenue
    <3>4. AfterUpdate(venueBooks[u.symbol], u) =
            venueBooks[u.symbol] \cup {[id |-> u.id, side |-> u.side, price |-> u.price]}
      BY <3>2, <2>1 DEF AfterUpdate
    <3> QED BY <3>3, <3>4
  <2>2. CASE u.type \in {"Modify", "Delete"}
    <3>1. Accepts(venueBooks[u.symbol], u)
      BY <2>2, <1>1 DEF Accepts, Holds
    <3>2. u.type # "Add" /\ (u.type = "Modify" /\ u.quantity > 0 <=> u.quantity # 0)
      BY <2>2, <1>1, <1>2
    <3>3. CASE u.quantity = 0
      <4>1. AtVenue(venueBooks[u.symbol], u) = {o \in venueBooks[u.symbol] : o.id # u.id}
        BY <3>2, <3>3 DEF AtVenue
      <4>2. AfterUpdate(venueBooks[u.symbol], u) = {o \in venueBooks[u.symbol] : o.id # u.id}
        BY <3>1, <3>2, <3>3 DEF AfterUpdate, Without
      <4> QED BY <4>1, <4>2
    <3>4. CASE u.quantity # 0
      <4>1. AtVenue(venueBooks[u.symbol], u) = venueBooks[u.symbol]
        BY <3>2, <3>4 DEF AtVenue
      <4>2. AfterUpdate(venueBooks[u.symbol], u) = venueBooks[u.symbol]
        BY <3>1, <3>2, <3>4 DEF AfterUpdate
      <4> QED BY <4>1, <4>2
    <3> QED BY <3>3, <3>4
  <2> QED BY <2>1, <2>2, <1>2
<1> HIDE DEF AtVenue, AfterUpdate
<1> QED BY <1>2, <1>3 DEF OnMarketDataUpdate

(* The queue and the link are sequences, of messages sent by now. *)
LEMMA Queues ==
  ASSUME FeedInv
  PROVE  /\ now \in Nat
         /\ mdQueue \in Seq(Normalized) /\ Len(mdQueue) \in Nat
         /\ \A i \in 1 .. Len(mdQueue) : mdQueue[i].sent \in Nat /\ mdQueue[i].sent <= now
         /\ wire \in Seq(Message(IF way = "adapter" THEN Update ELSE FixEntry)) /\ Len(wire) \in Nat
         /\ \A i \in 1 .. Len(wire) : wire[i].sent \in Nat /\ wire[i].sent <= now
         /\ \A i \in 1 .. Len(mdQueue) + Len(wire) :
              LET u == UnderWay(mdQueue, wire)[i] IN u.sent \in Int /\ u.sent <= now
<1>1. now \in Nat /\ mdQueue \in Seq(Normalized) /\ Len(mdQueue) \in Nat
  BY DEF FeedInv
<1>2. \A i \in 1 .. Len(mdQueue) : mdQueue[i] \in Normalized
  BY <1>1
<1>3. \A i \in 1 .. Len(mdQueue) : mdQueue[i].sent \in Nat /\ mdQueue[i].sent <= now
  <2>1. DOMAIN mdQueue = 1 .. Len(mdQueue)
    BY <1>1
  <2> QED BY <1>2, <2>1 DEF Normalized, FeedInv
<1>4. wire \in Seq(Message(IF way = "adapter" THEN Update ELSE FixEntry)) /\ Len(wire) \in Nat
  BY OnTheLink DEF FeedInv, WireOK
<1>5. \A i \in 1 .. Len(wire) : wire[i].sent \in Nat /\ wire[i].sent <= now
  BY OnTheLink DEF FeedInv, WireOK
<1>6. ASSUME NEW i \in 1 .. Len(mdQueue) + Len(wire)
      PROVE  UnderWay(mdQueue, wire)[i].sent \in Int /\ UnderWay(mdQueue, wire)[i].sent <= now
  <2>1. CASE i <= Len(mdQueue)
    <3>1. UnderWay(mdQueue, wire)[i].sent = mdQueue[i].sent /\ i \in 1 .. Len(mdQueue)
      BY <1>1, <1>4, <2>1 DEF UnderWay
    <3> QED BY <3>1, <1>3
  <2>2. CASE i > Len(mdQueue)
    <3>1. UnderWay(mdQueue, wire)[i].sent = wire[i - Len(mdQueue)].sent
          /\ i - Len(mdQueue) \in 1 .. Len(wire)
      BY <1>1, <1>4, <2>2 DEF UnderWay
    <3> QED BY <3>1, <1>5
  <2> QED BY <1>1, <2>1, <2>2
<1> QED BY <1>1, <1>3, <1>4, <1>5, <1>6

(* A pair that traded on fresh quotes still did when there are more. *)
LEMMA FreshStaysFresh ==
  ASSUME quoted \in Seq(QuoteRecord), now \in Nat, NEW q \in QuoteRecord, q.since = now,
         quoted' = quoted \/ quoted' = Append(quoted, q),
         NEW p, p.at \in Nat, p.at <= now, FreshlyQuoted(p)
  PROVE  FreshlyQuoted(p)'
<1>1. PICK k \in DOMAIN quoted : quoted[k].prices = p.prices /\ Stood(quoted, k, p.at - Threshold)
  BY DEF FreshlyQuoted, Stood
<1>2. p.at - Threshold \in Int /\ p.at - Threshold <= q.since
  BY ThresholdAssumption
<1>3. k \in DOMAIN quoted' /\ quoted'[k].prices = p.prices /\ Stood(quoted', k, p.at - Threshold)
  BY <1>1, <1>2, QuotesGrow, SMTT(30)
<1> QED BY <1>3 DEF FreshlyQuoted, Stood

(* The venue publishes an update. *)
LEMMA FlightPublish ==
  ASSUME FeedInv, VenueInv, VenueInv', FlightInv, PublishUpdate
  PROVE  FlightInv'
<1>1. PICK u \in Updates : /\ Publish("incremental", <<u>>)
                           /\ venueBooks' = [venueBooks EXCEPT ![u.symbol] = AtVenue(@, u)]
  BY DEF PublishUpdate
<1>2. PICK q : q = [prices |-> BestPrices(venueBooks'), since |-> now]
  OBVIOUS
<1>3. now \in Nat /\ Len(mdQueue) \in Nat /\ Len(wire) \in Nat
  BY Queues
<1>4. q \in QuoteRecord /\ q.since = now /\ q.prices = BestPrices(venueBooks')
  <2>1. venueBooks' \in [Symbols -> SUBSET VenueOrder]
    BY DEF VenueInv
  <2> HIDE DEF BestPrices
  <2> QED BY <2>1, <1>2, <1>3 DEF QuoteRecord
<1>5. quoted \in Seq(QuoteRecord) /\ quoted # <<>>
  BY DEF FlightInv
<1>6. /\ quoted' = quoted \/ quoted' = Append(quoted, q)
      /\ quoted' \in Seq(QuoteRecord) /\ quoted' # <<>>
      /\ Last(quoted').prices = BestPrices(venueBooks')
  <2>1. quoted' = IF BestPrices(venueBooks') = Last(quoted).prices THEN quoted
                  ELSE Append(quoted, q)
    BY <1>2 DEF PublishUpdate
  <2>2. Append(quoted, q) \in Seq(QuoteRecord) /\ Append(quoted, q) # <<>>
        /\ Append(quoted, q)[Len(Append(quoted, q))] = q
    BY <1>4, <1>5
  <2> HIDE DEF BestPrices
  <2> QED BY <2>1, <2>2, <1>4, <1>5 DEF Last
<1>7. UNCHANGED <<now, way, mdQueue, books, dropped, pair>>
  BY <1>1 DEF Publish, handlerVars
<1>8. \A p \in pair : FreshlyQuoted(p) => FreshlyQuoted(p)'
  BY <1>3, <1>4, <1>5, <1>6, FreshStaysFresh DEF FlightInv
<1>9. TradesOnFreshQuotesUnlessDropped'
  BY <1>7, <1>8 DEF FlightInv, TradesOnFreshQuotesUnlessDropped, TradesOnFreshQuotes
<1>10. ASSUME ~dropped
       PROVE  Leads(UnderWay(mdQueue, wire'), Len(mdQueue) + Len(wire'), books, venueBooks', quoted')
  <2> DEFINE n == Len(mdQueue) + Len(wire)
             f == [kind |-> "incremental", seq |-> Len(carried) + 1, sent |-> now, entries |-> <<u>>]
             updates == UnderWay(mdQueue, wire)
             more == UnderWay(mdQueue, wire')
  <2>1. wire' = Append(wire, f)
    BY <1>1 DEF Publish
  <2>2. f.entries[1] = u
    OBVIOUS
  <2> HIDE DEF f
  <2>3. /\ Len(wire') = Len(wire) + 1 /\ wire'[Len(wire) + 1] = f
        /\ \A i \in 1 .. Len(wire) : wire'[i] = wire[i]
    BY <2>1, Queues
  <2>4. more[n + 1].update = u
    <3>1. n + 1 - Len(mdQueue) = Len(wire) + 1 /\ ~(n + 1 <= Len(mdQueue))
          /\ n + 1 \in 1 .. Len(mdQueue) + Len(wire')
      BY <1>3, <2>3
    <3>2. more[n + 1].update = wire'[n + 1 - Len(mdQueue)].entries[1]
      BY <3>1 DEF UnderWay
    <3> QED BY <3>1, <3>2, <2>2, <2>3
  <2>5. \A i \in 1 .. n : more[i] = updates[i]
    <3> SUFFICES ASSUME NEW i \in 1 .. n
                 PROVE  more[i] = updates[i]
      OBVIOUS
    <3>1. i \in 1 .. Len(mdQueue) + Len(wire') /\ i \in 1 .. Len(mdQueue) + Len(wire)
      BY <1>3, <2>3
    <3>2. CASE i <= Len(mdQueue)
      BY <3>1, <3>2 DEF UnderWay
    <3>3. CASE ~(i <= Len(mdQueue))
      <4>1. i - Len(mdQueue) \in 1 .. Len(wire)
        BY <3>1, <3>3, <1>3
      <4>2. wire'[i - Len(mdQueue)] = wire[i - Len(mdQueue)]
        BY <4>1, <2>3
      <4> QED BY <3>1, <3>3, <4>2 DEF UnderWay
    <3> QED BY <3>2, <3>3
  <2>6. \A i \in 1 .. n : updates[i].sent \in Int /\ updates[i].sent <= q.since
    BY Queues, <1>4
  <2>7. Leads(updates, n, books, venueBooks, quoted)
    <3>1. way = "adapter"
      BY DEF PublishUpdate
    <3> QED BY <3>1, <1>10 DEF FlightInv
  <2>8. venueBooks' = OnMarketDataUpdate(venueBooks, more[n + 1].update)
    BY <1>1, <2>4, VenueAgrees
  <2>9. quoted'[Len(quoted')].prices = BestPrices(venueBooks')
    BY <1>6 DEF Last
  <2>10. n \in Nat /\ Len(mdQueue) + Len(wire') = n + 1
    BY <1>3, <2>3
  <2> HIDE DEF n, updates, more
  <2>11. \A i \in 1 .. n : more[i] = updates[i] /\ updates[i].sent \in Int /\ updates[i].sent <= q.since
    BY <2>5, <2>6
  <2>12. Leads(more, n + 1, books, venueBooks', quoted')
    BY <2>7, <2>8, <2>9, <2>10, <2>11, <1>4, <1>5, <1>6, LeadsOn
  <2> QED BY <2>10, <2>12 DEF more
<1>11. \A p \in pair' : p.at \in Nat /\ p.at <= now'
  BY <1>7 DEF FlightInv
<1> QED BY <1>6, <1>7, <1>9, <1>10, <1>11 DEF FlightInv

(* A message moves from the link to the queue, or is gone. *)
LEMMA FlightReceive ==
  ASSUME FeedInv, FlightInv, ReceiveByAdapter
  PROVE  FlightInv'
<1> DEFINE f == Head(wire)
           u == f.entries[1]
           m == [symbol |-> u.symbol, seq |-> f.seq, sent |-> f.sent, received |-> now,
                 type |-> u.type, id |-> u.id, side |-> u.side, price |-> u.price,
                 quantity |-> u.quantity]
<1>1. /\ way = "adapter" /\ wire # <<>> /\ wire' = Tail(wire)
      /\ mdQueue' = IF Len(mdQueue) < QueueSize THEN Append(mdQueue, m) ELSE mdQueue
      /\ dropped' = (dropped \/ Len(mdQueue) = QueueSize)
      /\ UNCHANGED <<now, way, books, venueBooks, quoted, pair>>
  BY DEF ReceiveByAdapter, Enqueue
<1>2. /\ Len(mdQueue) \in Nat /\ Len(wire) \in Nat
      /\ wire \in Seq(Message(Update)) /\ mdQueue \in Seq(Normalized)
  BY <1>1, Queues
<1>3. dropped' \in BOOLEAN /\ (~dropped' => ~dropped)
  BY <1>1 DEF FlightInv
<1>4. TradesOnFreshQuotesUnlessDropped'
  BY <1>1, <1>3 DEF FlightInv, TradesOnFreshQuotesUnlessDropped, TradesOnFreshQuotes, FreshlyQuoted
<1>5. ASSUME Len(mdQueue) < QueueSize
      PROVE  /\ Len(mdQueue') + Len(wire') = Len(mdQueue) + Len(wire)
             /\ UnderWay(mdQueue', wire') = UnderWay(mdQueue, wire)
  <2>1. Bare(m) = u /\ m.sent = f.sent /\ f = wire[1]
    <3>1. f = wire[1] /\ f \in Message(Update) /\ f.entries # <<>>
      BY <1>1, <1>2 DEF FeedInv, WireOK
    <3>2. u \in Update
      BY <3>1 DEF Message
    <3> QED BY <3>1, <3>2 DEF Bare, Update
  <2>2. mdQueue' = Append(mdQueue, m)
    BY <1>1, <1>5
  <2> HIDE DEF m
  <2>3. /\ Len(mdQueue') = Len(mdQueue) + 1 /\ mdQueue'[Len(mdQueue) + 1] = m
        /\ \A i \in 1 .. Len(mdQueue) : mdQueue'[i] = mdQueue[i]
    BY <2>2, <1>2
  <2>4. /\ Len(wire') = Len(wire) - 1 /\ Len(wire) > 0
        /\ \A i \in 1 .. Len(wire) - 1 : wire'[i] = wire[i + 1]
    BY <1>1, <1>2
  <2>5. Len(mdQueue') + Len(wire') = Len(mdQueue) + Len(wire)
    BY <2>3, <2>4, <1>2
  <2>6. ASSUME NEW i \in 1 .. Len(mdQueue) + Len(wire)
        PROVE  UnderWay(mdQueue', wire')[i] = UnderWay(mdQueue, wire)[i]
    <3>1. i \in 1 .. Len(mdQueue') + Len(wire')
      BY <2>5, <1>2
    <3>2. CASE i <= Len(mdQueue)
      <4>1. i \in 1 .. Len(mdQueue) /\ i <= Len(mdQueue') /\ mdQueue'[i] = mdQueue[i]
        BY <3>2, <2>3, <1>2
      <4> QED BY <3>1, <3>2, <4>1 DEF UnderWay
    <3>3. CASE i = Len(mdQueue) + 1
      <4>1. /\ UnderWay(mdQueue', wire')[i] = [update |-> Bare(m), sent |-> m.sent]
            /\ UnderWay(mdQueue, wire)[i] =
                 [update |-> wire[i - Len(mdQueue)].entries[1], sent |-> wire[i - Len(mdQueue)].sent]
        BY <3>1, <3>3, <2>3, <1>2 DEF UnderWay
      <4>2. i - Len(mdQueue) = 1
        BY <3>3, <1>2
      <4> QED BY <4>1, <4>2, <2>1
    <3>4. CASE i > Len(mdQueue) + 1
      <4>1. /\ i - Len(mdQueue') \in 1 .. Len(wire) - 1 /\ ~(i <= Len(mdQueue'))
            /\ ~(i <= Len(mdQueue)) /\ i - Len(mdQueue) = i - Len(mdQueue') + 1
        BY <3>4, <2>3, <2>4, <1>2
      <4>2. wire'[i - Len(mdQueue')] = wire[i - Len(mdQueue)]
        BY <4>1, <2>4
      <4> QED BY <3>1, <4>1, <4>2 DEF UnderWay
    <3> QED BY <3>2, <3>3, <3>4, <1>2
  <2>7. UnderWay(mdQueue', wire') = UnderWay(mdQueue, wire)
    <3>1. /\ UnderWay(mdQueue', wire') =
               [i \in 1 .. Len(mdQueue) + Len(wire) |-> UnderWay(mdQueue', wire')[i]]
          /\ UnderWay(mdQueue, wire) =
               [i \in 1 .. Len(mdQueue) + Len(wire) |-> UnderWay(mdQueue, wire)[i]]
      BY <2>5 DEF UnderWay
    <3> HIDE DEF UnderWay
    <3> QED BY <3>1, <2>6
  <2> QED BY <2>5, <2>7
<1>6. ASSUME ~dropped'
      PROVE  Leads(UnderWay(mdQueue', wire'), Len(mdQueue') + Len(wire'), books', venueBooks', quoted')
  <2>1. Len(mdQueue) < QueueSize \/ mdQueue' = mdQueue
    BY <1>1
  <2>2. CASE Len(mdQueue) < QueueSize
    BY <2>2, <1>1, <1>3, <1>5, <1>6 DEF FlightInv
  <2>3. CASE Len(mdQueue) = QueueSize
    BY <2>3, <1>1, <1>6
  <2>4. Len(mdQueue) <= QueueSize
    BY DEF FlightInv
  <2> QED BY <2>2, <2>3, <2>4, <1>2, QueueSizeAssumption
<1>7. quoted' \in Seq(QuoteRecord) /\ quoted' # <<>> /\ Last(quoted').prices = BestPrices(venueBooks')
  BY <1>1 DEF FlightInv, BestPrices
<1>8. \A p \in pair' : p.at \in Nat /\ p.at <= now'
  BY <1>1 DEF FlightInv
<1>9. Len(mdQueue') <= QueueSize
  <2>1. Len(mdQueue) <= QueueSize
    BY DEF FlightInv
  <2> HIDE DEF m
  <2>2. Len(Append(mdQueue, m)) = Len(mdQueue) + 1
    BY <1>2
  <2> QED BY <2>1, <2>2, <1>1, <1>2, QueueSizeAssumption
<1> QED BY <1>1, <1>3, <1>4, <1>6, <1>7, <1>8, <1>9 DEF FlightInv

(* A message reaches its book, and the strategy runs on the books as they  *)
(* then are: those the venue quoted when it sent the message, no longer    *)
(* ago than the threshold.                                                 *)
LEMMA FlightProcess ==
  ASSUME FeedInv, FlightInv, NextMessage
  PROVE  FlightInv'
<1> DEFINE m == Head(mdQueue)
           n == Len(mdQueue) + Len(wire)
<1>1. /\ mdQueue # <<>> /\ mdQueue' = Tail(mdQueue)
      /\ dropped' = (dropped \/ IsStale(m))
      /\ ~IsStale(m) => books' = OnMarketDataUpdate(books, m)
      /\ UNCHANGED <<now, way, wire, venueBooks, quoted>>
  BY DEF NextMessage, ProcessNext, feedVars
<1>2. way = "adapter"
  BY <1>1 DEF FeedInv
<1>3. /\ now \in Nat /\ Len(mdQueue) \in Nat \ {0} /\ Len(wire) \in Nat
      /\ mdQueue \in Seq(Normalized) /\ m = mdQueue[1]
      /\ m.sent \in Nat
  <2>1. mdQueue \in Seq(Normalized) /\ Len(mdQueue) \in Nat /\ now \in Nat /\ Len(wire) \in Nat
    BY Queues
  <2>2. Len(mdQueue) \in Nat \ {0} /\ m = mdQueue[1]
    BY <1>1, <2>1
  <2>3. 1 \in 1 .. Len(mdQueue)
    BY <2>2
  <2>4. mdQueue[1].sent \in Nat
    BY <2>3, Queues
  <2> QED BY <2>1, <2>2, <2>4
<1> HIDE DEF m
<1>4. dropped' \in BOOLEAN /\ (~dropped' => ~dropped /\ ~IsStale(m))
  BY <1>1 DEF FlightInv
<1>5. /\ Len(mdQueue') = Len(mdQueue) - 1
      /\ \A i \in 1 .. Len(mdQueue) - 1 : mdQueue'[i] = mdQueue[i + 1]
  BY <1>1, <1>3
<1>6. /\ UnderWay(mdQueue, wire)[1] = [update |-> Bare(m), sent |-> m.sent]
      /\ \A i \in 1 .. n - 1 : UnderWay(mdQueue', wire)[i] = UnderWay(mdQueue, wire)[i + 1]
  <2>1. 1 \in 1 .. n /\ 1 <= Len(mdQueue)
    BY <1>3
  <2>2. UnderWay(mdQueue, wire)[1] = [update |-> Bare(m), sent |-> m.sent]
    BY <1>3, <2>1 DEF UnderWay
  <2>3. ASSUME NEW i \in 1 .. n - 1
        PROVE  UnderWay(mdQueue', wire)[i] = UnderWay(mdQueue, wire)[i + 1]
    <3>1. i \in 1 .. Len(mdQueue') + Len(wire) /\ i + 1 \in 1 .. Len(mdQueue) + Len(wire)
      BY <1>3, <1>5
    <3>2. CASE i <= Len(mdQueue) - 1
      <4>1. i <= Len(mdQueue') /\ i + 1 <= Len(mdQueue) /\ mdQueue'[i] = mdQueue[i + 1]
        BY <3>1, <3>2, <1>3, <1>5
      <4> QED BY <3>1, <4>1 DEF UnderWay
    <3>3. CASE i > Len(mdQueue) - 1
      <4>1. ~(i <= Len(mdQueue')) /\ ~(i + 1 <= Len(mdQueue))
            /\ i - Len(mdQueue') = i + 1 - Len(mdQueue)
        BY <3>1, <3>3, <1>3, <1>5
      <4> QED BY <3>1, <4>1 DEF UnderWay
    <3> QED BY <3>1, <3>2, <3>3, <1>3
  <2> QED BY <2>2, <2>3
<1>7. ASSUME ~dropped'
      PROVE  /\ Leads(UnderWay(mdQueue', wire), n - 1, books', venueBooks, quoted)
             /\ \E k \in DOMAIN quoted : /\ quoted[k].prices = BestPrices(books')
                                         /\ Stood(quoted, k, m.sent)
  <2>1. Leads(UnderWay(mdQueue, wire), n, books, venueBooks, quoted)
    BY <1>2, <1>4, <1>7 DEF FlightInv
  <2>2. books' = OnMarketDataUpdate(books, UnderWay(mdQueue, wire)[1].update)
    BY <1>1, <1>4, <1>6, <1>7, SameUpdate
  <2>3. n \in Nat \ {0} /\ UnderWay(mdQueue, wire)[1].sent = m.sent
    BY <1>3, <1>6
  <2>4. PICK updates, fewer : updates = UnderWay(mdQueue, wire) /\ fewer = UnderWay(mdQueue', wire)
    OBVIOUS
  <2> HIDE DEF n
  <2>5. \A i \in 1 .. n - 1 : fewer[i] = updates[i + 1]
    BY <1>6, <2>4
  <2>6. /\ Leads(fewer, n - 1, OnMarketDataUpdate(books, updates[1].update), venueBooks, quoted)
        /\ \E k \in DOMAIN quoted :
             /\ quoted[k].prices = BestPrices(OnMarketDataUpdate(books, updates[1].update))
             /\ Stood(quoted, k, updates[1].sent)
    BY <2>1, <2>3, <2>4, <2>5, LeadsFrom
  <2> QED BY <2>2, <2>3, <2>4, <2>6
<1>8. ASSUME NEW p \in pair', p \notin pair
      PROVE  p.at = now /\ p.prices = BestPrices(books')
  <2>1. \/ pair' = pair
        \/ \E os, pos : pair' = {[orders |-> os, prices |-> BestPrices(books'),
                                  position |-> pos, at |-> now]}
    <3> HIDE DEF BestPrices
    <3> QED BY DEF NextMessage, RunStrategy
  <2> HIDE DEF BestPrices
  <2> QED BY <1>8, <2>1
<1>9. \A p \in pair' : p.at \in Nat /\ p.at <= now'
  BY <1>1, <1>3, <1>8 DEF FlightInv
<1>10. TradesOnFreshQuotesUnlessDropped'
  <2> SUFFICES ASSUME ~dropped', NEW p \in pair'
               PROVE  FreshlyQuoted(p)'
    BY DEF TradesOnFreshQuotesUnlessDropped, TradesOnFreshQuotes
  <2>1. CASE p \in pair
    <3>1. FreshlyQuoted(p)
      BY <2>1, <1>4 DEF FlightInv, TradesOnFreshQuotesUnlessDropped, TradesOnFreshQuotes
    <3> QED BY <3>1, <1>1 DEF FreshlyQuoted
  <2>2. CASE p \notin pair
    <3>1. PICK k \in DOMAIN quoted : quoted[k].prices = BestPrices(books') /\ Stood(quoted, k, m.sent)
      BY <1>7
    <3>2. p.at = now /\ p.prices = BestPrices(books')
      BY <2>2, <1>8
    <3>3. m.sent >= p.at - Threshold /\ m.sent \in Int /\ p.at - Threshold \in Int
      BY <3>2, <1>3, <1>4, ThresholdAssumption DEF IsStale
    <3>4. k = Len(quoted) \/ quoted[k + 1].since >= p.at - Threshold
      <4>1. ASSUME k # Len(quoted)
            PROVE  quoted[k + 1].since >= p.at - Threshold
        <5>1. quoted \in Seq(QuoteRecord)
          BY DEF FlightInv
        <5>2. k + 1 \in DOMAIN quoted
          BY <4>1, <5>1
        <5>3. quoted[k + 1] \in QuoteRecord
          BY <5>1, <5>2
        <5>4. quoted[k + 1].since \in Nat
          BY <5>3 DEF QuoteRecord
        <5> QED BY <3>1, <3>3, <4>1, <5>4 DEF Stood
      <4> QED BY <4>1
    <3> HIDE DEF BestPrices
    <3> QED BY <3>1, <3>2, <3>4, <1>1 DEF FreshlyQuoted
  <2> QED BY <2>1, <2>2
<1>11. Len(mdQueue') + Len(wire) = n - 1 /\ Len(mdQueue') <= QueueSize
  BY <1>3, <1>5, QueueSizeAssumption DEF FlightInv
<1>12. quoted' \in Seq(QuoteRecord) /\ quoted' # <<>> /\ Last(quoted').prices = BestPrices(venueBooks')
  BY <1>1 DEF FlightInv, BestPrices
<1> QED BY <1>1, <1>2, <1>4, <1>7, <1>9, <1>10, <1>11, <1>12 DEF FlightInv

(* Every other step leaves the books and what is under way to them alone,  *)
(* or drops something, or is of another way.                               *)
LEMMA FlightNext ==
  ASSUME FeedInv, VenueInv, VenueInv', FlightInv, [Next]_vars
  PROVE  FlightInv'
<1>1. ASSUME UNCHANGED <<way, venueBooks, quoted, pair>>, now' \in {now, now + 1},
             mdQueue' = mdQueue, dropped' \in BOOLEAN, dropped => dropped',
             ~dropped' /\ way = "adapter" => UNCHANGED <<wire, books>>
      PROVE  FlightInv'
  <2>1. \A p \in pair' : p.at \in Nat /\ p.at <= now'
    BY <1>1, Queues DEF FlightInv
  <2>2. TradesOnFreshQuotesUnlessDropped'
    BY <1>1 DEF FlightInv, TradesOnFreshQuotesUnlessDropped, TradesOnFreshQuotes, FreshlyQuoted
  <2>3. quoted' \in Seq(QuoteRecord) /\ quoted' # <<>> /\ Last(quoted').prices = BestPrices(venueBooks')
    BY <1>1 DEF FlightInv, BestPrices
  <2>4. ~dropped' /\ way' = "adapter" =>
          Leads(UnderWay(mdQueue', wire'), Len(mdQueue') + Len(wire'), books', venueBooks', quoted')
    BY <1>1 DEF FlightInv
  <2>5. Len(mdQueue') <= QueueSize /\ (way' # "adapter" => pair' = {})
    BY <1>1 DEF FlightInv
  <2> QED BY <1>1, <2>1, <2>2, <2>3, <2>4, <2>5 DEF FlightInv
<1>2. dropped \in BOOLEAN
  BY DEF FlightInv
<1>3. CASE Tick \/ Fill \/ Control \/ UNCHANGED vars
  <2>1. UNCHANGED <<way, venueBooks, quoted, pair, mdQueue, dropped, wire, books>>
        /\ now' \in {now, now + 1}
    BY <1>3 DEF Tick, Fill, Control, vars, feedVars, handlerVars
  <2> QED BY <1>1, <1>2, <2>1
<1>4. CASE Lose
  <2>1. UNCHANGED <<way, venueBooks, quoted, pair, mdQueue, now>> /\ dropped'
        /\ dropped' \in BOOLEAN
    BY <1>4 DEF Lose, handlerVars
  <2> QED BY <1>1, <2>1
<1>5. CASE PublishFix
  <2>1. way # "adapter" /\ UNCHANGED <<way, venueBooks, quoted, pair, mdQueue, now, dropped>>
    BY <1>5 DEF PublishFix, Publish, handlerVars
  <2> QED BY <1>1, <1>2, <2>1
<1>6. CASE ReceiveByFix
  <2>1. way # "adapter" /\ UNCHANGED <<way, venueBooks, quoted, pair, mdQueue, now, dropped>>
    BY <1>6 DEF ReceiveByFix, QueueEntries, ProcessIncremental, ProcessSnapshot, handlerVars
  <2> QED BY <1>1, <1>2, <2>1
<1>7. CASE NextEntry
  <2>1. way # "adapter" /\ UNCHANGED <<way, venueBooks, quoted, pair, mdQueue, now, dropped>>
    BY <1>7 DEF NextEntry, ProcessEntry, feedVars, FeedInv
  <2> QED BY <1>1, <1>2, <2>1
<1> QED BY <1>3, <1>4, <1>5, <1>6, <1>7, FlightPublish, FlightReceive, FlightProcess DEF Next

-----------------------------------------------------------------------------
(* The theorems *)

LoopInv == FeedInv /\ VenueInv /\ HeldInv /\ StaleNeverApplied /\ HeardInv /\ FlightInv

LEMMA LoopInit == Init => LoopInv
<1> SUFFICES ASSUME Init
             PROVE  LoopInv
  OBVIOUS
<1> USE DEF Init
<1>1. FeedInv
  BY DEF FeedInv, WireOK, InitHandler
<1>2. VenueInv
  <2>1. \A s \in Symbols : InitialBooks[s] \in
          SUBSET [id : 1 .. 99, side : {"Buy", "Sell"}, price : Int \ {NoPrice}]
    <3> DEFINE O == [id : 1 .. 99, side : {"Buy", "Sell"}, price : Int \ {NoPrice}]
    <3>1. InitialBooks \in [Symbols -> SUBSET O]
      BY FeedAssumption
    <3> HIDE DEF O
    <3>2. \A s \in Symbols : InitialBooks[s] \in SUBSET O
      BY <3>1
    <3> QED BY <3>2 DEF O
  <2>2. \A s \in Symbols : \A o \in InitialBooks[s] : o \in VenueOrder /\ o.id < 100
    <3> HIDE DEF Init
    <3>1. ASSUME NEW o \in [id : 1 .. 99, side : {"Buy", "Sell"}, price : Int \ {NoPrice}]
          PROVE  o \in VenueOrder /\ o.id < 100
      BY DEF VenueOrder, Side
    <3> HIDE DEF VenueOrder
    <3> QED BY <2>1, <3>1
  <2>3. InitialBooks \in [Symbols -> SUBSET VenueOrder]
    BY <2>2, FeedAssumption
  <2>4. Len(carried) = 0
    OBVIOUS
  <2> QED BY <2>2, <2>3, <2>4 DEF VenueInv
<1>3. HeldInv
  BY DEF HeldInv, HoldingTimeMatchesPosition, InitStrategy
<1>4. StaleNeverApplied
  BY DEF StaleNeverApplied, InitHandler
<1>5. HeardInv
  BY DEF HeardInv, NoSilentLoss, InitHandler
<1>6. FlightInv
  <2>1. PICK q : q = [prices |-> BestPrices(InitialBooks), since |-> 0]
    OBVIOUS
  <2>2. q.prices = BestPrices(InitialBooks) /\ q \in QuoteRecord
    <3>1. InitialBooks \in [Symbols -> SUBSET VenueOrder]
      BY <1>2 DEF VenueInv
    <3> HIDE DEF BestPrices
    <3> QED BY <2>1, <3>1 DEF QuoteRecord
  <2>3. quoted = <<q>>
    BY <2>1
  <2>4. quoted \in Seq(QuoteRecord) /\ quoted # <<>> /\ Last(quoted).prices = BestPrices(venueBooks)
    BY <2>2, <2>3 DEF Last
  <2>5. Leads(UnderWay(mdQueue, wire), Len(mdQueue) + Len(wire), books, venueBooks, quoted)
    <3>1. Len(mdQueue) + Len(wire) = 0 /\ books = InitialBooks /\ venueBooks = InitialBooks
      BY DEF InitHandler
    <3>2. PICK p : p = [i \in 1 .. 1 |-> InitialBooks]
      OBVIOUS
    <3>3. PICK k : k = [i \in 1 .. 1 |-> 1]
      OBVIOUS
    <3>4. p[1] = InitialBooks /\ k[1] = 1 /\ 1 \in DOMAIN quoted /\ quoted[1] = q
      BY <2>3, <3>2, <3>3
    <3>5. Leads(UnderWay(mdQueue, wire), 0, InitialBooks, InitialBooks, quoted)
      <4>1. /\ p[1] = InitialBooks /\ p[0 + 1] = InitialBooks
            /\ \A i \in 1 .. 0 + 1 : k[i] \in DOMAIN quoted /\ quoted[k[i]].prices = BestPrices(p[i])
        BY <2>2, <3>4
      <4>2. \A i \in 1 .. 0 :
              /\ p[i + 1] = OnMarketDataUpdate(p[i], UnderWay(mdQueue, wire)[i].update)
              /\ Stood(quoted, k[i + 1], UnderWay(mdQueue, wire)[i].sent)
        OBVIOUS
      <4> HIDE DEF Init
      <4> QED BY <4>1, <4>2, Zenon DEF Leads
    <3> QED BY <3>1, <3>5
  <2>6. TradesOnFreshQuotesUnlessDropped
    BY DEF TradesOnFreshQuotesUnlessDropped, TradesOnFreshQuotes
  <2>7. Len(mdQueue) <= QueueSize /\ dropped \in BOOLEAN /\ pair = {}
    <3>1. mdQueue = <<>> /\ dropped = FALSE /\ pair = {}
      BY DEF InitHandler
    <3> HIDE DEF Init
    <3>2. Len(mdQueue) = 0
      BY <3>1
    <3>3. QueueSize \in Nat
      BY QueueSizeAssumption
    <3>4. dropped \in BOOLEAN
      BY <3>1, Zenon
    <3> QED BY <3>1, <3>2, <3>3, <3>4
  <2> HIDE DEF Init
  <2> QED BY <2>4, <2>5, <2>6, <2>7 DEF FlightInv
<1> HIDE DEF Init
<1> QED BY <1>1, <1>2, <1>3, <1>4, <1>5, <1>6 DEF LoopInv

LEMMA LoopStep == LoopInv /\ [Next]_vars => LoopInv'
<1> SUFFICES ASSUME LoopInv, [Next]_vars
             PROVE  LoopInv'
  OBVIOUS
<1>1. FeedInv /\ VenueInv /\ HeldInv /\ StaleNeverApplied /\ HeardInv /\ FlightInv
  BY DEF LoopInv
<1>2. now \in Nat \ {0}
  BY <1>1 DEF FeedInv
<1>3. FeedInv' /\ VenueInv'
  BY <1>1, FeedNext, VenueNext
<1>4. HeldInv'
  BY <1>1, <1>2, HeldNext
<1>5. StaleNeverApplied' /\ HeardInv' /\ FlightInv'
  BY <1>1, <1>3, StaleNext, HeardNext, FlightNext
<1> QED BY <1>3, <1>4, <1>5 DEF LoopInv

(* The invariant of the loop: the link in order, the books on their way to *)
(* the venue's.                                                            *)
THEOREM LoopInvariant == Spec => []LoopInv
BY LoopInit, LoopStep, PTL DEF Spec

(* No update reaches a book beyond the threshold's age, on any of the      *)
(* three ways.                                                             *)
THEOREM StaleIsDiscarded == Spec => []StaleNeverApplied
<1>1. LoopInv => StaleNeverApplied
  BY DEF LoopInv
<1> QED BY <1>1, LoopInvariant, PTL

(* A message that never made it is within a gap that was reported, once    *)
(* its symbol is heard of again.                                           *)
THEOREM LossIsNoticed == Spec => []NoSilentLoss
<1>1. LoopInv => NoSilentLoss
  BY DEF LoopInv, HeardInv
<1> QED BY <1>1, LoopInvariant, PTL

(* Nothing dropped and nothing under way, the books are the venue's.       *)
THEOREM BooksBecomeTheVenues == Spec => []BooksConverge
<1>1. LoopInv => BooksConverge
  <2> SUFFICES ASSUME FlightInv, way = "adapter", ~dropped, wire = <<>>, mdQueue = <<>>
               PROVE  books = venueBooks
    BY DEF LoopInv, BooksConverge
  <2>1. Len(mdQueue) + Len(wire) = 0
    OBVIOUS
  <2>2. Leads(UnderWay(mdQueue, wire), 0, books, venueBooks, quoted)
    BY <2>1 DEF FlightInv
  <2>3. PICK p : p[1] = books /\ p[0 + 1] = venueBooks
    BY <2>2, Zenon DEF Leads
  <2>4. 0 + 1 = 1
    OBVIOUS
  <2> QED BY <2>3, <2>4
<1> QED BY <1>1, LoopInvariant, PTL

(* Nothing dropped, a pair was priced from the venue's best prices of no   *)
(* longer ago than the threshold, all four at once.                        *)
THEOREM PairsAreFreshlyPriced == Spec => []TradesOnFreshQuotesUnlessDropped
<1>1. LoopInv => TradesOnFreshQuotesUnlessDropped
  BY DEF LoopInv, FlightInv
<1> QED BY <1>1, LoopInvariant, PTL

(* The holding time runs exactly while there is a position.                *)
THEOREM ClockRunsWithPosition == Spec => []HoldingTimeMatchesPosition
<1>1. LoopInv => HoldingTimeMatchesPosition
  BY DEF LoopInv, HeldInv
<1> QED BY <1>1, LoopInvariant, PTL
=============================================================================
