--------------------------- MODULE TradingEngine ---------------------------
(***************************************************************************)
(* The order book and matching engine of one asset                         *)
(* (src/src/modules/trading-engine/trading-engine.service.ts).             *)
(*                                                                         *)
(* Orders live twice: as rows of the orders table (db) and as objects in   *)
(* the in-memory book (obj, book).  matchOrder mutates the objects at      *)
(* once, in one synchronous step; the rows follow in a transaction that    *)
(* may fail, and the taker enters the book only after that transaction.    *)
(* Handlers interleave at every await.  A restart loses the memory and     *)
(* loads the open rows again.                                              *)
(*                                                                         *)
(* Quantities and prices are integers; price 0 stands for a missing price. *)
(***************************************************************************)
EXTENDS Integers, FiniteSets, Sequences, SequencesExt

CONSTANTS
    Dtos,           \* the create requests clients send
    MaxOrders,      \* bound on the orders created
    Ops,            \* the operations clients call
    Slots,          \* handlers that can be in progress at the same time
    TxFails,        \* whether a transaction or a query may fail
    MaxRestarts,    \* bound on the restarts
    EarlyRequests   \* whether requests are served before the books are loaded

Ids == 1..MaxOrders

OrderSide == {"BUY", "SELL"}
OrderType == {"MARKET", "LIMIT"}
OrderStatus == {"PENDING", "OPEN", "PARTIALLY_FILLED", "FILLED", "CANCELLED", "EXPIRED", "REJECTED"}

CreateOrderDto == [side : OrderSide, type : OrderType, quantity : Nat, price : Nat,
                   expiresAt : BOOLEAN]

ASSUME EngineAssumption ==
    /\ Dtos \subseteq CreateOrderDto
    /\ MaxOrders \in Nat
    /\ MaxRestarts \in Nat
    /\ IsFiniteSet(Slots)
    /\ TxFails \in BOOLEAN /\ EarlyRequests \in BOOLEAN

\* An object of the book: the one createOrder built, or one loaded at start.
Ref == Ids \X {"created", "loaded"}

VARIABLES
    orders,    \* what the client asked for: the columns that never change
    db,        \* status and filledQuantity of each row of the orders table
    traded,    \* quantity of the rows of the trades table, per order
    obj,       \* status and filledQuantity of the objects in memory
    book,      \* bids and asks, best first
    boot,      \* where initializeOrderBooks is, and the rows it found
    req,       \* the handlers in progress
    restarts

vars == <<orders, db, traded, obj, book, boot, req, restarts>>

Absent == [status |-> "ABSENT", filled |-> 0]
OpenStatus == {"OPEN", "PARTIALLY_FILLED"}

Idle == [op |-> "none", pc |-> "idle", id |-> 0, row |-> Absent, fills |-> [i \in Ids |-> 0],
         touched |-> {}, todo |-> {}]

Init ==
    /\ orders = <<>>
    /\ db = [i \in Ids |-> Absent]
    /\ traded = [i \in Ids |-> 0]
    /\ obj = [r \in Ref |-> Absent]
    /\ book = [side \in OrderSide |-> <<>>]
    /\ boot = [pc |-> "find", found |-> {}]
    /\ req = [s \in Slots |-> Idle]
    /\ restarts = 0

At(s, op, pc) == req[s].op = op /\ req[s].pc = pc
Goto(s, pc) == req' = [req EXCEPT ![s] = [@ EXCEPT !.pc = pc]]
Return(s) == req' = [req EXCEPT ![s] = Idle]

Serving(s) == req[s] = Idle /\ (EarlyRequests \/ boot.pc = "ready")

-----------------------------------------------------------------------------
(* The book *)

Order(r) == orders[r[1]]

Unfilled(r) == Order(r).quantity - obj[r].filled
Opposite(side) == IF side = "BUY" THEN "SELL" ELSE "BUY"

\* The price of a comes strictly before that of b on their side of the book.
Better(a, b) == IF Order(a).side = "BUY" THEN Order(a).price > Order(b).price
                                         ELSE Order(a).price < Order(b).price

Position(queue, r) == CHOOSE i \in DOMAIN queue : queue[i] = r

\* addToOrderBook: push and sort, a stable sort by price.  With an order that
\* has no price the comparator yields NaN, and the result of the sort is left
\* to the implementation.  New objects come in no particular order.
Placements(queue, new) ==
    LET all == ToSet(queue) \cup new
        sorted(q) ==
            \A a, b \in all :
                \/ Better(a, b)
                \/ /\ a \in ToSet(queue)
                   /\ ~Better(b, a)
                   /\ b \in ToSet(queue) => Position(queue, a) < Position(queue, b)
                => Position(q, a) < Position(q, b)
    IN  {q \in SetToSeqs(all) : (\E r \in all : Order(r).price = 0) \/ sorted(q)}

\* removeFromOrderBook: the entries of other orders, in the order they had.
Without(queue, id) ==
    LET kept == {i \in DOMAIN queue : queue[i][1] # id}
        at == CHOOSE f \in [1..Cardinality(kept) -> kept] :
                  \A j, k \in DOMAIN f : j < k => f[j] < f[k]
    IN  [k \in 1..Cardinality(kept) |-> queue[at[k]]]

-----------------------------------------------------------------------------
(* matchOrder *)

\* A limit order trades only with a priced order at its price or better.
Crosses(taker, maker) ==
    \/ Order(taker).type = "MARKET"
    \/ /\ Order(maker).price # 0
       /\ IF Order(taker).side = "BUY" THEN Order(taker).price >= Order(maker).price
                                       ELSE Order(taker).price <= Order(maker).price

\* Sum of the unfilled quantities that stand before position i.
Ahead(queue, i) == SumFunction([j \in 1..(i - 1) |-> Unfilled(queue[j])])

\* The positions the loop visits: up to the first price that does not match,
\* and only as long as the taker is not filled.
Visited(taker, queue) ==
    {i \in DOMAIN queue : /\ \A j \in 1..i : Crosses(taker, queue[j])
                          /\ Ahead(queue, i) < Order(taker).quantity}

\* Mutant: the maker's unfilled quantity is ignored.
TakeAll(taker, queue, i) == Order(taker).quantity - Ahead(queue, i)

TradeQuantity(taker, queue, i) ==
    LET left == Order(taker).quantity - Ahead(queue, i)
    IN  IF left < Unfilled(queue[i]) THEN left ELSE Unfilled(queue[i])

\* An order's object after a trade.  Only a taker becomes PARTIALLY_FILLED.
Filled(r, quantity, isTaker) ==
    LET filled == obj[r].filled + quantity
    IN  [status |-> IF filled >= Order(r).quantity THEN "FILLED"
                    ELSE IF isTaker /\ filled > 0 THEN "PARTIALLY_FILLED"
                    ELSE obj[r].status,
         filled |-> filled]

-----------------------------------------------------------------------------
(* createOrder *)

CreateOrder(s, dto) ==
    /\ "create" \in Ops
    /\ Serving(s)
    /\ Len(orders) < MaxOrders
    /\ dto.type = "LIMIT" => dto.price # 0
    /\ orders' = Append(orders, dto)
    /\ req' = [req EXCEPT ![s] = [Idle EXCEPT !.op = "create", !.pc = "insert",
                                             !.id = Len(orders) + 1]]
    /\ UNCHANGED <<db, traded, obj, book, boot, restarts>>

\* The first save: the row is OPEN and visible to everyone, the book has no
\* entry yet.
CreateOrderInsert(s) ==
    LET id == req[s].id
    IN  /\ At(s, "create", "insert")
        /\ db' = [db EXCEPT ![id] = [status |-> "OPEN", filled |-> 0]]
        /\ obj' = [obj EXCEPT ![<<id, "created">>] = [status |-> "OPEN", filled |-> 0]]
        /\ Goto(s, "match")
        /\ UNCHANGED <<orders, traded, book, boot, restarts>>

\* matchOrder runs without an await: trades are built, makers and taker are
\* mutated, filled makers leave the book.
MatchOrder(s) ==
    LET taker == <<req[s].id, "created">>
        side == Opposite(Order(taker).side)
        queue == book[side]
        visited == Visited(taker, queue)
        quantity(i) == TradeQuantity(taker, queue, i)
        total == SumFunction([i \in visited |-> quantity(i)])
        gone == {i \in visited : quantity(i) = Unfilled(queue[i])}
    IN  /\ At(s, "create", "match")
        /\ obj' = [r \in Ref |->
                     IF r = taker /\ visited # {} THEN Filled(r, total, TRUE)
                     ELSE IF \E i \in visited : queue[i] = r
                          THEN Filled(r, quantity(Position(queue, r)), FALSE)
                     ELSE obj[r]]
        /\ book' = [book EXCEPT ![side] = SubSeq(queue, Cardinality(gone) + 1, Len(queue))]
        /\ req' = [req EXCEPT ![s] =
                [@ EXCEPT !.pc = "persist",
                          !.touched = {queue[i] : i \in visited},
                          !.fills = [j \in Ids |->
                              IF j = taker[1] THEN total
                              ELSE SumFunction([i \in {k \in visited : queue[k][1] = j}
                                                   |-> quantity(i)])]]]
        /\ UNCHANGED <<orders, db, traded, boot, restarts>>

\* A trade takes its maker's price, and the column is NOT NULL: trades with
\* an unpriced maker cannot be stored.
CanPersist(s) == \A r \in req[s].touched : Order(r).price # 0

\* One transaction: the trades, the taker's row and the rows of all makers, as
\* their objects are when it runs.
CreateOrderPersist(s) ==
    LET taker == <<req[s].id, "created">>
        touched == req[s].touched
        saved == touched \cup {taker}
    IN  /\ At(s, "create", "persist")
        /\ CanPersist(s)
        /\ traded' = [i \in Ids |-> traded[i] + req[s].fills[i]]
        /\ \E last \in {f \in [{r[1] : r \in saved} -> saved] : \A i \in DOMAIN f : f[i][1] = i} :
              db' = [i \in Ids |-> IF i \in DOMAIN last THEN obj[last[i]] ELSE db[i]]
        /\ Goto(s, "rest")
        /\ UNCHANGED <<orders, obj, book, boot, restarts>>

\* After the commit an order that is not filled enters the book.
CreateOrderRest(s) ==
    LET taker == <<req[s].id, "created">>
        side == Order(taker).side
    IN  /\ At(s, "create", "rest")
        /\ IF obj[taker].status \in OpenStatus
             THEN \E queue \in Placements(book[side], {taker}) :
                      book' = [book EXCEPT ![side] = queue]
             ELSE UNCHANGED book
        /\ Return(s)
        /\ UNCHANGED <<orders, db, traded, obj, boot, restarts>>

-----------------------------------------------------------------------------
(* cancelOrder *)

CancelOrder(s, id) ==
    /\ "cancel" \in Ops
    /\ Serving(s)
    /\ db[id].status \in OpenStatus
    /\ req' = [req EXCEPT ![s] = [Idle EXCEPT !.op = "cancel", !.pc = "remove", !.id = id,
                                             !.row = db[id]]]
    /\ UNCHANGED <<orders, db, traded, obj, book, boot, restarts>>

\* Mutant: the order stays in the book.
CancelKeepsBook(s) ==
    /\ At(s, "cancel", "remove")
    /\ Goto(s, "save")
    /\ UNCHANGED <<orders, db, traded, obj, book, boot, restarts>>

CancelOrderRemove(s) ==
    LET side == orders[req[s].id].side
    IN  /\ At(s, "cancel", "remove")
        /\ book' = [book EXCEPT ![side] = Without(@, req[s].id)]
        /\ Goto(s, "save")
        /\ UNCHANGED <<orders, db, traded, obj, boot, restarts>>

\* The row as it was read, with status CANCELLED.
CancelOrderSave(s) ==
    /\ At(s, "cancel", "save")
    /\ db' = [db EXCEPT ![req[s].id] = [req[s].row EXCEPT !.status = "CANCELLED"]]
    /\ Return(s)
    /\ UNCHANGED <<orders, traded, obj, book, boot, restarts>>

-----------------------------------------------------------------------------
(* cleanupExpiredOrders: all expired rows are read at once and handled one by one *)

CleanupExpiredOrders(s, ids) ==
    /\ "expire" \in Ops
    /\ Serving(s)
    /\ ids # {}
    /\ req' = [req EXCEPT ![s] = [Idle EXCEPT !.op = "expire", !.pc = "remove",
                                    !.todo = {<<i, db[i]>> : i \in ids}]]
    /\ UNCHANGED <<orders, db, traded, obj, book, boot, restarts>>

CleanupRemove(s) ==
    /\ At(s, "expire", "remove")
    /\ \E order \in req[s].todo :
          /\ book' = [book EXCEPT ![orders[order[1]].side] = Without(@, order[1])]
          /\ req' = [req EXCEPT ![s] = [@ EXCEPT !.pc = "save", !.id = order[1], !.row = order[2],
                                                 !.todo = req[s].todo \ {order}]]
    /\ UNCHANGED <<orders, db, traded, obj, boot, restarts>>

CleanupSave(s) ==
    /\ At(s, "expire", "save")
    /\ db' = [db EXCEPT ![req[s].id] = [req[s].row EXCEPT !.status = "EXPIRED"]]
    /\ IF req[s].todo = {} THEN Return(s) ELSE Goto(s, "remove")
    /\ UNCHANGED <<orders, traded, obj, book, boot, restarts>>

Expired == {i \in DOMAIN orders : db[i].status \in OpenStatus /\ orders[i].expiresAt}

-----------------------------------------------------------------------------
\* A save or the transaction fails and the handler throws: no row changes, and
\* what was done to the book and to the objects before it stays.
HandlerFails(s) ==
    /\ req[s].pc \in {"insert", "persist", "save"}
    /\ TxFails \/ ~CanPersist(s)
    /\ Return(s)
    /\ UNCHANGED <<orders, db, traded, obj, book, boot, restarts>>

-----------------------------------------------------------------------------
(* Start: initializeOrderBooks runs beside the requests, nobody waits for it *)

InitializeOrderBooks ==
    /\ boot.pc = "find"
    /\ boot' = [pc |-> "add", found |-> {<<i, db[i]>> : i \in {j \in Ids : db[j].status \in OpenStatus}}]
    /\ UNCHANGED <<orders, db, traded, obj, book, req, restarts>>

AddLoadedOrders ==
    LET loaded(side) == {<<row[1], "loaded">> : row \in {x \in boot.found : orders[x[1]].side = side}}
    IN  /\ boot.pc = "add"
        /\ obj' = [r \in Ref |-> IF r[2] = "loaded" /\ \E row \in boot.found : row[1] = r[1]
                                 THEN (CHOOSE row \in boot.found : row[1] = r[1])[2]
                                 ELSE obj[r]]
        /\ \E bids \in Placements(book["BUY"], loaded("BUY")),
             asks \in Placements(book["SELL"], loaded("SELL")) :
              book' = [side \in OrderSide |-> IF side = "BUY" THEN bids ELSE asks]
        /\ boot' = [pc |-> "ready", found |-> {}]
        /\ UNCHANGED <<orders, db, traded, req, restarts>>

\* The query fails: the error is logged and the book starts empty.
InitializeFails ==
    /\ TxFails
    /\ boot.pc = "find"
    /\ boot' = [pc |-> "ready", found |-> {}]
    /\ UNCHANGED <<orders, db, traded, obj, book, req, restarts>>

Restart ==
    /\ restarts < MaxRestarts
    /\ restarts' = restarts + 1
    /\ obj' = [r \in Ref |-> Absent]
    /\ book' = [side \in OrderSide |-> <<>>]
    /\ boot' = [pc |-> "find", found |-> {}]
    /\ req' = [s \in Slots |-> Idle]
    /\ UNCHANGED <<orders, db, traded>>

-----------------------------------------------------------------------------
Next ==
    \/ \E s \in Slots :
          \/ \E dto \in Dtos : CreateOrder(s, dto)
          \/ CreateOrderInsert(s)
          \/ MatchOrder(s)
          \/ CreateOrderPersist(s)
          \/ CreateOrderRest(s)
          \/ \E id \in Ids : CancelOrder(s, id)
          \/ CancelOrderRemove(s)
          \/ CancelOrderSave(s)
          \/ \E ids \in SUBSET Expired : CleanupExpiredOrders(s, ids)
          \/ CleanupRemove(s)
          \/ CleanupSave(s)
          \/ HandlerFails(s)
    \/ InitializeOrderBooks
    \/ AddLoadedOrders
    \/ InitializeFails
    \/ Restart

Spec == Init /\ [][Next]_vars

-----------------------------------------------------------------------------
(* Properties *)

RowType == [status : OrderStatus \cup {"ABSENT"}, filled : Nat]

\* Every variable has the type the entities and the enums give it.
TypeOK ==
    /\ orders \in Seq(CreateOrderDto) /\ Len(orders) <= MaxOrders
    /\ db \in [Ids -> RowType]
    /\ traded \in [Ids -> Nat]
    /\ obj \in [Ref -> RowType]
    /\ book \in [OrderSide -> Seq(Ref)]
    /\ boot.pc \in {"find", "add", "ready"} /\ boot.found \subseteq Ids \X RowType
    /\ \A s \in Slots : req[s].touched \subseteq Ref /\ req[s].todo \subseteq Ids \X RowType
    /\ restarts \in 0..MaxRestarts

Quiet == boot.pc = "ready" /\ \A s \in Slots : req[s] = Idle

Resting == ToSet(book["BUY"]) \cup ToSet(book["SELL"])

\* No order is traded for more than its quantity: a fill is never done twice,
\* not by concurrent handlers, not after a restart (comment in createOrder).
NoOverfill == \A i \in DOMAIN orders : traded[i] <= orders[i].quantity

\* The trades table and the filled quantities agree in every state, those that
\* a crash leaves behind included: the createOrder transaction is all or nothing.
TradesMatchFills == \A i \in Ids : db[i].filled = traded[i]

\* With no handler in progress the book holds exactly the open orders of the
\* table, each once and as filled as its row ("the in-memory book never
\* diverges from the database", createOrder).
BookMatchesDb ==
    Quiet => /\ {r[1] : r \in Resting} = {i \in Ids : db[i].status \in OpenStatus}
             /\ \A r \in Resting : obj[r] = db[r[1]]
             /\ \A side \in OrderSide : IsInjective([i \in DOMAIN book[side] |-> book[side][i][1]])

\* With no handler in progress every bid is below every ask: whatever could
\* trade has traded.  Two orders that a restart has loaded may cross: a crash
\* before createOrder's transaction leaves a taker that was never matched.
NotCrossed ==
    Quiet => \A b \in ToSet(book["BUY"]), a \in ToSet(book["SELL"]) :
                 \/ Order(b).price < Order(a).price
                 \/ b[2] = "loaded" /\ a[2] = "loaded"

\* Bids stand highest first, asks lowest first, and at one price the order
\* that came first stands first, except among the orders a restart has loaded
\* (initializeOrderBooks asks for them in no particular order).
PriceTimePriority ==
    \A side \in OrderSide : \A i, j \in DOMAIN book[side] :
        i < j => LET a == book[side][i]
                     b == book[side][j]
                 IN  \/ side = "BUY" /\ Order(a).price > Order(b).price
                     \/ side = "SELL" /\ Order(a).price < Order(b).price
                     \/ /\ Order(a).price = Order(b).price
                        /\ a[1] < b[1] \/ (a[2] = "loaded" /\ b[2] = "loaded")

-----------------------------------------------------------------------------
(* Stated by a test, not kept by the code: see the README. *)

\* An order with a part of it filled has status PARTIALLY_FILLED.
PartialIsMarked ==
    \A i \in DOMAIN orders : db[i].status = "OPEN" => db[i].filled = 0
=============================================================================
