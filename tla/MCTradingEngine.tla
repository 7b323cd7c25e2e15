-------------------------- MODULE MCTradingEngine --------------------------
(***************************************************************************)
(* Two systems in one run: part tells them apart.  In "handlers" requests  *)
(* overlap and transactions fail; in "book" a request starts when no other *)
(* is in progress, nothing fails but the process, and all orders are limit *)
(* orders.                                                                 *)
(***************************************************************************)
EXTENDS TradingEngine, TLC

CONSTANT LimitDtos    \* the create requests of part "book"

ASSUME LimitAssumption ==
    LimitDtos \subseteq {dto \in CreateOrderDto : dto.type = "LIMIT" /\ dto.quantity > 0}

VARIABLE part

MCInit == part \in {"handlers", "book"} /\ Init

\* No other handler is in progress.
Undisturbed(s) == \A t \in Slots \ {s} : req[t] = Idle

BookNext ==
    \/ \E s \in Slots :
          /\ Undisturbed(s)
          /\ \/ \E dto \in LimitDtos : CreateOrder(s, dto)
             \/ CreateOrderInsert(s)
             \/ MatchOrder(s)
             \/ CreateOrderPersist(s)
             \/ CreateOrderRest(s)
             \/ \E id \in Ids : CancelOrder(s, id)
             \/ CancelOrderRemove(s)
             \/ CancelOrderSave(s)
             \/ \E ids \in SUBSET Expired : CleanupExpiredOrders(s, ids)
             \/ CleanupRemove(s)
             \/ CleanupSave(s)
    \/ InitializeOrderBooks
    \/ AddLoadedOrders
    \/ Restart

MCNext == /\ \/ part = "handlers" /\ Next
             \/ part = "book" /\ BookNext
          /\ UNCHANGED part

MCSpec == MCInit /\ [][MCNext]_<<vars, part>>

-----------------------------------------------------------------------------
(* Values of the constants *)

LimitDto(side, price, quantity, expiresAt) ==
    [side |-> side, type |-> "LIMIT", quantity |-> quantity, price |-> price,
     expiresAt |-> expiresAt]
MarketDto(side, quantity) ==
    [side |-> side, type |-> "MARKET", quantity |-> quantity, price |-> 0, expiresAt |-> FALSE]

\* Two prices and two quantities on each side; the larger ones can expire.
MC_LimitDtos == {LimitDto(side, price, quantity, quantity = 2) :
                    side \in OrderSide, price \in 1..2, quantity \in 1..2}

\* One large seller and small buyers, one of them at the market.
MC_FewDtos == {LimitDto("SELL", 1, 2, TRUE), LimitDto("BUY", 1, 1, FALSE), MarketDto("BUY", 1)}

\* The handlers are interchangeable.
HandlerSymmetry == Permutations(Slots)

-----------------------------------------------------------------------------
\* With handlers that do not overlap, the book holds exactly the open rows, each
\* once and as stored, it is not crossed, orders are served by price and then by
\* time, and filledQuantity is what the trades say, restarts included
\* (createOrder, matchOrder, cancelOrder, initializeOrderBooks).
BookIsRight ==
    part = "book" =>
        TypeOK /\ BookMatchesDb /\ NotCrossed /\ PriceTimePriority /\ TradesMatchFills
=============================================================================
