--------------------------- MODULE PositionMarks ---------------------------
(***************************************************************************)
(* The prices in the positions table: repricing of open positions, closing *)
(* them on request or by loss, profit and age (services/position_service.py*)
(* and api/routes/trading.py), and the executor, whose sale and whose      *)
(* reconciliation close and open rows of the same table.                   *)
(*                                                                         *)
(* No actor here takes a lock the others ask for, and nothing one does is  *)
(* one transaction: one action is the code between two awaits.  Every      *)
(* position is long, of one unit of one symbol.  Which order is sent and   *)
(* what it fills is the subject of PositionService.tla and Executor.tla;   *)
(* here an order is accepted or refused, and what it fills changes no row: *)
(* each of the actors closes a row whole.  The trades table is left out.   *)
(***************************************************************************)
EXTENDS Integers, FiniteSets

CONSTANTS
  Handlers,   \* requests, sales and reconciliations under way at the same time
  RowIds,     \* positions
  Prices,     \* market prices, and the amounts positions cost
  Limit,      \* max_loss_percent and min_profit_percent of the requests
  Asked,      \* the combinations of reasons automatic closing is asked to close for
  MaxCalls,   \* bound on the requests, sales and reconciliations
  MaxFaults,  \* bound on failed calls
  NoRow       \* the handler holds no row

ASSUME MarksAssumption ==
  /\ Prices \subseteq Nat \ {0} /\ Prices # {}
  /\ Limit \in Nat \ {0} /\ MaxCalls \in Nat /\ MaxFaults \in Nat
  /\ Asked \subseteq SUBSET {"loss", "profit", "days"}
  /\ NoRow \notin RowIds

VARIABLES
  price,      \* the market price
  rows,       \* positions: current is also the price a row closed at
  call,       \* what each handler is doing
  calls,      \* requests, sales and reconciliations so far
  faults

vars == <<price, rows, call, calls, faults>>

Quotes  == Prices \cup {0}      \* get_current_price answers 0 for an error
Row     == [status : {"none", "open", "closed"}, entry : Quotes, cost : Quotes,
            current : Quotes, old : BOOLEAN]       \* cost: dollar_amount
NoPos   == [status |-> "none", entry |-> 0, cost |-> 0, current |-> 0, old |-> FALSE]

Call == [at    : {"idle", "quote", "select", "mark", "criteria", "pick", "price", "trade",
                   "close", "sale", "rows", "decide", "insert"},
         op    : {"none", "reprice", "auto", "close", "sell", "reconcile"},
         by    : SUBSET {"loss", "profit", "days"},
         quote : Quotes,                  \* the price read, or given, last
         todo  : SUBSET RowIds,           \* rows to mark, then rows to close
         id    : RowIds \cup {NoRow},     \* the row being closed
         alone : BOOLEAN,                 \* history: no other handler so far
         fresh : BOOLEAN]                 \* history: the rows selected carry the quote
Idle == [at |-> "idle", op |-> "none", by |-> {}, quote |-> 0, todo |-> {}, id |-> NoRow,
         alone |-> FALSE, fresh |-> FALSE]

Having(status) == {id \in RowIds : rows[id].status = status}
Busy == {h \in Handlers : call[h] # Idle}

TypeOK ==
  /\ price \in Prices
  /\ rows \in [RowIds -> Row]
  /\ call \in [Handlers -> Call]
  /\ calls \in 0 .. MaxCalls
  /\ faults \in 0 .. MaxFaults
  /\ \A id \in Having("open") \cup Having("closed") : {rows[id].entry, rows[id].cost} \subseteq Prices
  /\ \A h \in Handlers : call[h].id # NoRow <=> call[h].at \in {"price", "trade", "close"}

Init ==
  /\ price \in Prices
  /\ rows = [id \in RowIds |-> NoPos]
  /\ call = [h \in Handlers |-> Idle]
  /\ calls = 0
  /\ faults = 0

Becomes(h, c) == call' = [call EXCEPT ![h] = c]

-----------------------------------------------------------------------------
(* Definitions named ...Bug are the definition that follows them with one    *)
(* plausible mistake; no other definition uses them.                         *)

(* _calc_pnl of a long position of one unit, and unrealized_pnl_percent of   *)
(* dollar_amount, compared without a division                                *)
Pnl(r) == r.current - r.entry
AtLeast(r, percent) == 100 * Pnl(r) >= percent * r.cost
AtMost(r, percent)  == 100 * Pnl(r) <= percent * r.cost

(* auto_close_positions_by_criteria: for loss, profit or age, as asked *)
Meets(by, r) ==
  \/ "loss"   \in by /\ AtMost(r, -Limit)
  \/ "profit" \in by /\ AtLeast(r, Limit)
  \/ "days"   \in by /\ r.old

-----------------------------------------------------------------------------
(* The market, the days, and positions being opened *)

PriceMoves ==
  /\ price' \in Prices \ {price}
  /\ UNCHANGED <<rows, call, calls, faults>>

(* A position has been open for max_days_open days. *)
GrowsOld(id) ==
  /\ rows[id].status = "open" /\ ~rows[id].old
  /\ rows' = [rows EXCEPT ![id].old = TRUE]
  /\ UNCHANGED <<price, call, calls, faults>>

(* create_position *)
Created(id, entry, cost) ==
  /\ rows[id].status = "none"
  /\ rows' = [rows EXCEPT ![id] = [status |-> "open", entry |-> entry, cost |-> cost,
                                   current |-> entry, old |-> FALSE]]

(* open_position, or the executor's purchase, comes to its row.  A live      *)
(* open_position takes the market price for the entry and leaves the cost to *)
(* its client, who chooses both when trading on paper.                       *)
Open(id) ==
  /\ \E entry, cost \in Prices : Created(id, entry, cost)
  /\ UNCHANGED <<price, call, calls, faults>>

-----------------------------------------------------------------------------
(* The requests, and the executor *)

Begin(h, c) ==
  /\ call[h] = Idle
  /\ calls < MaxCalls
  /\ calls' = calls + 1
  /\ call' = [g \in Handlers |->
                IF g = h THEN [c EXCEPT !.alone = (Busy = {})]
                ELSE IF g \in Busy THEN [call[g] EXCEPT !.alone = FALSE] ELSE call[g]]
  /\ UNCHANGED <<price, rows, faults>>

(* POST /positions/update-prices and /positions/auto-close: the symbols of  *)
(* the open rows; without any, both are done.                               *)
Refresh(h) ==
  /\ Having("open") # {}
  /\ \/ Begin(h, [Idle EXCEPT !.at = "quote", !.op = "reprice"])
     \/ \E by \in Asked : Begin(h, [Idle EXCEPT !.at = "quote", !.op = "auto", !.by = by])

(* POST /positions/close: the client may give a price to close at. *)
CloseOne(h) ==
  \E id \in Having("open"), given \in Quotes :
    Begin(h, [Idle EXCEPT !.at = "pick", !.op = "close", !.todo = {id}, !.quote = given])

(* execute_sell, at the price of its signal *)
Sell(h) ==
  \E signal \in Prices : Begin(h, [Idle EXCEPT !.at = "sale", !.op = "sell", !.quote = signal])

(* reconcile: the balance and the open rows, before the price *)
Reconcile(h) ==
  Begin(h, [Idle EXCEPT !.at = "quote", !.op = "reconcile", !.todo = Having("open")])

Marked(c, done) ==
  IF c.op = "auto" THEN [c EXCEPT !.at = "criteria", !.todo = {}, !.fresh = done] ELSE Idle

NextRowBug(c) == IF c.todo = {} THEN Idle ELSE [c EXCEPT !.at = "pick"]   \* keeps the row

(* A reconciliation that has closed its rows may create one. *)
NextRow(c) ==
  IF c.todo = {} /\ c.op # "reconcile" THEN Idle
  ELSE [c EXCEPT !.at = IF c.todo = {} THEN "insert" ELSE "pick", !.id = NoRow,
                 !.quote = IF c.op = "auto" THEN 0 ELSE @]

(* get_current_price: before the rows are marked, before a reconciliation   *)
(* decides, and before a row is closed                                      *)
ReadPrice(h) ==
  /\ call[h].at \in {"quote", "price"}
  /\ LET next == IF call[h].at = "price" THEN "trade"
                 ELSE IF call[h].op = "reconcile" THEN "decide" ELSE "select"
         Read(q) == Becomes(h, [call[h] EXCEPT !.quote = q, !.at = next])
     IN  \/ Read(price) /\ UNCHANGED faults
         \/ Read(0) /\ faults < MaxFaults /\ faults' = faults + 1
  /\ UNCHANGED <<price, rows, calls>>

SelectOpenBug(h) ==                                  \* closed rows as well
  /\ call[h].at = "select"
  /\ Becomes(h, [call[h] EXCEPT !.at = "mark", !.todo = Having("open") \cup Having("closed")])
  /\ UNCHANGED <<price, rows, calls, faults>>

(* update_open_position_prices: the SELECT *)
SelectOpen(h) ==
  /\ call[h].at = "select"
  /\ Becomes(h, IF Having("open") = {} THEN Marked(call[h], TRUE)
                ELSE [call[h] EXCEPT !.at = "mark", !.todo = Having("open")])
  /\ UNCHANGED <<price, rows, calls, faults>>

MarkRowBug(h) ==                                     \* returns from inside the loop
  /\ call[h].at = "mark"
  /\ \E id \in call[h].todo : rows' = [rows EXCEPT ![id].current = call[h].quote]
  /\ Becomes(h, Marked(call[h], TRUE))
  /\ UNCHANGED <<price, calls, faults>>

(* update_open_position_prices: UPDATE ... WHERE id, whatever became of the  *)
(* row.  PostgreSQL commits them one by one; on SQLite they come at once.    *)
MarkRow(h) ==
  /\ call[h].at = "mark"
  /\ \E id \in call[h].todo :
       /\ rows' = [rows EXCEPT ![id].current = call[h].quote]
       /\ Becomes(h, IF call[h].todo = {id} THEN Marked(call[h], TRUE)
                     ELSE [call[h] EXCEPT !.todo = @ \ {id}])
  /\ UNCHANGED <<price, calls, faults>>

(* auto_close_positions_by_criteria: one look at the open rows *)
Criteria(h) ==
  /\ call[h].at = "criteria"
  /\ Becomes(h, NextRow([call[h] EXCEPT
       !.todo = {id \in Having("open") : Meets(call[h].by, rows[id])}]))
  /\ UNCHANGED <<price, rows, calls, faults>>

(* execute_sell: the order is refused, or sells *)
Sale(h) ==
  /\ call[h].at = "sale"
  /\ Becomes(h, Idle) \/ Becomes(h, [call[h] EXCEPT !.at = "rows"])
  /\ UNCHANGED <<price, rows, calls, faults>>

(* execute_sell: get_positions again, for the rows to close *)
SelectRows(h) ==
  /\ call[h].at = "rows"
  /\ Becomes(h, NextRow([call[h] EXCEPT !.todo = Having("open")]))
  /\ UNCHANGED <<price, rows, calls, faults>>

(* reconcile: nothing to do, or rows to close, or to replace, or one to add; *)
(* with a price of 0 every difference is dust.                               *)
Decide(h) ==
  /\ call[h].at = "decide"
  /\ Becomes(h, Idle) \/ (call[h].quote # 0 /\ Becomes(h, NextRow(call[h])))
  /\ UNCHANGED <<price, rows, calls, faults>>

(* reconcile: a row for the balance, unless it is dust *)
Insert(h) ==
  /\ call[h].at = "insert"
  /\ UNCHANGED rows \/ \E id \in RowIds : Created(id, call[h].quote, call[h].quote)
  /\ Becomes(h, Idle)
  /\ UNCHANGED <<price, calls, faults>>

(* get_position_by_id, in close_position of the service or of the tracker *)
PickRow(h) ==
  /\ call[h].at = "pick"
  /\ \E id \in call[h].todo :
       LET c    == [call[h] EXCEPT !.todo = @ \ {id}]
           next == IF c.op \in {"sell", "reconcile"} THEN "close"
                   ELSE IF c.quote = 0 THEN "price" ELSE "trade"
       IN  Becomes(h, IF rows[id].status = "open" THEN [c EXCEPT !.at = next, !.id = id]
                      ELSE NextRow(c))
  /\ UNCHANGED <<price, rows, calls, faults>>

(* The service's order is refused, or recorded; then the second look at the  *)
(* row, by TradeTrackerDB.close_position                                     *)
Trade(h) ==
  /\ call[h].at = "trade"
  /\ \/ Becomes(h, NextRow(call[h]))
     \/ /\ rows[call[h].id].status = "open"
        /\ Becomes(h, [call[h] EXCEPT !.at = "close"])
  /\ UNCHANGED <<price, rows, calls, faults>>

(* TradeTrackerDB.close_position: UPDATE ... WHERE id *)
CloseRow(h) ==
  /\ call[h].at = "close"
  /\ rows' = [rows EXCEPT ![call[h].id].status = "closed", ![call[h].id].current = call[h].quote]
  /\ Becomes(h, NextRow(call[h]))
  /\ UNCHANGED <<price, calls, faults>>

(* A call fails: update_position_prices swallows it and leaves the rows it   *)
(* has not come to with their old marks; close_position of the service       *)
(* answers it as a failure to close that one row; it ends anything else.  A  *)
(* look at the row to close that fails has the effect of the next call       *)
(* failing.                                                                  *)
Fails(h) ==
  /\ call[h].at \notin {"idle", "quote", "price", "pick", "decide"}
  /\ Becomes(h, IF call[h].at \in {"select", "mark"} THEN Marked(call[h], FALSE)
                ELSE IF call[h].at \in {"trade", "close"} /\ call[h].op \in {"auto", "close"}
                THEN NextRow(call[h]) ELSE Idle)
  /\ faults < MaxFaults /\ faults' = faults + 1
  /\ UNCHANGED <<price, rows, calls>>

Serve(h) == \/ ReadPrice(h) \/ SelectOpen(h) \/ MarkRow(h) \/ Criteria(h) \/ Sale(h)
            \/ SelectRows(h) \/ Decide(h) \/ Insert(h) \/ PickRow(h) \/ Trade(h)
            \/ CloseRow(h) \/ Fails(h)

Next == \/ PriceMoves
        \/ \E id \in RowIds : Open(id) \/ GrowsOld(id)
        \/ \E h \in Handlers : Refresh(h) \/ CloseOne(h) \/ Sell(h) \/ Reconcile(h) \/ Serve(h)

Spec == Init /\ [][Next]_vars

-----------------------------------------------------------------------------
(* Properties *)

(* A closed position never reopens, and its price and profit are final,      *)
(* unless handlers (requests, the executor's sales and reconciliations)      *)
(* overlap: only then does an UPDATE, which asks for the id alone, find a    *)
(* row that was closed after it was selected.  Failures do not matter.       *)
ClosedIsFinal ==
  [][\A id \in Having("closed") :
       rows'[id] # rows[id] =>
         /\ rows'[id] = [rows[id] EXCEPT !.current = rows'[id].current]
         /\ \E h \in Busy : ~call[h].alone]_vars

(* Automatic closing without another handler at work, and whose update of    *)
(* the rows did not fail, picks a position for its age or for a limit it     *)
(* meets at the price just read (0 if it could not be): the mark another     *)
(* request left, at another price, never decides, nor does a position that   *)
(* is opened meanwhile and has no mark.                                      *)
ClosedForItsQuote ==
  [][\A h \in Busy :
       call[h].at = "criteria" /\ call[h].alone /\ call[h].fresh
       => \A id \in call'[h].todo :
            Meets(call[h].by, [rows[id] EXCEPT !.current = call[h].quote])]_vars

=============================================================================
