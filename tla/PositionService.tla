-------------------------- MODULE PositionService --------------------------
(***************************************************************************)
(* The order path of Executor.tla together with the requests by which the  *)
(* API trades on the same account and writes the same positions table:     *)
(* manual orders, opening and closing of positions, automatic closing      *)
(* (services/position_service.py, api/routes/trading.py).                  *)
(*                                                                         *)
(* A request takes no symbol lock.  It is a loop over awaits like the      *)
(* executor, so one action is again the code between two awaits that touch *)
(* shared state.  add_trade commutes with every other step (no step reads  *)
(* the trades it writes), so it is part of the booking that follows it.    *)
(***************************************************************************)
EXTENDS Executor

CONSTANTS
  Handlers,    \* requests served at the same time
  Quantities,  \* quantities users ask for
  MaxCalls,    \* bound on the number of requests
  NoRow        \* the handler holds no row

ASSUME PositionServiceAssumption ==
  /\ Quantities \subseteq Nat \ {0}
  /\ MaxCalls \in Nat
  /\ RowIds \subseteq Nat
  /\ NoRow \notin RowIds

VARIABLES
  paper,   \* PAPER_TRADING of the API process: positions without orders
  call,    \* what each handler is doing
  calls,   \* requests so far
  sold     \* history: rows for which a close request has sold

api     == <<paper, call, calls, sold>>
allVars == <<vars, api>>

Ops  == {"none", "manual_buy", "manual_sell", "open", "close"}
Call == [at     : {"idle", "pick", "order", "book"},
         op     : Ops,
         id     : RowIds \cup {NoRow},    \* close: the row in hand
         qty    : Nat,                    \* quantity of the order and of the books
         todo   : SUBSET RowIds,          \* close: rows still to be closed
         shared : BOOLEAN]                \* history: another handler had the row as well

Idle == [at |-> "idle", op |-> "none", id |-> NoRow, qty |-> 0, todo |-> {}, shared |-> FALSE]

-----------------------------------------------------------------------------
(* Definitions named ...Bug are the definition that follows them with one    *)
(* plausible mistake; no other definition uses them.                         *)

Ids(R)      == {r.id : r \in R}
Holds(a, id) == call[a].id = id \/ id \in call[a].todo
InUse(id)   == id \in Ids(rows) \/ (\E a \in Handlers : Holds(a, id))
                                \/ \E p \in Procs : id \in Ids(snap[p])

(* A new row takes the least id nobody remembers: which uuid4 it gets does *)
(* not matter, and no request may take the new row for an old one.         *)
NewIds    == Ids(rows') \ Ids(rows)
FreshOnly == \A id \in NewIds : ~InUse(id) /\ \A other \in RowIds : other < id => InUse(other)

(* A row that nobody remembers will not be sold again. *)
Recall(S) == sold' = {id \in S \ NewIds : InUse(id)'}

Becomes(a, c) == call' = [call EXCEPT ![a] = c]

(* The next row of a closing request, or the answer to the client. *)
Finish(a) ==
  Becomes(a, IF call[a].todo = {} THEN Idle
             ELSE [call[a] EXCEPT !.at = "pick", !.id = NoRow, !.qty = 0, !.shared = FALSE])

ApiTypeOK ==
  /\ TypeOK
  /\ paper \in BOOLEAN
  /\ call \in [Handlers -> Call]
  /\ calls \in 0 .. MaxCalls
  /\ sold \subseteq RowIds
  /\ \E id \in RowIds : ~InUse(id)          \* RowIds never runs out

ApiInit ==
  /\ Init
  /\ paper \in BOOLEAN
  /\ call = [a \in Handlers |-> Idle]
  /\ calls = 0
  /\ sold = {}

-----------------------------------------------------------------------------
(* The requests *)

Begin(a, c) ==
  /\ call[a] = Idle
  /\ calls < MaxCalls
  /\ calls' = calls + 1
  /\ Becomes(a, c)
  /\ Smooth
  /\ UNCHANGED <<redis, db, market, pc, local, paper, sold>>

(* place_manual_order: PAPER_TRADING does not apply to it *)
ManualOrder(a) ==
  \E op \in {"manual_buy", "manual_sell"}, q \in Quantities :
    Begin(a, [Idle EXCEPT !.at = "order", !.op = op, !.qty = q])

OpenPositionBug(a) ==                    \* the request model accepts any quantity
  \E q \in Quantities \cup {-MinOrder} :
    Begin(a, [Idle EXCEPT !.at = IF paper THEN "book" ELSE "order", !.op = "open", !.qty = q])

(* PositionService.open_position: no order in paper trading *)
OpenPosition(a) ==
  \E q \in Quantities :
    Begin(a, [Idle EXCEPT !.at = IF paper THEN "book" ELSE "order", !.op = "open", !.qty = q])

(* POST /positions/close names one row; it may be closed by the time it is read *)
CloseOne(a) ==
  \E id \in Ids(rows) : Begin(a, [Idle EXCEPT !.at = "pick", !.op = "close", !.todo = {id}])

(* auto_close_positions_by_criteria: the open rows are read once; loss,     *)
(* profit and age pick any of them.                                         *)
AutoClose(a) ==
  \E S \in SUBSET Ids(rows) :
    S # {} /\ Begin(a, [Idle EXCEPT !.at = "pick", !.op = "close", !.todo = S])

TakeRow(a, r) ==
  [call[a] EXCEPT !.at = IF paper THEN "book" ELSE "order", !.id = r.id, !.qty = r.qty,
                  !.todo = @ \ {r.id},
                  !.shared = \E b \in Handlers \ {a} : call[b].id = r.id]

(* A handler that has the row is told, for the properties, that a has it too. *)
MarkShared(a, r) ==
  call' = [b \in Handlers |->
             IF b = a THEN TakeRow(a, r)
             ELSE IF call[b].id = r.id THEN [call[b] EXCEPT !.shared = TRUE] ELSE call[b]]

Skip(a, id) == Becomes(a, IF call[a].todo = {id} THEN Idle
                          ELSE [call[a] EXCEPT !.todo = @ \ {id}])

PickRowBug(a) ==                    \* the status of the row is not read again
  /\ call[a].at = "pick"
  /\ \E id \in call[a].todo : MarkShared(a, [id |-> id, qty |-> MinOrder])
  /\ Smooth
  /\ UNCHANGED <<redis, db, market, pc, local, paper, calls, sold>>

(* close_position: get_position_by_id, and nothing for a row that is not open *)
PickRow(a) ==
  /\ call[a].at = "pick"
  /\ \E id \in call[a].todo :
       \/ \E r \in rows : r.id = id /\ MarkShared(a, r) /\ Smooth
       \/ id \notin Ids(rows) /\ Skip(a, id) /\ Smooth
       \/ Skip(a, id) /\ Fault
  /\ UNCHANGED <<redis, db, market, pc, local, paper, calls>>
  /\ Recall(sold)

Buying(a) == call[a].op \in {"manual_buy", "open"}

(* The exchange accepts the order of a and fills f of it. *)
Fill(a, f) ==
  /\ ~Buying(a) => call[a].qty <= held
  /\ held' = IF Buying(a) THEN held + f ELSE held - f
  /\ held' \in 0 .. MaxHeld

Sale(a) == Recall(IF call[a].op = "close" THEN sold \cup {call[a].id} ELSE sold)

(* place_order succeeded, with any part of the quantity executed: the       *)
(* service books what it asked for, not filled_qty.  A manual order has no  *)
(* row to book.                                                             *)
CallAnswered(a) ==
  /\ call[a].at = "order"
  /\ \E f \in 0 .. call[a].qty : Fill(a, f)
  /\ IF call[a].op \in {"open", "close"} THEN Becomes(a, [call[a] EXCEPT !.at = "book"])
                                         ELSE Finish(a)
  /\ Smooth
  /\ UNCHANGED <<redis, db, orders, pc, local, paper, calls>>
  /\ Sale(a)

(* place_order failed: nothing is stored, and a row to be closed stays open. *)
CallRefused(a) ==
  /\ call[a].at = "order"
  /\ Finish(a)
  /\ Smooth
  /\ UNCHANGED <<redis, db, market, pc, local, paper, calls>>
  /\ Recall(sold)

(* _call: the request timed out, accepted or not, and is sent again. *)
CallTimedOut(a) ==
  /\ call[a].at = "order"
  /\ \E f \in 0 .. call[a].qty : Fill(a, f)
  /\ Fault
  /\ UNCHANGED <<redis, db, orders, pc, local, paper, calls, call>>
  /\ Sale(a)

(* add_trade with create_position or TradeTrackerDB.close_position.  An      *)
(* exception is answered as a failure, although the order stands.            *)
Book(a) ==
  /\ call[a].at = "book"
  /\ \/ call[a].op = "open"  /\ InsertRow(call[a].qty) /\ Smooth
     \/ call[a].op = "close" /\ CloseRow([id |-> call[a].id, qty |-> call[a].qty]) /\ Smooth
     \/ UNCHANGED rows /\ Fault
  /\ Finish(a)
  /\ UNCHANGED <<redis, ledger, market, pc, local, paper, calls>>
  /\ Recall(sold)

(* The API process dies with all its requests. *)
ApiCrash ==
  /\ \E a \in Handlers : call[a] # Idle
  /\ call' = [a \in Handlers |-> Idle]
  /\ Fault
  /\ UNCHANGED <<redis, db, market, pc, local, paper, calls>>
  /\ Recall(sold)

-----------------------------------------------------------------------------
Request(a) == ManualOrder(a) \/ OpenPosition(a) \/ CloseOne(a) \/ AutoClose(a)
Serve(a)   == /\ \/ PickRow(a) \/ CallAnswered(a) \/ CallRefused(a) \/ CallTimedOut(a)
                 \/ Book(a)
              /\ FreshOnly

(* The executor and its environment as they are, next to the requests. *)
Beside(step) == step /\ UNCHANGED <<paper, call, calls>> /\ FreshOnly /\ Recall(sold)
ExecutorStep(p) == Beside(Process(p))

ApiNext ==
  \/ Beside(Environment)
  \/ \E p \in Procs : ExecutorStep(p)
  \/ \E a \in Handlers : Request(a) \/ Serve(a)
  \/ ApiCrash

ApiSpec     == ApiInit /\ [][ApiNext]_allVars

(* An executor goes on, and so does the event loop of the API with one of  *)
(* its requests.                                                           *)
ApiFairSpec == /\ ApiSpec
               /\ \A p \in Procs : WF_allVars(ExecutorStep(p))
               /\ WF_allVars(\E a \in Handlers : Serve(a))

-----------------------------------------------------------------------------
(* Properties *)

(* Requests that close the same row one after the other sell it once, as     *)
(* long as no call fails: only two requests that hold the row at the same    *)
(* time both sell, since close_position reads the status, then orders, then  *)
(* updates.                                                                  *)
SoldOnce ==
  [][\A a \in Handlers :
       /\ call[a].op = "close" /\ call[a].at = "order" /\ call'[a].at = "book"
       /\ faults = 0 /\ ~call[a].shared
       => call[a].id \notin sold]_allVars

(* Whatever the requests, the executor and the reconciliation do to each     *)
(* other's rows and orders, once they cease the table agrees with the        *)
(* account again: the reconciliation needs no lock to get there.             *)
ApiConverges == <>[]InSync

=============================================================================
