------------------------ MODULE PositionServiceProofs ------------------------
(***************************************************************************)
(* What holds of PositionService.tla for any executors, requests under way *)
(* at a time, rows, quantities and bounds, and which of the executor's     *)
(* guarantees (ExecutorProofs.tla) the requests of the API leave standing. *)
(***************************************************************************)
EXTENDS PositionService, ExecutorProofs

-----------------------------------------------------------------------------
(* Types *)

(* A request has a row in hand exactly from the moment it has picked it to   *)
(* the end of its booking.                                                   *)
HandInv ==
  \A a \in Handlers :
    /\ call[a].at \in {"idle", "pick"} => call[a].id = NoRow
    /\ call[a].at \in {"order", "book"} /\ call[a].op = "close" => call[a].id # NoRow

ApiTypeInv ==
  /\ TypeInv /\ HandInv
  /\ paper \in BOOLEAN
  /\ call \in [Handlers -> Call]
  /\ calls \in 0 .. MaxCalls
  /\ sold \subseteq RowIds

(* An executor deletes open rows or inserts one under a new id, and meets at *)
(* most one failure.                                                         *)
LEMMA TableStep ==
  ASSUME TypeOK, NEW p \in Procs, Process(p)
  PROVE  /\ rows' \subseteq rows \/ \E q \in Nat : InsertRow(q)
         /\ faults' = faults \/ faults' = faults + 1
<1> USE DEF TypeOK, redis, db, market, local, Smooth, Fault
<1>1. CASE Consume(p)
  BY <1>1 DEF Consume, PopSignal, PopTimeout, Restart
<1>2. CASE Reconcile(p)
  <2>1. CASE ReconcileCreate(p)
    BY <2>1 DEF ReconcileCreate
  <2>2. CASE ~ReconcileCreate(p)
    BY <1>2, <2>2 DEF Reconcile, ReconcileBalance, ReconcileRows, ReconcileDecide, ReconcileClose,
                      CloseNext, CloseRow
  <2> QED
    BY <2>1, <2>2
<1>3. CASE Execute(p)
  <2>1. CASE CreatePosition(p)
    BY <2>1 DEF CreatePosition
  <2>2. CASE ~CreatePosition(p)
    BY <1>3, <2>2 DEF Execute, AcquireLock, CheckProcessed, CheckOpenPositions, SizeOrder,
                OrderAnswered, OrderRejected, OrderTimedOut, AddTrade, ReadPositions,
                ClosePosition, MarkProcessed, ReleaseLock, CloseNext, CloseRow
  <2> QED
    BY <2>1, <2>2
<1> QED
  BY <1>1, <1>2, <1>3 DEF Process

(* The environment writes no row, and fails at most once. *)
LEMMA EnvironmentTable ==
  ASSUME TypeOK, Environment
  PROVE  UNCHANGED rows /\ (faults' = faults \/ faults' = faults + 1)
  BY DEF Environment, Publish, Redeliver, OutsideTrade, Crash, ExpireLock, Fault,
         redis, db, market, local

(* Next to the requests an executor or the environment changes neither what  *)
(* they do nor, except for rows that are gone, what they have sold.          *)
LEMMA BesideStep ==
  ASSUME ApiTypeInv, Beside(Environment) \/ \E p \in Procs : ExecutorStep(p)
  PROVE  /\ TypeInv'
         /\ UNCHANGED <<paper, call, calls>>
         /\ FreshOnly /\ Recall(sold)
         /\ rows' \subseteq rows \/ \E q \in Nat : InsertRow(q)
         /\ faults' = faults \/ faults' = faults + 1
<1>1. CASE Beside(Environment)
  <2>1. Environment /\ UNCHANGED <<paper, call, calls>> /\ FreshOnly /\ Recall(sold)
    BY <1>1 DEF Beside
  <2>2. TypeInv'
    BY <2>1, EnvironmentType, EnvironmentSignal DEF ApiTypeInv, TypeInv
  <2> QED
    BY <2>1, <2>2, EnvironmentTable DEF ApiTypeInv, TypeInv
<1>2. ASSUME NEW p \in Procs, ExecutorStep(p)
      PROVE  /\ TypeInv'
             /\ UNCHANGED <<paper, call, calls>>
             /\ FreshOnly /\ Recall(sold)
             /\ rows' \subseteq rows \/ \E q \in Nat : InsertRow(q)
             /\ faults' = faults \/ faults' = faults + 1
  <2>1. Process(p) /\ UNCHANGED <<paper, call, calls>> /\ FreshOnly /\ Recall(sold)
    BY <1>2 DEF ExecutorStep, Beside
  <2>2. TypeOK' /\ SignalInv'
    BY <2>1, ConsumeType, ReconcileType, ExecuteType, OthersUntouched, SignalStep
       DEF Process, ApiTypeInv, TypeInv, SignalInv
  <2>3. TypeInv'
    BY <2>2 DEF TypeInv
  <2> QED
    BY <2>1, <2>3, TableStep DEF ApiTypeInv, TypeInv
<1> QED
  BY <1>1, <1>2

(* The variables of the executor keep their types if a request leaves its    *)
(* process, Redis and the orders alone and writes well-formed rows.          *)
LEMMA AsideType ==
  ASSUME TypeInv, UNCHANGED <<redis, ledger, orders, pc, local>>, rows' \subseteq Row,
         held' \in Nat, faults' \in 0 .. MaxFaults
  PROVE  TypeInv'
  BY DEF TypeInv, TypeOK, SignalInv, redis, local

(* What the handler does, read as a change of its call *)
LEMMA IdleCall == Idle \in Call /\ Idle.at = "idle" /\ Idle.op = "none" /\ Idle.id = NoRow
  BY DEF Idle, Call, Ops

(* One handler's call changes, to c. *)
LEMMA BecomesIs ==
  ASSUME ApiTypeInv, NEW a \in Handlers, NEW c, Becomes(a, c)
  PROVE  /\ call'[a] = c
         /\ \A b \in Handlers \ {a} : call'[b] = call[b]
         /\ c \in Call => call' \in [Handlers -> Call]
  BY DEF ApiTypeInv, Becomes

(* The next row, or the answer to the client *)
LEMMA FinishIs ==
  ASSUME ApiTypeInv, NEW a \in Handlers, Finish(a)
  PROVE  /\ call' \in [Handlers -> Call]
         /\ \A b \in Handlers \ {a} : call'[b] = call[b]
         /\ call'[a].at \in {"idle", "pick"} /\ call'[a].id = NoRow
<1> DEFINE c == IF call[a].todo = {} THEN Idle
                ELSE [call[a] EXCEPT !.at = "pick", !.id = NoRow, !.qty = 0, !.shared = FALSE]
<1>1. c \in Call /\ c.at \in {"idle", "pick"} /\ c.id = NoRow
  BY IdleCall DEF ApiTypeInv, Call
<1>2. Becomes(a, c)
  BY DEF Finish
<1> HIDE DEF c
<1> QED
  BY <1>1, <1>2, BecomesIs

(* Every request begins without a row, before its first await. *)
LEMMA RequestIs ==
  ASSUME ApiTypeInv, NEW a \in Handlers, Request(a)
  PROVE  /\ call' \in [Handlers -> Call]
         /\ \A b \in Handlers \ {a} : call'[b] = call[b]
         /\ call[a] = Idle
         /\ call'[a].id = NoRow
         /\ call'[a].op = "close" => call'[a].at = "pick"
         /\ calls' \in 0 .. MaxCalls
         /\ UNCHANGED <<redis, db, market, pc, local, paper, sold, faults>>
<1> DEFINE Target == /\ call' \in [Handlers -> Call]
                     /\ \A b \in Handlers \ {a} : call'[b] = call[b]
                     /\ call[a] = Idle
                     /\ call'[a].id = NoRow
                     /\ call'[a].op = "close" => call'[a].at = "pick"
                     /\ calls' \in 0 .. MaxCalls
                     /\ UNCHANGED <<redis, db, market, pc, local, paper, sold, faults>>
<1>1. ASSUME NEW c \in Call, c.id = NoRow, c.op = "close" => c.at = "pick", Begin(a, c)
      PROVE  Target
  <2>1. Becomes(a, c)
    BY <1>1 DEF Begin
  <2>2. calls' \in 0 .. MaxCalls
    BY <1>1, PositionServiceAssumption DEF Begin, ApiTypeInv
  <2> QED
    BY <1>1, <2>1, <2>2, BecomesIs DEF Begin, Smooth
<1>2. Quantities \subseteq Nat
  BY PositionServiceAssumption
<1>3. Ids(rows) \subseteq RowIds
  BY DEF Ids, ApiTypeInv, TypeInv, TypeOK, Row
<1>4. CASE ManualOrder(a)
  <2>1. PICK op \in {"manual_buy", "manual_sell"}, q \in Quantities :
          Begin(a, [Idle EXCEPT !.at = "order", !.op = op, !.qty = q])
    BY <1>4, Zenon DEF ManualOrder
  <2>2. [Idle EXCEPT !.at = "order", !.op = op, !.qty = q] \in Call
        /\ [Idle EXCEPT !.at = "order", !.op = op, !.qty = q].id = NoRow
        /\ [Idle EXCEPT !.at = "order", !.op = op, !.qty = q].op # "close"
    BY <1>2 DEF Idle, Call, Ops
  <2> QED
    BY <1>1, <2>1, <2>2
<1>5. CASE OpenPosition(a)
  <2>0. PICK q \in Quantities :
          Begin(a, [Idle EXCEPT !.at = IF paper THEN "book" ELSE "order", !.op = "open", !.qty = q])
    BY <1>5, Zenon DEF OpenPosition
  <2> PICK at \in {"book", "order"} : at = IF paper THEN "book" ELSE "order"
    OBVIOUS
  <2>1. Begin(a, [Idle EXCEPT !.at = at, !.op = "open", !.qty = q])
    BY <2>0, Zenon
  <2>2. [Idle EXCEPT !.at = at, !.op = "open", !.qty = q] \in Call
        /\ [Idle EXCEPT !.at = at, !.op = "open", !.qty = q].id = NoRow
        /\ [Idle EXCEPT !.at = at, !.op = "open", !.qty = q].op = "open"
    BY <1>2 DEF Idle, Call, Ops
  <2> QED
    BY <1>1, <2>1, <2>2
<1>6. CASE CloseOne(a) \/ AutoClose(a)
  <2>1. PICK S \in SUBSET RowIds :
          Begin(a, [Idle EXCEPT !.at = "pick", !.op = "close", !.todo = S])
    <3>1. CASE CloseOne(a)
      <4>1. PICK id \in Ids(rows) :
              Begin(a, [Idle EXCEPT !.at = "pick", !.op = "close", !.todo = {id}])
        BY <3>1, Zenon DEF CloseOne
      <4>2. {id} \in SUBSET RowIds
        BY <1>3
      <4> QED
        BY <4>1, <4>2, Zenon
    <3>2. CASE AutoClose(a)
      <4>1. PICK S \in SUBSET Ids(rows) :
              Begin(a, [Idle EXCEPT !.at = "pick", !.op = "close", !.todo = S])
        BY <3>2, Zenon DEF AutoClose
      <4>2. S \in SUBSET RowIds
        BY <1>3
      <4> QED
        BY <4>1, <4>2, Zenon
    <3> QED
      BY <1>6, <3>1, <3>2, Zenon
  <2>2. [Idle EXCEPT !.at = "pick", !.op = "close", !.todo = S] \in Call
        /\ [Idle EXCEPT !.at = "pick", !.op = "close", !.todo = S].id = NoRow
        /\ [Idle EXCEPT !.at = "pick", !.op = "close", !.todo = S].at = "pick"
    BY DEF Idle, Call, Ops
  <2> QED
    BY <1>1, <2>1, <2>2
<1> QED
  BY <1>4, <1>5, <1>6 DEF Request

(* a takes row r; whoever has it in hand learns that it is shared. *)
Takes(a, r) ==
  /\ call'[a].id = r.id /\ call'[a].qty = r.qty /\ call'[a].op = call[a].op
  /\ call'[a].at \in {"order", "book"}
  /\ call'[a].shared = \E b \in Handlers \ {a} : call[b].id = r.id
  /\ \A b \in Handlers \ {a} :
       /\ call'[b].at = call[b].at /\ call'[b].op = call[b].op
       /\ call'[b].id = call[b].id /\ call'[b].qty = call[b].qty
       /\ IF call[b].id = r.id THEN call'[b].shared ELSE call'[b].shared = call[b].shared

(* A request goes on: what each of its steps does to the calls, the rows,    *)
(* the account and what it remembers to have sold.                           *)
LEMMA PickRowIs ==
  ASSUME ApiTypeInv, NEW a \in Handlers, PickRow(a)
  PROVE  /\ call[a].at = "pick"
         /\ call' \in [Handlers -> Call]
         /\ UNCHANGED <<redis, db, market, pc, local, paper, calls>>
         /\ Recall(sold)
         /\ \/ Smooth /\ \E r \in rows : Takes(a, r)
            \/ /\ Smooth \/ Fault
               /\ call'[a].id = NoRow /\ call'[a].at \in {"idle", "pick"}
               /\ \A b \in Handlers \ {a} : call'[b] = call[b]
<1> DEFINE Taken(r) == call' \in [Handlers -> Call] /\ Takes(a, r)
           Skipped == /\ call' \in [Handlers -> Call]
                      /\ call'[a].id = NoRow /\ call'[a].at \in {"idle", "pick"}
                      /\ \A b \in Handlers \ {a} : call'[b] = call[b]
<1>1. \A b \in Handlers : call[b] \in Call
  BY DEF ApiTypeInv
<1>2. call[a].at = "pick"
  BY DEF PickRow
<1>3. ASSUME NEW r \in rows, MarkShared(a, r) PROVE Taken(r)
  <2> DEFINE also == \E b \in Handlers \ {a} : call[b].id = r.id
             at   == IF paper THEN "book" ELSE "order"
             c    == [call[a] EXCEPT !.at = at, !.id = r.id, !.qty = r.qty,
                                     !.todo = call[a].todo \ {r.id}, !.shared = also]
  <2>1. also \in BOOLEAN /\ at \in {"order", "book"}
    OBVIOUS
  <2>2. r.id \in RowIds /\ r.qty \in Nat
    BY DEF ApiTypeInv, TypeInv, TypeOK, Row
  <2>3. TakeRow(a, r) = c
    BY <1>1 DEF TakeRow, Call
  <2> HIDE DEF also, at
  <2>4. /\ c \in Call /\ c.id = r.id /\ c.qty = r.qty /\ c.op = call[a].op /\ c.at = at
        /\ c.shared = also
    BY <1>1, <2>1, <2>2 DEF Call
  <2>5. \A b \in Handlers : [call[b] EXCEPT !.shared = TRUE] \in Call
    BY <1>1 DEF Call
  <2>6. call' = [b \in Handlers |->
                   IF b = a THEN TakeRow(a, r)
                   ELSE IF call[b].id = r.id THEN [call[b] EXCEPT !.shared = TRUE] ELSE call[b]]
    BY <1>3 DEF MarkShared
  <2> HIDE DEF c
  <2>7. call'[a] = c /\ call' \in [Handlers -> Call]
    BY <1>1, <2>3, <2>4, <2>5, <2>6, Zenon
  <2>8. ASSUME NEW b \in Handlers \ {a}
        PROVE  /\ call'[b].at = call[b].at /\ call'[b].op = call[b].op
               /\ call'[b].id = call[b].id /\ call'[b].qty = call[b].qty
               /\ IF call[b].id = r.id THEN call'[b].shared
                  ELSE call'[b].shared = call[b].shared
    <3>1. call'[b] = IF call[b].id = r.id THEN [call[b] EXCEPT !.shared = TRUE] ELSE call[b]
      BY <2>6
    <3> QED
      BY <1>1, <3>1 DEF Call
  <2> QED
    BY <2>1, <2>4, <2>7, <2>8 DEF also, Takes
<1>4. ASSUME NEW id \in call[a].todo, Skip(a, id) PROVE Skipped
  <2> DEFINE c == IF call[a].todo = {id} THEN Idle ELSE [call[a] EXCEPT !.todo = @ \ {id}]
  <2>1. c \in Call /\ c.id = NoRow /\ c.at \in {"idle", "pick"}
    BY <1>1, <1>2, IdleCall DEF Call, ApiTypeInv, HandInv
  <2>2. Becomes(a, c)
    BY <1>4 DEF Skip
  <2> HIDE DEF c
  <2> QED
    BY <2>1, <2>2, BecomesIs
<1>5. \/ Smooth /\ \E r \in rows : Taken(r)
      \/ (Smooth \/ Fault) /\ Skipped
  <2>1. PICK id \in call[a].todo :
          \/ \E r \in rows : r.id = id /\ MarkShared(a, r) /\ Smooth
          \/ id \notin Ids(rows) /\ Skip(a, id) /\ Smooth
          \/ Skip(a, id) /\ Fault
    BY DEF PickRow
  <2> HIDE DEF Taken, Skipped
  <2> QED
    BY <1>3, <1>4, <2>1
<1>6. UNCHANGED <<redis, db, market, pc, local, paper, calls>> /\ Recall(sold)
  BY DEF PickRow
<1> QED
  BY <1>2, <1>5, <1>6

(* An order of a request moves the account only; the answer leads on to the  *)
(* books, to the next row or to the end.                                     *)
LEMMA OrderIs ==
  ASSUME ApiTypeInv, NEW a \in Handlers,
         CallAnswered(a) \/ CallRefused(a) \/ CallTimedOut(a)
  PROVE  /\ call[a].at = "order"
         /\ call' \in [Handlers -> Call]
         /\ \A b \in Handlers \ {a} : call'[b] = call[b]
         /\ held' \in Nat
         /\ UNCHANGED <<redis, db, orders, pc, local, paper, calls>>
         /\ \/ /\ Smooth /\ Sale(a)
               /\ call[a].op \in {"open", "close"}
               /\ call'[a] = [call[a] EXCEPT !.at = "book"]
            \/ /\ Smooth
               /\ Recall(sold) \/ (Sale(a) /\ call[a].op # "close")
               /\ call'[a].id = NoRow /\ call'[a].at \in {"idle", "pick"}
            \/ Fault /\ Sale(a) /\ call'[a] = call[a]
<1>1. call[a] \in Call /\ call \in [Handlers -> Call] /\ held \in Nat
  BY DEF ApiTypeInv, TypeInv, TypeOK
<1>2. ASSUME NEW f, Fill(a, f) PROVE held' \in Nat
  BY <1>2, ConstantsAssumption DEF Fill
<1>3. CASE CallAnswered(a)
  <2>1. held' \in Nat
    BY <1>2, <1>3 DEF CallAnswered
  <2>2. CASE call[a].op \in {"open", "close"}
    <3>1. [call[a] EXCEPT !.at = "book"] \in Call
      BY <1>1 DEF Call
    <3>2. Becomes(a, [call[a] EXCEPT !.at = "book"])
      BY <1>3, <2>2 DEF CallAnswered
    <3> QED
      BY <1>3, <2>1, <2>2, <3>1, <3>2, BecomesIs DEF CallAnswered
  <2>3. CASE call[a].op \notin {"open", "close"}
    BY <1>3, <2>1, <2>3, FinishIs DEF CallAnswered
  <2> QED
    BY <2>2, <2>3
<1>4. CASE CallRefused(a)
  BY <1>1, <1>4, FinishIs DEF CallRefused, market
<1>5. CASE CallTimedOut(a)
  <2>1. held' \in Nat
    BY <1>2, <1>5 DEF CallTimedOut
  <2> QED
    BY <1>1, <1>5, <2>1 DEF CallTimedOut
<1> QED
  BY <1>3, <1>4, <1>5

(* A closing request that orders has a row of the table in hand. *)
LEMMA OrderHand ==
  ASSUME ApiTypeInv, NEW a \in Handlers, call[a].at = "order", call[a].op = "close"
  PROVE  call[a].id \in RowIds
  BY DEF ApiTypeInv, HandInv, Call

(* Booking inserts a row, closes the row in hand, or fails. *)
LEMMA BookIs ==
  ASSUME ApiTypeInv, NEW a \in Handlers, Book(a)
  PROVE  /\ call[a].at = "book"
         /\ call' \in [Handlers -> Call]
         /\ \A b \in Handlers \ {a} : call'[b] = call[b]
         /\ call'[a].id = NoRow /\ call'[a].at \in {"idle", "pick"}
         /\ UNCHANGED <<redis, ledger, market, pc, local, paper, calls>>
         /\ Recall(sold)
         /\ \/ call[a].op = "open" /\ InsertRow(call[a].qty) /\ Smooth
            \/ call[a].op = "close" /\ CloseRow([id |-> call[a].id, qty |-> call[a].qty]) /\ Smooth
            \/ UNCHANGED rows /\ Fault
<1>1. Finish(a)
  BY DEF Book
<1> QED
  BY <1>1, FinishIs DEF Book

(* Every request keeps hold of its row from the pick to the books. *)
LEMMA HandStep ==
  ASSUME ApiTypeInv, NEW a \in Handlers, Request(a) \/ Serve(a)
  PROVE  HandInv'
<1>1. ASSUME NEW b \in Handlers \ {a}
      PROVE  call'[b].at = call[b].at /\ call'[b].op = call[b].op /\ call'[b].id = call[b].id
  BY <1>1, RequestIs, PickRowIs, OrderIs, BookIs DEF Serve, Takes
<1>2. /\ call'[a].at \in {"idle", "pick"} => call'[a].id = NoRow
      /\ call'[a].at \in {"order", "book"} /\ call'[a].op = "close" => call'[a].id # NoRow
  <2>1. CASE Request(a)
    BY <2>1, RequestIs
  <2>2. CASE PickRow(a)
    <3>1. \A r \in rows : r.id # NoRow
      BY PositionServiceAssumption DEF ApiTypeInv, TypeInv, TypeOK, Row
    <3> QED
      BY <2>2, <3>1, PickRowIs DEF Takes
  <2>3. CASE CallAnswered(a) \/ CallRefused(a) \/ CallTimedOut(a)
    <3>1. call[a] \in Call
      BY DEF ApiTypeInv
    <3>2. call[a].op = "close" => call[a].id # NoRow
      BY <2>3, OrderIs, OrderHand, PositionServiceAssumption
    <3>3. \/ call'[a] = [call[a] EXCEPT !.at = "book"]
          \/ call'[a].id = NoRow /\ call'[a].at \in {"idle", "pick"}
          \/ call'[a] = call[a] /\ call[a].at = "order"
      BY <2>3, OrderIs
    <3> QED
      BY <3>1, <3>2, <3>3 DEF Call
  <2>4. CASE Book(a)
    BY <2>4, BookIs
  <2> QED
    BY <2>1, <2>2, <2>3, <2>4 DEF Serve
<1> QED
  BY <1>1, <1>2 DEF HandInv, ApiTypeInv

(* Every request keeps the types. *)
LEMMA HandlerType ==
  ASSUME ApiTypeInv, NEW a \in Handlers, Request(a) \/ Serve(a)
  PROVE  ApiTypeInv'
<1>1. /\ TypeInv /\ rows \subseteq Row /\ held \in Nat /\ sold \subseteq RowIds
      /\ faults \in 0 .. MaxFaults /\ paper \in BOOLEAN /\ calls \in 0 .. MaxCalls
      /\ \A b \in Handlers : call[b] \in Call
  BY DEF ApiTypeInv, TypeInv, TypeOK
<1>2. Smooth \/ Fault => faults' \in 0 .. MaxFaults
  BY FaultType DEF ApiTypeInv, TypeInv
<1>3. ASSUME NEW S, Recall(S), S \subseteq RowIds PROVE sold' \subseteq RowIds
  BY <1>3 DEF Recall
<1>4. CASE Request(a)
  <2>1. /\ call' \in [Handlers -> Call] /\ calls' \in 0 .. MaxCalls
        /\ UNCHANGED <<redis, db, market, pc, local, paper, sold, faults>>
    BY <1>4, RequestIs
  <2>2. TypeInv'
    BY <1>1, <2>1, AsideType DEF db, market
  <2> QED
    BY <1>1, <2>1, <2>2, HandStep DEF ApiTypeInv
<1>5. CASE PickRow(a)
  <2>1. /\ call' \in [Handlers -> Call] /\ Recall(sold) /\ (Smooth \/ Fault)
        /\ UNCHANGED <<redis, db, market, pc, local, paper, calls>>
    BY <1>5, PickRowIs
  <2>2. TypeInv'
    BY <1>1, <1>2, <2>1, AsideType DEF db, market
  <2> QED
    BY <1>1, <1>3, <2>1, <2>2, HandStep DEF ApiTypeInv
<1>6. CASE CallAnswered(a) \/ CallRefused(a) \/ CallTimedOut(a)
  <2>1. /\ call' \in [Handlers -> Call] /\ (Recall(sold) \/ Sale(a)) /\ (Smooth \/ Fault)
        /\ held' \in Nat
        /\ UNCHANGED <<redis, db, orders, pc, local, paper, calls>>
    BY <1>6, OrderIs
  <2>2. TypeInv'
    BY <1>1, <1>2, <2>1, AsideType DEF db
  <2>3. sold' \subseteq RowIds
    BY <1>1, <1>6, <2>1, OrderIs, OrderHand DEF Sale, Recall
  <2> QED
    BY <1>1, <2>1, <2>2, <2>3, HandStep DEF ApiTypeInv
<1>7. CASE Book(a)
  <2>1. /\ call' \in [Handlers -> Call] /\ Recall(sold) /\ (Smooth \/ Fault)
        /\ UNCHANGED <<redis, ledger, market, pc, local, paper, calls>>
        /\ \/ InsertRow(call[a].qty)
           \/ CloseRow([id |-> call[a].id, qty |-> call[a].qty])
           \/ UNCHANGED rows
    BY <1>7, BookIs
  <2>2. rows' \subseteq Row
    <3>1. call[a].qty \in Nat
      BY <1>1 DEF Call
    <3> QED
      BY <1>1, <2>1, <3>1 DEF InsertRow, CloseRow, Row
  <2>3. TypeInv'
    BY <1>1, <1>2, <2>1, <2>2, AsideType DEF market
  <2> QED
    BY <1>1, <1>3, <2>1, <2>3, HandStep DEF ApiTypeInv
<1> QED
  BY <1>4, <1>5, <1>6, <1>7 DEF Serve

(* Every step keeps the types, Init of the API process has them. *)
LEMMA ApiTypeStep == ApiTypeInv /\ [ApiNext]_allVars => ApiTypeInv'
<1> SUFFICES ASSUME ApiTypeInv, [ApiNext]_allVars PROVE ApiTypeInv'
  OBVIOUS
<1>1. CASE Beside(Environment) \/ \E p \in Procs : ExecutorStep(p)
  <2>1. TypeInv' /\ UNCHANGED <<paper, call, calls>> /\ Recall(sold)
    BY <1>1, BesideStep
  <2>2. sold' \subseteq RowIds
    BY <2>1 DEF Recall, ApiTypeInv
  <2> QED
    BY <2>1, <2>2 DEF ApiTypeInv, HandInv
<1>2. ASSUME NEW a \in Handlers, Request(a) \/ Serve(a) PROVE ApiTypeInv'
  BY <1>2, HandlerType
<1>3. CASE ApiCrash
  <2>1. /\ call' = [a \in Handlers |-> Idle] /\ Recall(sold)
        /\ UNCHANGED <<redis, db, market, pc, local, paper, calls>>
        /\ faults' \in 0 .. MaxFaults
    BY <1>3, FaultType DEF ApiCrash, ApiTypeInv, TypeInv
  <2>2. TypeInv'
    BY <2>1, AsideType DEF db, market, ApiTypeInv, TypeInv, TypeOK
  <2>3. sold' \subseteq RowIds
    BY <2>1 DEF Recall, ApiTypeInv
  <2> QED
    BY <2>1, <2>2, <2>3, IdleCall DEF ApiTypeInv, HandInv
<1>4. CASE UNCHANGED allVars
  <2>1. UNCHANGED <<redis, db, market, pc, local, faults, paper, call, calls, sold>>
    BY <1>4 DEF allVars, vars, api
  <2>2. TypeInv'
    BY <2>1, AsideType DEF db, market, ApiTypeInv, TypeInv, TypeOK
  <2> QED
    BY <2>1, <2>2 DEF ApiTypeInv, HandInv
<1> QED
  BY <1>1, <1>2, <1>3, <1>4 DEF ApiNext

(* ApiTypeInv holds in every reachable state. *)
LEMMA ApiTypeKnown == ApiSpec => []ApiTypeInv
<1>1. ApiInit => ApiTypeInv
  <2> SUFFICES ASSUME ApiInit PROVE ApiTypeInv
    OBVIOUS
  <2>1. TypeInv
    BY InitType DEF TypeInv, ApiInit, Init, SignalInv, CriticalPC
  <2> QED
    BY <2>1, IdleCall, PositionServiceAssumption DEF ApiInit, ApiTypeInv, HandInv
<1> QED
  BY <1>1, ApiTypeStep, PTL DEF ApiSpec

-----------------------------------------------------------------------------
(* Rows and the requests that have them in hand *)

(* A row has an id of its own, and the quantity that whoever has it in hand  *)
(* will sell and close it with.                                              *)
TableInv ==
  /\ \A r, s \in rows : r.id = s.id => r = s
  /\ \A a \in Handlers : \A r \in rows : r.id = call[a].id => r.qty = call[a].qty

(* A row that is inserted has an id nobody remembers. *)
LEMMA NewRow ==
  ASSUME ApiTypeInv, TableInv, rows' \subseteq rows \/ \E q \in Nat : InsertRow(q), FreshOnly
  PROVE  /\ \A r, s \in rows' : r.id = s.id => r = s
         /\ \A r \in rows' \ rows : /\ r.id \in NewIds
                                    /\ \A a \in Handlers : call[a].id # r.id
<1>1. CASE rows' \subseteq rows
  BY <1>1 DEF TableInv
<1>2. ASSUME NEW q \in Nat, InsertRow(q)
      PROVE  /\ \A r, s \in rows' : r.id = s.id => r = s
             /\ \A r \in rows' \ rows : /\ r.id \in NewIds
                                        /\ \A a \in Handlers : call[a].id # r.id
  <2>1. PICK id \in RowIds : FreshRow(id) /\ rows' = rows \cup {[id |-> id, qty |-> q]}
    BY <1>2 DEF InsertRow
  <2>2. \A r \in rows : r.id # id
    BY <2>1 DEF FreshRow
  <2>3. id \in NewIds
    BY <2>1, <2>2 DEF NewIds, Ids
  <2>4. ~InUse(id)
    BY <2>3 DEF FreshOnly
  <2>5. \A a \in Handlers : call[a].id # id
    BY <2>4 DEF InUse, Holds
  <2> QED
    BY <2>1, <2>2, <2>3, <2>5 DEF TableInv
<1> QED
  BY <1>1, <1>2

(* TableInv is kept by every step. *)
LEMMA TableKept == ApiTypeInv /\ TableInv /\ [ApiNext]_allVars => TableInv'
<1> SUFFICES ASSUME ApiTypeInv, TableInv, [ApiNext]_allVars PROVE TableInv'
  OBVIOUS
<1>1. CASE Beside(Environment) \/ \E p \in Procs : ExecutorStep(p)
  <2>1. /\ UNCHANGED call
        /\ \A r, s \in rows' : r.id = s.id => r = s
        /\ \A r \in rows' \ rows : \A a \in Handlers : call[a].id # r.id
    BY <1>1, BesideStep, NewRow
  <2> QED
    BY <2>1 DEF TableInv
<1>2. \A r \in rows : r.id # NoRow
  BY PositionServiceAssumption DEF ApiTypeInv, TypeInv, TypeOK, Row
<1>3. ASSUME NEW a \in Handlers, UNCHANGED rows, call'[a].id = NoRow \/ call'[a] = call[a],
             \A b \in Handlers \ {a} : call'[b].id = call[b].id /\ call'[b].qty = call[b].qty
      PROVE  TableInv'
  BY <1>2, <1>3 DEF TableInv
<1>4. ASSUME NEW a \in Handlers, Request(a) PROVE TableInv'
  BY <1>3, <1>4, RequestIs DEF db
<1>5. ASSUME NEW a \in Handlers, PickRow(a) PROVE TableInv'
  <2>1. UNCHANGED rows
    BY <1>5, PickRowIs DEF db
  <2>2. CASE /\ call'[a].id = NoRow
             /\ \A b \in Handlers \ {a} : call'[b] = call[b]
    BY <1>3, <2>1, <2>2
  <2>3. ASSUME NEW r \in rows, Takes(a, r) PROVE TableInv'
    BY <2>1, <2>3 DEF TableInv, Takes
  <2> QED
    BY <1>5, <2>2, <2>3, PickRowIs
<1>6. ASSUME NEW a \in Handlers, CallAnswered(a) \/ CallRefused(a) \/ CallTimedOut(a)
      PROVE  TableInv'
  <2>1. /\ UNCHANGED rows /\ call[a] \in Call
        /\ \A b \in Handlers \ {a} : call'[b] = call[b]
        /\ \/ call'[a] = [call[a] EXCEPT !.at = "book"]
           \/ call'[a].id = NoRow
           \/ call'[a] = call[a]
    BY <1>6, OrderIs DEF db, ApiTypeInv
  <2>2. CASE call'[a] = [call[a] EXCEPT !.at = "book"]
    <3>1. call'[a].id = call[a].id /\ call'[a].qty = call[a].qty
      BY <2>1, <2>2 DEF Call
    <3> QED
      BY <2>1, <3>1 DEF TableInv
  <2> QED
    BY <1>3, <2>1, <2>2
<1>7. ASSUME NEW a \in Handlers, Book(a), FreshOnly PROVE TableInv'
  <2>1. /\ call'[a].id = NoRow
        /\ \A b \in Handlers \ {a} : call'[b] = call[b]
        /\ rows' \subseteq rows \/ \E q \in Nat : InsertRow(q)
    <3>1. call[a].qty \in Nat
      BY DEF ApiTypeInv, Call
    <3> QED
      BY <1>7, <3>1, BookIs DEF CloseRow
  <2>2. /\ \A r, s \in rows' : r.id = s.id => r = s
        /\ \A r \in rows' \ rows : \A b \in Handlers : call[b].id # r.id
    BY <1>7, <2>1, NewRow
  <2>3. \A r \in rows' : r.id # NoRow
    <3>1. ApiTypeInv'
      BY ApiTypeStep
    <3> QED
      BY <3>1, PositionServiceAssumption DEF ApiTypeInv, TypeInv, TypeOK, Row
  <2> QED
    BY <2>1, <2>2, <2>3 DEF TableInv
<1>8. CASE ApiCrash
  BY <1>2, <1>8, IdleCall DEF ApiCrash, TableInv, db
<1>9. CASE UNCHANGED allVars
  BY <1>9 DEF allVars, vars, api, db, TableInv
<1> QED
  BY <1>1, <1>4, <1>5, <1>6, <1>7, <1>8, <1>9 DEF ApiNext, Serve

-----------------------------------------------------------------------------
(* A row is sold once *)

Seller(a, id) == call[a].op = "close" /\ call[a].at = "book" /\ call[a].id = id

(* Until a call fails, a row that was sold and is still open is about to be  *)
(* closed by who has sold it; whoever else picks it knows that it shares it. *)
SoldInv ==
  faults = 0 =>
    /\ \A id \in sold \cap Ids(rows) : \E a \in Handlers : Seller(a, id)
    /\ \A a \in Handlers :
         call[a].op = "close" /\ call[a].at = "order" /\ ~call[a].shared => call[a].id \notin sold
    /\ \A a, b \in Handlers :
         a # b /\ call[a].id = call[b].id => call[a].id = NoRow \/ call[a].shared

(* What was sold earlier is forgotten with the row, and no new row is taken  *)
(* for it.                                                                   *)
LEMMA Recalled ==
  ASSUME NEW S, Recall(S)
  PROVE  /\ sold' \subseteq S
         /\ \A id \in sold' \cap Ids(rows') : id \in Ids(rows)
  BY DEF Recall, NewIds

(* SoldInv is kept while what the calls say of their rows stays as it is. *)
LEMMA SoldSame ==
  ASSUME SoldInv, faults = 0, Recall(sold) \/ (UNCHANGED sold /\ UNCHANGED rows),
         NEW a \in Handlers, call'[a] = call[a] \/ (call'[a].id = NoRow /\ call'[a].at # "order"),
         \A id \in sold' \cap Ids(rows') : ~Seller(a, id) \/ call'[a] = call[a],
         \A b \in Handlers \ {a} : call'[b] = call[b]
  PROVE  SoldInv'
<1>1. sold' \subseteq sold /\ \A id \in sold' \cap Ids(rows') : id \in Ids(rows)
  BY Recalled DEF Ids
<1>2. \A b \in Handlers : call'[b] = call[b] \/ (call'[b].id = NoRow /\ call'[b].at # "order")
  OBVIOUS
<1>3. ASSUME NEW id \in sold' \cap Ids(rows') PROVE \E b \in Handlers : Seller(b, id)'
  <2>1. PICK b \in Handlers : Seller(b, id)
    BY <1>1, <1>3 DEF SoldInv
  <2>2. call'[b] = call[b]
    BY <1>3, <2>1
  <2> QED
    BY <2>1, <2>2 DEF Seller
<1>4. \A b \in Handlers : call'[b].op = "close" /\ call'[b].at = "order" /\ ~call'[b].shared
                            => call'[b].id \notin sold'
  BY <1>1, <1>2 DEF SoldInv
<1>5. \A b, c \in Handlers : b # c /\ call'[b].id = call'[c].id
                               => call'[b].id = NoRow \/ call'[b].shared
  BY <1>2 DEF SoldInv
<1> QED
  BY <1>3, <1>4, <1>5 DEF SoldInv

(* Picking a row: whoever has it learns of the others, and a row that was    *)
(* sold and not yet closed is in the hands of its seller.                    *)
LEMMA SoldPick ==
  ASSUME ApiTypeInv, SoldInv, faults = 0, NEW a \in Handlers, PickRow(a), faults' = 0
  PROVE  SoldInv'
<1>1. /\ call[a].at = "pick" /\ UNCHANGED rows /\ Recall(sold)
  BY PickRowIs DEF db
<1>2. CASE /\ call'[a].id = NoRow /\ call'[a].at \in {"idle", "pick"}
           /\ \A b \in Handlers \ {a} : call'[b] = call[b]
  BY <1>1, <1>2, SoldSame DEF Seller
<1>3. ASSUME NEW r \in rows, Takes(a, r) PROVE SoldInv'
  <2> USE <1>3 DEF Takes
  <2>1. sold' \subseteq sold /\ Ids(rows') = Ids(rows) /\ r.id \in Ids(rows)
    BY <1>1, Recalled DEF Ids
  <2>2. ASSUME NEW id \in sold' \cap Ids(rows') PROVE \E b \in Handlers \ {a} : Seller(b, id) /\ Seller(b, id)'
    <3>1. PICK b \in Handlers : Seller(b, id)
      BY <2>1, <2>2 DEF SoldInv
    <3>2. b # a
      BY <1>1, <3>1 DEF Seller
    <3> QED
      BY <1>3, <3>1, <3>2 DEF Seller
  <2>3. ASSUME NEW b \in Handlers, call'[b].op = "close", call'[b].at = "order", ~call'[b].shared
        PROVE  call'[b].id \notin sold'
    <3>1. CASE b = a
      <4> SUFFICES ASSUME r.id \in sold' PROVE FALSE
        BY <1>3, <3>1
      <4>1. PICK c \in Handlers \ {a} : Seller(c, r.id)
        BY <2>1, <2>2
      <4>2. call'[a].shared
        BY <1>3, <4>1 DEF Seller
      <4> QED
        BY <2>3, <3>1, <4>2
    <3>2. CASE b # a
      BY <1>3, <2>1, <2>3, <3>2 DEF SoldInv
    <3> QED
      BY <3>1, <3>2
  <2>4. ASSUME NEW b \in Handlers, NEW c \in Handlers, b # c, call'[b].id = call'[c].id
        PROVE  call'[b].id = NoRow \/ call'[b].shared
    <3>1. CASE b = a
      BY <1>3, <2>4, <3>1
    <3>2. CASE b # a /\ c = a
      BY <1>3, <2>4, <3>2
    <3>3. CASE b # a /\ c # a
      BY <1>3, <2>4, <3>3 DEF SoldInv
    <3> QED
      BY <3>1, <3>2, <3>3
  <2> QED
    BY <2>2, <2>3, <2>4 DEF SoldInv
<1>4. ~Fault
  BY DEF Fault
<1> QED
  BY <1>2, <1>3, <1>4, PickRowIs

(* An answered order of a close: the row is sold, by the only one that has   *)
(* it or by one of those that know they share it.                            *)
LEMMA SoldAnswer ==
  ASSUME ApiTypeInv, SoldInv, faults = 0, NEW a \in Handlers,
         call[a].at = "order", call'[a] = [call[a] EXCEPT !.at = "book"], Sale(a),
         \A b \in Handlers \ {a} : call'[b] = call[b], UNCHANGED rows
  PROVE  SoldInv'
<1>1. /\ call'[a].at = "book" /\ call'[a].id = call[a].id /\ call'[a].op = call[a].op
      /\ call'[a].shared = call[a].shared
  BY DEF ApiTypeInv, Call
<1>2. Ids(rows') = Ids(rows)
  BY DEF Ids
<1>3. ASSUME NEW id \in sold' PROVE id \in sold \/ (call[a].op = "close" /\ id = call[a].id)
  BY <1>3 DEF Sale, Recall
<1>4. ASSUME NEW id \in sold' \cap Ids(rows') PROVE \E b \in Handlers : Seller(b, id)'
  <2>1. CASE call[a].op = "close" /\ id = call[a].id
    BY <1>1, <2>1 DEF Seller
  <2>2. CASE id \in sold
    <3>1. PICK b \in Handlers : Seller(b, id)
      BY <1>2, <1>4, <2>2 DEF SoldInv
    <3> QED
      BY <3>1 DEF Seller
  <2> QED
    BY <1>3, <1>4, <2>1, <2>2
<1>5. ASSUME NEW b \in Handlers, call'[b].op = "close", call'[b].at = "order", ~call'[b].shared
      PROVE  call'[b].id \notin sold'
  <2>1. b # a /\ call'[b] = call[b]
    BY <1>1, <1>5
  <2>2. call[b].id \notin sold
    BY <1>5, <2>1 DEF SoldInv
  <2>3. call[a].op = "close" => call[b].id # call[a].id
    <3>1. call[b].id # NoRow
      BY <1>5, <2>1 DEF ApiTypeInv, HandInv
    <3> QED
      BY <1>5, <2>1, <3>1 DEF SoldInv
  <2> QED
    BY <1>3, <2>1, <2>2, <2>3
<1>6. \A b, c \in Handlers : b # c /\ call'[b].id = call'[c].id
                               => call'[b].id = NoRow \/ call'[b].shared
  <2>1. \A b \in Handlers : call'[b].id = call[b].id /\ call'[b].shared = call[b].shared
    BY <1>1
  <2> QED
    BY <2>1 DEF SoldInv
<1> QED
  BY <1>4, <1>5, <1>6 DEF SoldInv

(* Booking a close takes the row out of the table, under whatever name. *)
LEMMA SoldBook ==
  ASSUME ApiTypeInv, TableInv, SoldInv, faults = 0, NEW a \in Handlers, Book(a), faults' = 0
  PROVE  SoldInv'
<1>1. /\ call[a].at = "book" /\ call'[a].id = NoRow /\ call'[a].at \in {"idle", "pick"}
      /\ \A b \in Handlers \ {a} : call'[b] = call[b]
      /\ Recall(sold)
  BY BookIs
<1>2. CASE call[a].op # "close"
  BY <1>1, <1>2, SoldSame DEF Seller
<1>3. CASE CloseRow([id |-> call[a].id, qty |-> call[a].qty])
  <2>1. call[a].id \notin Ids(rows')
    <3> SUFFICES ASSUME NEW r \in rows', r.id = call[a].id PROVE FALSE
      BY DEF Ids
    <3>1. r \in rows /\ r # [id |-> call[a].id, qty |-> call[a].qty]
      BY <1>3 DEF CloseRow
    <3>2. r.qty = call[a].qty /\ r \in Row
      BY <3>1 DEF TableInv, ApiTypeInv, TypeInv, TypeOK
    <3> QED
      BY <3>1, <3>2 DEF Row
  <2>2. \A id \in sold' \cap Ids(rows') : ~Seller(a, id)
    BY <2>1 DEF Seller
  <2> QED
    BY <1>1, <2>2, SoldSame
<1>4. ~Fault
  BY DEF Fault
<1> QED
  BY <1>2, <1>3, <1>4, BookIs

(* SoldInv is kept by every step. *)
LEMMA SoldStep == ApiTypeInv /\ TableInv /\ SoldInv /\ [ApiNext]_allVars => SoldInv'
<1> SUFFICES ASSUME ApiTypeInv, TableInv, SoldInv, [ApiNext]_allVars, faults' = 0 PROVE SoldInv'
  BY DEF SoldInv
<1>1. faults \in Nat
  BY DEF ApiTypeInv, TypeInv, TypeOK
<1>2. ~Fault
  BY <1>1 DEF Fault
<1>3. CASE Beside(Environment) \/ \E p \in Procs : ExecutorStep(p)
  <2>1. UNCHANGED call /\ Recall(sold) /\ faults = 0
    BY <1>1, <1>3, BesideStep
  <2>2. sold' \subseteq sold /\ \A id \in sold' \cap Ids(rows') : id \in Ids(rows)
    BY <2>1, Recalled
  <2> QED
    BY <2>1, <2>2 DEF SoldInv, Seller
<1>4. ASSUME NEW a \in Handlers, Request(a) PROVE SoldInv'
  <2>1. /\ call[a] = Idle /\ call'[a].id = NoRow /\ faults = 0 /\ UNCHANGED <<sold, rows>>
        /\ call'[a].op = "close" => call'[a].at = "pick"
        /\ \A b \in Handlers \ {a} : call'[b] = call[b]
    BY <1>4, RequestIs DEF db
  <2>2. \A id : ~Seller(a, id)
    BY <2>1, IdleCall DEF Seller
  <2>3. Ids(rows') = Ids(rows)
    BY <2>1 DEF Ids
  <2>4. \A id \in sold' \cap Ids(rows') : \E b \in Handlers : Seller(b, id)'
    BY <2>1, <2>2, <2>3 DEF SoldInv, Seller
  <2> QED
    BY <2>1, <2>4 DEF SoldInv
<1>5. ASSUME NEW a \in Handlers, PickRow(a) PROVE SoldInv'
  BY <1>2, <1>5, PickRowIs, SoldPick DEF Smooth
<1>6. ASSUME NEW a \in Handlers, CallAnswered(a) \/ CallRefused(a) \/ CallTimedOut(a)
      PROVE  SoldInv'
  <2>1. /\ call[a].at = "order" /\ UNCHANGED rows /\ faults = 0
        /\ \A b \in Handlers \ {a} : call'[b] = call[b]
    BY <1>2, <1>6, OrderIs DEF db, Smooth
  <2>2. CASE Sale(a) /\ call'[a] = [call[a] EXCEPT !.at = "book"]
    BY <2>1, <2>2, SoldAnswer
  <2>3. CASE /\ Recall(sold) \/ (Sale(a) /\ call[a].op # "close")
             /\ call'[a].id = NoRow /\ call'[a].at \in {"idle", "pick"}
    <3>1. Recall(sold)
      BY <2>3 DEF Sale
    <3> QED
      BY <2>1, <2>3, <3>1, SoldSame DEF Seller
  <2> QED
    BY <1>2, <1>6, <2>2, <2>3, OrderIs
<1>7. ASSUME NEW a \in Handlers, Book(a) PROVE SoldInv'
  BY <1>2, <1>7, BookIs, SoldBook DEF Smooth
<1>8. CASE UNCHANGED allVars
  BY <1>8 DEF SoldInv, Seller, Ids, allVars, vars, api, db
<1> QED
  BY <1>2, <1>3, <1>4, <1>5, <1>6, <1>7, <1>8 DEF ApiNext, Serve, ApiCrash

(* close_position reads the status of a row, then orders, then updates, with *)
(* awaits in between and under no lock; still, until a call fails, requests  *)
(* sell a row twice only if two of them had it in hand at the same time,     *)
(* whatever the executor and its reconciliation do to the table meanwhile.   *)
THEOREM RowsAreSoldOnce == ApiSpec => SoldOnce
<1>1. ApiInit => TableInv /\ SoldInv
  BY IdleCall DEF ApiInit, Init, TableInv, SoldInv
<1>2. SoldInv => \A a \in Handlers :
        /\ call[a].op = "close" /\ call[a].at = "order" /\ call'[a].at = "book"
        /\ faults = 0 /\ ~call[a].shared
        => call[a].id \notin sold
  BY DEF SoldInv
<1> QED
  BY <1>1, <1>2, ApiTypeKnown, TableKept, SoldStep, PTL DEF ApiSpec, SoldOnce

-----------------------------------------------------------------------------
(* Ids do not run out *)

(* The table, what is remembered of it, and what is left to close are finite. *)
FiniteInv ==
  /\ IsFiniteSet(rows)
  /\ \A p \in Procs : IsFiniteSet(snap[p])
  /\ \A a \in Handlers : IsFiniteSet(call[a].todo)

(* An executor remembers rows of the table, or fewer than before. *)
LEMMA SnapStep ==
  ASSUME TypeOK, NEW p \in Procs, Process(p), NEW q \in Procs
  PROVE  snap'[q] = rows \/ snap'[q] \subseteq snap[q]
<1> USE DEF TypeOK, redis, db, market, local, EndReconcile, Drop, Forget
<1>1. CASE Consume(p)
  BY <1>1 DEF Consume, PopSignal, PopTimeout, Restart
<1>2. CASE Reconcile(p)
  BY <1>2 DEF Reconcile, ReconcileBalance, ReconcileRows, ReconcileDecide, ReconcileClose,
              ReconcileCreate, CloseNext
<1>3. CASE Execute(p)
  BY <1>3 DEF Execute, AcquireLock, CheckProcessed, CheckOpenPositions, SizeOrder,
              OrderAnswered, OrderRejected, OrderTimedOut, AddTrade, CreatePosition,
              ReadPositions, ClosePosition, MarkProcessed, ReleaseLock, CloseNext
<1> QED
  BY <1>1, <1>2, <1>3 DEF Process

(* The environment makes executors forget, at most. *)
LEMMA EnvironmentSnap ==
  ASSUME TypeOK, Environment, NEW q \in Procs
  PROVE  snap'[q] \subseteq snap[q]
  BY DEF TypeOK, Environment, Publish, Redeliver, OutsideTrade, Crash, ExpireLock, Forget,
         redis, db, market, local

(* A request closes rows of the table, and one less with every turn. *)
LEMMA TodoStep ==
  ASSUME ApiTypeInv, NEW a \in Handlers, Request(a) \/ Serve(a), NEW b \in Handlers
  PROVE  call'[b].todo \subseteq call[b].todo \/ call'[b].todo \subseteq Ids(rows)
<1>1. \A c \in Handlers : call[c] \in Call
  BY DEF ApiTypeInv
<1> DEFINE Less == call'[b].todo \subseteq call[b].todo \/ call'[b].todo \subseteq Ids(rows)
<1>2. Idle.todo = {}
  BY DEF Idle
<1>3. ASSUME NEW c, Becomes(a, c), c.todo \subseteq call[a].todo \/ c.todo \subseteq Ids(rows)
      PROVE  Less
  BY <1>3, BecomesIs
<1>4. ASSUME Finish(a) PROVE Less
  <2> DEFINE c == IF call[a].todo = {} THEN Idle
                  ELSE [call[a] EXCEPT !.at = "pick", !.id = NoRow, !.qty = 0, !.shared = FALSE]
  <2>1. c.todo \subseteq call[a].todo
    BY <1>1, <1>2 DEF Call
  <2>2. Becomes(a, c)
    BY <1>4 DEF Finish
  <2> HIDE DEF c
  <2> QED
    BY <1>3, <2>1, <2>2
<1>5. CASE Request(a)
  <2>1. ASSUME NEW c, c.todo \subseteq Ids(rows), Begin(a, c) PROVE Less
    BY <1>3, <2>1 DEF Begin
  <2>2. CASE ManualOrder(a)
    <3>1. PICK op \in {"manual_buy", "manual_sell"}, q \in Quantities :
            Begin(a, [Idle EXCEPT !.at = "order", !.op = op, !.qty = q])
      BY <2>2, Zenon DEF ManualOrder
    <3>2. [Idle EXCEPT !.at = "order", !.op = op, !.qty = q].todo = {}
      BY DEF Idle
    <3> QED
      BY <2>1, <3>1, <3>2
  <2>3. CASE OpenPosition(a)
    <3>1. PICK q \in Quantities :
            Begin(a, [Idle EXCEPT !.at = IF paper THEN "book" ELSE "order", !.op = "open", !.qty = q])
      BY <2>3, Zenon DEF OpenPosition
    <3>2. [Idle EXCEPT !.at = IF paper THEN "book" ELSE "order", !.op = "open", !.qty = q].todo = {}
      BY DEF Idle
    <3> QED
      BY <2>1, <3>1, <3>2
  <2>4. ASSUME NEW S \in SUBSET Ids(rows),
               Begin(a, [Idle EXCEPT !.at = "pick", !.op = "close", !.todo = S])
        PROVE  Less
    <3>1. [Idle EXCEPT !.at = "pick", !.op = "close", !.todo = S].todo = S
      BY DEF Idle
    <3> QED
      BY <2>1, <2>4, <3>1
  <2>5. CASE CloseOne(a)
    <3>1. PICK id \in Ids(rows) :
            Begin(a, [Idle EXCEPT !.at = "pick", !.op = "close", !.todo = {id}])
      BY <2>5, Zenon DEF CloseOne
    <3>2. {id} \in SUBSET Ids(rows)
      OBVIOUS
    <3> QED
      BY <2>4, <3>1, <3>2
  <2>6. CASE AutoClose(a)
    BY <2>4, <2>6, Zenon DEF AutoClose
  <2> QED
    BY <1>5, <2>2, <2>3, <2>5, <2>6 DEF Request
<1>6. CASE PickRow(a)
  <2>1. PICK id \in call[a].todo : (\E r \in rows : MarkShared(a, r)) \/ Skip(a, id)
    BY <1>6 DEF PickRow
  <2>2. CASE Skip(a, id)
    <3> DEFINE c == IF call[a].todo = {id} THEN Idle ELSE [call[a] EXCEPT !.todo = @ \ {id}]
    <3>1. c.todo \subseteq call[a].todo
      BY <1>1, <1>2 DEF Call
    <3>2. Becomes(a, c)
      BY <2>2 DEF Skip
    <3> HIDE DEF c
    <3> QED
      BY <1>3, <3>1, <3>2
  <2>3. ASSUME NEW r \in rows, MarkShared(a, r) PROVE Less
    <3>1. call'[b] = IF b = a THEN TakeRow(a, r)
                     ELSE IF call[b].id = r.id THEN [call[b] EXCEPT !.shared = TRUE] ELSE call[b]
      BY <2>3 DEF MarkShared
    <3>2. TakeRow(a, r).todo = call[a].todo \ {r.id}
      BY <1>1 DEF TakeRow, Call
    <3>3. [call[b] EXCEPT !.shared = TRUE].todo = call[b].todo
      BY <1>1 DEF Call
    <3> QED
      BY <3>1, <3>2, <3>3
  <2> QED
    BY <2>1, <2>2, <2>3
<1>7. CASE CallAnswered(a) \/ CallRefused(a) \/ CallTimedOut(a)
  <2>1. \/ Finish(a) \/ UNCHANGED call
        \/ Becomes(a, [call[a] EXCEPT !.at = "book"])
    BY <1>7 DEF CallAnswered, CallRefused, CallTimedOut
  <2>2. [call[a] EXCEPT !.at = "book"].todo = call[a].todo
    BY <1>1 DEF Call
  <2> QED
    BY <1>3, <1>4, <2>1, <2>2
<1>8. CASE Book(a)
  BY <1>4, <1>8 DEF Book
<1> QED
  BY <1>5, <1>6, <1>7, <1>8 DEF Serve

(* The ids of finitely many rows are finite. *)
LEMMA IdsFinite == ASSUME NEW R, IsFiniteSet(R) PROVE IsFiniteSet(Ids(R))
<1> DEFINE f == [r \in R |-> r.id]
<1>1. f \in Surjection(R, Ids(R))
  BY DEF Surjection, Ids
<1> QED
  BY <1>1, FS_Surjection

(* So is the union of finitely many finite sets. *)
LEMMA UnionFinite ==
  ASSUME NEW S, IsFiniteSet(S), NEW f, \A x \in S : IsFiniteSet(f[x])
  PROVE  IsFiniteSet(UNION {f[x] : x \in S})
<1> DEFINE T == {f[x] : x \in S}
           g == [x \in S |-> f[x]]
<1>1. g \in Surjection(S, T)
  BY DEF Surjection
<1>2. IsFiniteSet(T)
  BY <1>1, FS_Surjection
<1> QED
  BY <1>2, FS_UNION

(* FiniteInv is kept by every step. *)
LEMMA FiniteStep == ApiTypeInv /\ FiniteInv /\ [ApiNext]_allVars => FiniteInv'
<1> SUFFICES ASSUME ApiTypeInv, FiniteInv, [ApiNext]_allVars PROVE FiniteInv'
  OBVIOUS
<1>1. \A q \in Nat : InsertRow(q) => IsFiniteSet(rows')
  BY FS_AddElement DEF InsertRow, FiniteInv
<1>2. rows' \subseteq rows => IsFiniteSet(rows')
  BY FS_Subset DEF FiniteInv
<1>3. (\A p \in Procs : snap'[p] = rows \/ snap'[p] \subseteq snap[p])
      => \A p \in Procs : IsFiniteSet(snap'[p])
  BY FS_Subset DEF FiniteInv
<1>4. CASE Beside(Environment) \/ \E p \in Procs : ExecutorStep(p)
  <2>1. IsFiniteSet(rows') /\ UNCHANGED call
    BY <1>1, <1>2, <1>4, BesideStep
  <2>2. \A p \in Procs : snap'[p] = rows \/ snap'[p] \subseteq snap[p]
    BY <1>4, SnapStep, EnvironmentSnap DEF ExecutorStep, Beside, ApiTypeInv, TypeInv
  <2> QED
    BY <1>3, <2>1, <2>2 DEF FiniteInv
<1>5. ASSUME NEW a \in Handlers, Request(a) \/ Serve(a) PROVE FiniteInv'
  <2>1. IsFiniteSet(Ids(rows))
    BY IdsFinite DEF FiniteInv
  <2>2. \A b \in Handlers : IsFiniteSet(call'[b].todo)
    BY <1>5, <2>1, TodoStep, FS_Subset DEF FiniteInv
  <2>3. IsFiniteSet(rows')
    <3>1. call[a].qty \in Nat
      BY DEF ApiTypeInv, Call
    <3>2. rows' \subseteq rows \/ InsertRow(call[a].qty)
      BY <1>5, RequestIs, PickRowIs, OrderIs, BookIs DEF Serve, CloseRow, db
    <3> QED
      BY <1>1, <1>2, <3>1, <3>2
  <2>4. UNCHANGED snap
    BY <1>5, RequestIs, PickRowIs, OrderIs, BookIs DEF Serve, local
  <2> QED
    BY <2>2, <2>3, <2>4 DEF FiniteInv
<1>6. CASE ApiCrash
  <2>1. Idle.todo = {}
    BY DEF Idle
  <2> QED
    BY <1>6, <2>1, FS_EmptySet DEF ApiCrash, FiniteInv, db, local
<1>7. CASE UNCHANGED allVars
  BY <1>7 DEF allVars, vars, api, db, local, FiniteInv
<1> QED
  BY <1>4, <1>5, <1>6, <1>7 DEF ApiNext

(* The service is well typed, and with as many ids as uuid4 makes for it, a  *)
(* new row always finds one that no row, no request and no executor still    *)
(* remembers.                                                                *)
THEOREM ApiTypeCorrect ==
  ASSUME ~IsFiniteSet(RowIds), IsFiniteSet(Procs), IsFiniteSet(Handlers)
  PROVE  ApiSpec => []ApiTypeOK
<1>1. ApiInit => FiniteInv
  <2>1. Idle.todo = {}
    BY DEF Idle
  <2> QED
    BY <2>1, FS_EmptySet DEF ApiInit, Init, FiniteInv
<1>2. ApiTypeInv /\ FiniteInv => ApiTypeOK
  <2> SUFFICES ASSUME ApiTypeInv, FiniteInv PROVE \E id \in RowIds : ~InUse(id)
    BY DEF ApiTypeOK, ApiTypeInv, TypeInv
  <2> DEFINE hands == [a \in Handlers |-> call[a].todo \cup {call[a].id}]
             snaps == [p \in Procs |-> Ids(snap[p])]
             used  == (Ids(rows) \cup UNION {hands[a] : a \in Handlers})
                        \cup UNION {snaps[p] : p \in Procs}
  <2>1. \A a \in Handlers : IsFiniteSet(hands[a])
    BY FS_AddElement DEF FiniteInv
  <2>2. \A p \in Procs : IsFiniteSet(snaps[p])
    BY IdsFinite DEF FiniteInv
  <2>3. IsFiniteSet(Ids(rows))
    BY IdsFinite DEF FiniteInv
  <2>4. \A id : InUse(id) => id \in used
    BY DEF InUse, Holds
  <2> HIDE DEF hands, snaps
  <2>5. IsFiniteSet(used)
    <3> DEFINE A == UNION {hands[a] : a \in Handlers}
               B == UNION {snaps[p] : p \in Procs}
               I == Ids(rows)
    <3>1. IsFiniteSet(A)
      BY <2>1, UnionFinite, Zenon
    <3>2. IsFiniteSet(B)
      BY <2>2, UnionFinite, Zenon
    <3>3. used = (I \cup A) \cup B
      OBVIOUS
    <3>4. IsFiniteSet(I)
      BY <2>3
    <3> HIDE DEF A, B, I, used
    <3>5. IsFiniteSet(I \cup A)
      BY <3>1, <3>4, FS_Union, Zenon
    <3> QED
      BY <3>2, <3>3, <3>5, FS_Union, Zenon
  <2> HIDE DEF used
  <2>6. ~(RowIds \subseteq used)
    BY <2>5, FS_Subset
  <2> QED
    BY <2>4, <2>6
<1> QED
  BY <1>1, <1>2, ApiTypeKnown, FiniteStep, PTL DEF ApiSpec

-----------------------------------------------------------------------------
(* The executor's guarantees next to the requests *)

(* A request, and the death of the process that serves it, changes nothing   *)
(* the executor's discipline speaks of: not Redis, not the ledger, not the   *)
(* orders for signals, not where an executor stands.                         *)
LEMMA ApartStep ==
  ASSUME ApiTypeInv, [ApiNext]_allVars
  PROVE  \/ [Next]_vars
         \/ /\ UNCHANGED <<redis, ledger, orders, pc, local>>
            /\ faults' = faults \/ faults' = faults + 1
<1> DEFINE Apart == /\ UNCHANGED <<redis, ledger, orders, pc, local>>
                    /\ faults' = faults \/ faults' = faults + 1
<1>1. CASE Beside(Environment) \/ \E p \in Procs : ExecutorStep(p)
  BY <1>1 DEF Beside, ExecutorStep, Next
<1>2. ASSUME NEW a \in Handlers, Request(a) PROVE Apart
  BY <1>2 DEF Request, ManualOrder, OpenPosition, CloseOne, AutoClose, Begin, Smooth, db, market
<1>3. ASSUME NEW a \in Handlers, Serve(a) PROVE Apart
  <2>1. CASE PickRow(a)
    BY <2>1 DEF PickRow, Smooth, Fault, db, market
  <2>2. CASE CallAnswered(a) \/ CallRefused(a) \/ CallTimedOut(a)
    BY <2>2 DEF CallAnswered, CallRefused, CallTimedOut, Smooth, Fault, db, market
  <2>3. CASE Book(a)
    BY <2>3 DEF Book, Smooth, Fault, db, market
  <2> QED
    BY <1>3, <2>1, <2>2, <2>3 DEF Serve
<1>4. CASE ApiCrash
  BY <1>4 DEF ApiCrash, Fault, db, market
<1>5. CASE UNCHANGED allVars
  BY <1>5 DEF allVars
<1> QED
  BY <1>1, <1>2, <1>3, <1>4, <1>5 DEF ApiNext

(* Two executors are never in a critical section together, whatever requests *)
(* the API serves meanwhile, and no order goes out for a marked id.          *)
LEMMA ApartLock == ApiSpec => [](ApiTypeInv /\ LockInv)
<1>1. ApiInit => LockInv
  BY DEF ApiInit, Init, LockInv, InCritical, CriticalPC
<1>2. ApiTypeInv /\ LockInv /\ [ApiNext]_allVars => LockInv'
  <2> SUFFICES ASSUME ApiTypeInv, LockInv, [ApiNext]_allVars PROVE LockInv'
    OBVIOUS
  <2>1. CASE [Next]_vars
    BY <2>1, LockInductive DEF ApiTypeInv, TypeInv
  <2>2. CASE UNCHANGED <<redis, pc>>
    BY <2>2 DEF LockInv, InCritical, redis
  <2> QED
    BY <2>1, <2>2, ApartStep
<1> QED
  BY <1>1, <1>2, ApiTypeKnown, PTL DEF ApiSpec

(* The requests take no symbol lock and need none: the executors' critical   *)
(* sections exclude each other as before.                                    *)
THEOREM ExclusionBesideApi == ASSUME TTLCovers PROVE ApiSpec => []MutualExclusion
<1>1. LockInv => MutualExclusion
  BY DEF LockInv, MutualExclusion
<1> QED
  BY <1>1, ApartLock, PTL

(* An id that is marked processed is not ordered for again, although the API *)
(* trades on the same account and edits the same table.                      *)
THEOREM IdempotenceBesideApi == ASSUME Exclusive PROVE ApiSpec => NoOrderForProcessed
<1>1. ApiInit => UnmarkedInv
  BY DEF ApiInit, Init, UnmarkedInv
<1>2. ApiTypeInv /\ LockInv /\ UnmarkedInv /\ [ApiNext]_allVars => UnmarkedInv'
  <2> SUFFICES ASSUME ApiTypeInv, LockInv, UnmarkedInv, [ApiNext]_allVars PROVE UnmarkedInv'
    OBVIOUS
  <2>1. CASE [Next]_vars
    BY <2>1, UnmarkedInductive DEF ApiTypeInv, TypeInv
  <2>2. CASE UNCHANGED <<redis, pc, local>>
    BY <2>2 DEF UnmarkedInv, redis, local
  <2> QED
    BY <2>1, <2>2, ApartStep
<1>3. ApiTypeInv /\ UnmarkedInv /\ [ApiNext]_allVars =>
        [\A s \in SigIds : orders'[s] > orders[s] => s \notin processed]_vars
  <2> SUFFICES ASSUME ApiTypeInv, UnmarkedInv, [ApiNext]_allVars
               PROVE  [\A s \in SigIds : orders'[s] > orders[s] => s \notin processed]_vars
    OBVIOUS
  <2>1. CASE [Next]_vars
    BY <2>1, OrderedUnmarked DEF ApiTypeInv
  <2>2. CASE UNCHANGED orders
    BY <2>2 DEF ApiTypeInv, TypeInv, TypeOK
  <2> QED
    BY <2>1, <2>2, ApartStep
<1> QED
  BY <1>1, <1>2, <1>3, ApartLock, PTL DEF ApiSpec, NoOrderForProcessed

(* Marks, ledger and orders stay in step as well: no request records a trade *)
(* for a signal or takes one back.                                           *)
THEOREM MarksBackedBesideApi == ApiSpec => []LedgerBackedMarks
<1>1. ApiInit => LedgerInv
  BY DEF ApiInit, Init, LedgerInv, LedgerBackedMarks, At
<1>2. ApiTypeInv /\ LedgerInv /\ [ApiNext]_allVars => LedgerInv'
  <2> SUFFICES ASSUME ApiTypeInv, LedgerInv, [ApiNext]_allVars PROVE LedgerInv'
    OBVIOUS
  <2>1. CASE [Next]_vars
    BY <2>1, LedgerInductive DEF ApiTypeInv
  <2>2. CASE UNCHANGED <<redis, ledger, orders, pc, local>>
    BY <2>2 DEF LedgerInv, LedgerBackedMarks, At, redis, local
  <2> QED
    BY <2>1, <2>2, ApartStep
<1>3. LedgerInv => LedgerBackedMarks
  BY DEF LedgerInv
<1> QED
  BY <1>1, <1>2, <1>3, ApiTypeKnown, PTL DEF ApiSpec

(* Nor does a request leave a lock behind. *)
THEOREM NoLeakBesideApi == ApiSpec => []NoLeakedLock
<1>1. ApiInit => NoLeakedLock
  BY DEF ApiInit, Init, NoLeakedLock
<1>2. ApiTypeInv /\ NoLeakedLock /\ [ApiNext]_allVars => NoLeakedLock'
  <2> SUFFICES ASSUME ApiTypeInv, NoLeakedLock, [ApiNext]_allVars PROVE NoLeakedLock'
    OBVIOUS
  <2>1. CASE [Next]_vars
    BY <2>1, LeakInductive DEF ApiTypeInv
  <2>2. CASE /\ UNCHANGED <<redis, pc>>
             /\ faults' = faults \/ faults' = faults + 1
    <3>1. faults \in Nat
      BY DEF ApiTypeInv, TypeInv, TypeOK
    <3> QED
      BY <2>2, <3>1 DEF NoLeakedLock, InCritical, redis
  <2> QED
    BY <2>1, <2>2, ApartStep
<1> QED
  BY <1>1, <1>2, ApiTypeKnown, PTL DEF ApiSpec

=============================================================================
