------------------------------ MODULE Executor ------------------------------
(***************************************************************************)
(* The order path of one symbol: executor processes that pop signals from  *)
(* the Redis list, take the symbol lock, run execute_buy / execute_sell    *)
(* against the exchange and the database, and reconcile the positions      *)
(* table with the account (services/executor.py,                           *)
(* services/run_executor_consumer.py).                                     *)
(*                                                                         *)
(* One action is the code between two awaits that touch shared state; the  *)
(* shared state is Redis (queue, lock, processed ids), the database (the   *)
(* trades ledger and the open rows of the positions table) and the         *)
(* exchange account.  Quantities are integers in units in which the        *)
(* minimum order size is MinOrder; the price is constant.                  *)
(***************************************************************************)
EXTENDS Integers, Sequences, FiniteSets, Functions

CONSTANTS
  Procs,        \* executor processes that serve the symbol (one in docker-compose.yml)
  SigIds,       \* signal ids the strategy publishes (uuid4, never reused)
  RowIds,       \* ids of rows of the positions table (uuid4)
  Lots,         \* quantities calculate_safe_order_size can return for a Buy
  MinOrder,     \* min_order_size, the order and dust threshold
  MaxHeld,      \* bound on the account's holding
  MaxQueue,     \* _QUEUE_MAX_LEN
  MaxAttempts,  \* stop_after_attempt of BybitClient._call
  MaxFaults,    \* bound on crashes, errors, lost answers and outside trades
  TTLCovers,    \* TRUE: no critical section outlives _LOCK_TTL
  NoProc,       \* the lock key is absent
  NoSig         \* the process holds no signal

ASSUME ConstantsAssumption ==
  /\ Lots \subseteq Nat \ {0}
  /\ MinOrder \in Nat \ {0}
  /\ MaxHeld \in Nat
  /\ MaxQueue \in Nat \ {0}
  /\ MaxAttempts \in Nat \ {0}
  /\ MaxFaults \in Nat
  /\ TTLCovers \in BOOLEAN

Signal == [id : SigIds, side : {"buy", "sell"}]
Row    == [id : RowIds, qty : Nat]

ASSUME SentinelAssumption == NoProc \notin Procs /\ NoSig \notin Signal

VARIABLES
  \* Redis
  queue,      \* queue:signals, oldest first
  sent,       \* ids published so far
  processed,  \* ids with a processed:<id> key
  lock,       \* lock:executor:<symbol>: who set it, or NoProc.  The stored value is
              \* "1": the code never learns the owner, only the properties do
  \* database
  ledger,     \* ids whose trade add_trade recorded
  rows,       \* rows of positions with status = 'open'
  \* exchange
  held,       \* base-currency balance of the account
  orders,     \* orders the exchange accepted, per signal id
  \* local state of the processes
  pc, cur, qty, tries, snap,
  faults      \* disturbances so far

redis  == <<queue, sent, processed, lock>>
db     == <<ledger, rows>>
market == <<held, orders>>
local  == <<cur, qty, tries, snap>>
vars   == <<redis, db, market, pc, local, faults>>

ReconcilePC == {"recon_balance", "recon_rows", "recon_decide", "recon_close", "recon_create"}
CriticalPC  == {"check", "guard", "size", "send", "trade", "row", "closing", "mark", "release"}
PC          == {"down", "idle", "acquire"} \cup ReconcilePC \cup CriticalPC

TypeOK ==
  /\ queue \in Seq(Signal) /\ Len(queue) <= MaxQueue
  /\ sent \subseteq SigIds
  /\ processed \subseteq SigIds
  /\ lock \in Procs \cup {NoProc}
  /\ ledger \subseteq SigIds
  /\ rows \subseteq Row
  /\ held \in Nat
  /\ orders \in [SigIds -> Nat]
  /\ pc \in [Procs -> PC]
  /\ cur \in [Procs -> Signal \cup {NoSig}]
  /\ qty \in [Procs -> Nat]
  /\ tries \in [Procs -> Nat]
  /\ snap \in [Procs -> SUBSET Row]
  /\ faults \in 0 .. MaxFaults

-----------------------------------------------------------------------------
(* Helpers *)

(* Definitions named ...Bug are not part of the model: each is the definition  *)
(* after it with one plausible mistake, and shows that a property can fail.    *)
PushBug(q, m) == Append(q, m)                                  \* no LTRIM

(* queue_push: LPUSH then LTRIM, the oldest entry falls out of a full list *)
Push(q, m) == LET longer == Append(q, m)
              IN  IF Len(longer) > MaxQueue THEN Tail(longer) ELSE longer

(* sum(float(p["quantity"]) for p in open_positions) *)
TotalQty(R) == SumFunction([r \in R |-> r.qty])

Distance(a, b) == IF a < b THEN b - a ELSE a - b

ReconcileActionBug(localQty, exchangeQty) ==       \* local_qty == 0 not required
  IF localQty = exchangeQty THEN "noop"
  ELSE IF exchangeQty > 0   THEN "open_missing_local"
  ELSE "close_orphan_local"

(* domain/reconcile.py: reconcile(local_qty, exchange_qty) *)
ReconcileAction(localQty, exchangeQty) ==
  IF localQty = exchangeQty                THEN "noop"
  ELSE IF localQty = 0 /\ exchangeQty > 0  THEN "open_missing_local"
  ELSE IF localQty > 0 /\ exchangeQty = 0  THEN "close_orphan_local"
  ELSE "adjust_qty"

(* A uuid no row has.  A closed row is never read again, so its id is free *)
(* for the model once no process remembers it.                             *)
FreshRow(id) == \A r \in rows \cup UNION {snap[p] : p \in Procs} : r.id # id

(* TradeTrackerDB.add_trade *)
InsertTrade(id) == ledger' = ledger \cup {id}

(* TradeTrackerDB.create_position *)
InsertRow(q) == \E id \in RowIds :
                  /\ FreshRow(id)
                  /\ rows' = rows \cup {[id |-> id, qty |-> q]}

(* TradeTrackerDB.close_position: no effect on a row that is not open *)
CloseRow(r) == rows' = rows \ {r}

(* acquire_lock: SET NX EX;  release_lock: DEL, whoever set the key *)
SetLock(p)  == lock = NoProc /\ lock' = p
DeleteLock  == lock' = NoProc

(* calculate_safe_order_size: None (no quantity) is always possible *)
SafeQty(side) == IF side = "buy" THEN Lots ELSE {held}

(* The step succeeds, or it meets one of the disturbances MaxFaults counts. *)
Smooth == UNCHANGED faults
Fault  == /\ faults < MaxFaults
          /\ faults' = faults + 1

Goto(p, to)     == pc' = [pc EXCEPT ![p] = to]
At(p, from)     == pc[p] = from
InCritical(p)   == pc[p] \in CriticalPC
Forget(p)       == /\ cur'   = [cur   EXCEPT ![p] = NoSig]
                   /\ qty'   = [qty   EXCEPT ![p] = 0]
                   /\ tries' = [tries EXCEPT ![p] = 0]
                   /\ snap'  = [snap  EXCEPT ![p] = {}]

Init ==
  /\ queue = <<>> /\ sent = {} /\ processed = {} /\ lock = NoProc
  /\ ledger = {} /\ rows = {}
  /\ held \in 0 .. MaxHeld
  /\ orders = [s \in SigIds |-> 0]
  /\ pc = [p \in Procs |-> "recon_balance"]
  /\ cur = [p \in Procs |-> NoSig]
  /\ qty = [p \in Procs |-> 0]
  /\ tries = [p \in Procs |-> 0]
  /\ snap = [p \in Procs |-> {}]
  /\ faults = 0

-----------------------------------------------------------------------------
(* The environment: the strategy, and whoever else trades on the account *)

(* StrategyConsumer._publish_signal: a new id, pushed once *)
Publish(m) ==
  /\ m.id \notin sent
  /\ sent' = sent \cup {m.id}
  /\ queue' = Push(queue, m)
  /\ UNCHANGED <<processed, lock, db, market, pc, local, faults>>

(* The push was retried after its answer was lost: a second copy of a signal. *)
Redeliver(m) ==
  /\ m.id \in sent
  /\ \/ \E i \in 1 .. Len(queue) : queue[i] = m
     \/ \E p \in Procs : cur[p] = m
  /\ queue' = Push(queue, m)
  /\ Fault
  /\ UNCHANGED <<sent, processed, lock, db, market, pc, local>>

(* A trade by hand, or by another service, moves the balance. *)
OutsideTrade(h) ==
  /\ h # held
  /\ held' = h
  /\ Fault
  /\ UNCHANGED <<redis, db, orders, pc, local>>

-----------------------------------------------------------------------------
(* run(): the consumer loop *)

(* The popped signal exists in this process only: if the pop's answer is     *)
(* lost, it is gone.  Every RECONCILE_INTERVAL_SEC the reconciliation runs   *)
(* between pop and handling.                                                 *)
PopSignal(p) ==
  /\ At(p, "idle")
  /\ queue # <<>>
  /\ queue' = Tail(queue)
  /\ \/ /\ cur' = [cur EXCEPT ![p] = Head(queue)]
        /\ \E to \in {"acquire", "recon_balance"} : Goto(p, to)
        /\ Smooth
     \/ UNCHANGED <<cur, pc>> /\ Fault
  /\ UNCHANGED <<sent, processed, lock, db, market, qty, tries, snap>>

PopTimeoutBug(p) ==                 \* `continue` before the periodic reconcile
  /\ At(p, "idle")
  /\ queue = <<>>
  /\ UNCHANGED vars

(* The pop timed out and the reconciliation is due. *)
PopTimeout(p) ==
  /\ At(p, "idle")
  /\ queue = <<>>
  /\ Goto(p, "recon_balance")
  /\ UNCHANGED <<redis, db, market, local, faults>>

(* main(): the restarted process reconciles before it consumes *)
Restart(p) ==
  /\ At(p, "down")
  /\ Goto(p, "recon_balance")
  /\ UNCHANGED <<redis, db, market, local, faults>>

(* The container dies: the popped signal and all local state are gone, the *)
(* lock key stays.                                                         *)
Crash(p) ==
  /\ ~At(p, "down")
  /\ Goto(p, "down")
  /\ Forget(p)
  /\ Fault
  /\ UNCHANGED <<redis, db, market>>

ExpireLockBug ==                    \* SET NX without EX
  /\ FALSE
  /\ UNCHANGED vars

(* SET ... EX _LOCK_TTL runs out *)
ExpireLock ==
  /\ lock # NoProc
  /\ TTLCovers => ~InCritical(lock)
  /\ lock' = NoProc
  /\ UNCHANGED <<queue, sent, processed, db, market, pc, local, faults>>

-----------------------------------------------------------------------------
(* Executor.reconcile: it takes no lock *)

(* One turn of `for pos in open_positions: close_position(pos["id"], ...)`. *)
CloseNext(p) == \E r \in snap[p] : /\ CloseRow(r)
                                   /\ snap' = [snap EXCEPT ![p] = @ \ {r}]

AfterReconcile(p) == IF cur[p] = NoSig THEN "idle" ELSE "acquire"

(* The reconciliation of p ends, by a return or by its catch-all except. *)
EndReconcile(p) ==
  /\ Goto(p, AfterReconcile(p))
  /\ qty'  = [qty  EXCEPT ![p] = 0]
  /\ snap' = [snap EXCEPT ![p] = {}]

(* _get_exchange_qty: any error, and an empty answer, read as a balance of 0 *)
ReconcileBalance(p) ==
  /\ At(p, "recon_balance")
  /\ \/ qty' = [qty EXCEPT ![p] = held] /\ Smooth
     \/ qty' = [qty EXCEPT ![p] = 0] /\ Fault
  /\ Goto(p, "recon_rows")
  /\ UNCHANGED <<redis, db, market, cur, tries, snap>>

ReconcileRows(p) ==
  /\ At(p, "recon_rows")
  /\ \/ /\ snap' = [snap EXCEPT ![p] = rows]
        /\ Goto(p, "recon_decide")
        /\ UNCHANGED qty
        /\ Smooth
     \/ EndReconcile(p) /\ Fault
  /\ UNCHANGED <<redis, db, market, cur, tries>>

(* A difference below the minimum order is dust; a price that cannot be read *)
(* is 0.0 and makes every difference dust.  close_orphan_local and           *)
(* open_missing_local notify before they repair: if the notifier raises,     *)
(* nothing is repaired.                                                      *)
ReconcileDecide(p) ==
  /\ At(p, "recon_decide")
  /\ LET localQty == TotalQty(snap[p])
         action   == ReconcileAction(localQty, qty[p])
     IN  \/ Distance(localQty, qty[p]) < MinOrder /\ EndReconcile(p) /\ Smooth
         \/ EndReconcile(p) /\ Fault
         \/ /\ Distance(localQty, qty[p]) >= MinOrder
            /\ Goto(p, IF action = "open_missing_local" THEN "recon_create" ELSE "recon_close")
            /\ UNCHANGED <<qty, snap>>
            /\ Smooth
  /\ UNCHANGED <<redis, db, market, cur, tries>>

(* for pos in open_positions_local: close_position(pos["id"], ...).  After   *)
(* the last row adjust_qty goes on to notify and create a row, unless the    *)
(* exchange holds only dust.                                                 *)
ReconcileClose(p) ==
  /\ At(p, "recon_close")
  /\ \/ /\ CloseNext(p)
        /\ UNCHANGED <<pc, qty>>
        /\ Smooth
     \/ /\ snap[p] = {} /\ qty[p] < MinOrder
        /\ EndReconcile(p)
        /\ UNCHANGED rows
        /\ Smooth
     \/ /\ snap[p] = {} /\ qty[p] >= MinOrder
        /\ Goto(p, "recon_create")
        /\ UNCHANGED <<rows, qty, snap>>
        /\ Smooth
     \/ EndReconcile(p) /\ UNCHANGED rows /\ Fault
  /\ UNCHANGED <<redis, ledger, market, cur, tries>>

ReconcileCreate(p) ==
  /\ At(p, "recon_create")
  /\ \/ InsertRow(qty[p]) /\ Smooth
     \/ UNCHANGED rows /\ Fault
  /\ EndReconcile(p)
  /\ UNCHANGED <<redis, ledger, market, cur, tries>>

-----------------------------------------------------------------------------
(* execute_buy and execute_sell *)

(* The signal of p is finished without an order, or the lock was taken: the *)
(* consumer goes back to the queue and the signal is gone.                  *)
Drop(p) == Goto(p, "idle") /\ Forget(p)

AcquireLockBug(p) ==                \* SET without NX
  /\ At(p, "acquire")
  /\ lock' = p
  /\ Goto(p, "check")
  /\ UNCHANGED <<queue, sent, processed, db, market, local, faults>>

AcquireIgnoredBug(p) ==             \* acquire_lock's result not tested
  /\ At(p, "acquire")
  /\ lock' = IF lock = NoProc THEN p ELSE lock
  /\ Goto(p, "check")
  /\ UNCHANGED <<queue, sent, processed, db, market, local, faults>>

(* If acquire_lock's answer is lost the key may be set although the process *)
(* gives up, outside the try that would release it.                         *)
AcquireLock(p) ==
  /\ At(p, "acquire")
  /\ \/ /\ SetLock(p)
        /\ Goto(p, "check") /\ UNCHANGED local
        /\ Smooth
     \/ lock # NoProc /\ Drop(p) /\ UNCHANGED lock /\ Smooth
     \/ /\ Drop(p)
        /\ SetLock(p) \/ UNCHANGED lock
        /\ Fault
  /\ UNCHANGED <<queue, sent, processed, db, market>>

CheckProcessedBug(p) ==             \* no idempotency check
  /\ At(p, "check")
  /\ Goto(p, "guard")
  /\ UNCHANGED <<redis, db, market, local, faults>>

(* is_processed(sig_id) *)
CheckProcessed(p) ==
  /\ At(p, "check")
  /\ \/ cur[p].id \in processed /\ Goto(p, "release") /\ Smooth
     \/ cur[p].id \notin processed /\ Goto(p, "guard") /\ Smooth
     \/ Goto(p, "release") /\ Fault
  /\ UNCHANGED <<redis, db, market, local>>

CheckOpenPositionsBug(p) ==         \* a buy does not look at the open rows
  /\ At(p, "guard")
  /\ Goto(p, "size")
  /\ UNCHANGED <<redis, db, market, local, faults>>

(* get_positions(status="open"): a buy needs an empty answer; a sell reads the *)
(* rows for its PnL message and goes on whatever they are.                     *)
CheckOpenPositions(p) ==
  /\ At(p, "guard")
  /\ \/ cur[p].side = "buy" /\ rows # {} /\ Goto(p, "release") /\ Smooth
     \/ (cur[p].side = "sell" \/ rows = {}) /\ Goto(p, "size") /\ Smooth
     \/ Goto(p, "release") /\ Fault
  /\ UNCHANGED <<redis, db, market, local>>

(* No quantity, or one worth less than the minimum order, ends the signal. *)
SizeOrder(p) ==
  /\ At(p, "size")
  /\ \/ /\ \E q \in SafeQty(cur[p].side) :
             q >= MinOrder /\ qty' = [qty EXCEPT ![p] = q]
        /\ Goto(p, "send")
     \/ Goto(p, "release") /\ UNCHANGED qty
  /\ Smooth
  /\ UNCHANGED <<redis, db, market, cur, tries, snap>>

(* The exchange accepts a market order of p's signal for qty[p] and fills f. *)
Accept(p, f) ==
  /\ held' = IF cur[p].side = "buy" THEN held + f ELSE held - f
  /\ cur[p].side = "sell" => qty[p] <= held
  /\ held' \in 0 .. MaxHeld
  /\ orders' = [orders EXCEPT ![cur[p].id] = @ + 1]

(* place_order: the accepted order is looked up for its executed quantity, and *)
(* the requested quantity stands in when the lookup fails or reports 0.        *)
OrderAnswered(p) ==
  /\ At(p, "send")
  /\ \E f \in 0 .. qty[p] :
       /\ Accept(p, f)
       /\ \E filled \in {qty[p]} \cup ({f} \ {0}) : qty' = [qty EXCEPT ![p] = filled]
  /\ Goto(p, "trade")
  /\ Smooth
  /\ UNCHANGED <<redis, db, cur, tries, snap>>

OrderRejectedBug(p) ==              \* returns outside the try ... finally
  /\ At(p, "send")
  /\ Drop(p)
  /\ UNCHANGED <<redis, db, market, faults>>

(* retCode # 0, or an error that is not retried: order_failed *)
OrderRejected(p) ==
  /\ At(p, "send")
  /\ Goto(p, "release")
  /\ Smooth
  /\ UNCHANGED <<redis, db, market, local>>

(* _call: the request timed out.  The exchange may have accepted the order all *)
(* the same; it is sent again, without an id that would let the exchange       *)
(* recognise it, up to MaxAttempts times, and then reported as failed.         *)
OrderTimedOut(p) ==
  /\ At(p, "send")
  /\ \/ \E f \in 0 .. qty[p] : Accept(p, f)
     \/ UNCHANGED market
  /\ tries' = [tries EXCEPT ![p] = @ + 1]
  /\ Goto(p, IF tries'[p] < MaxAttempts THEN "send" ELSE "release")
  /\ Fault
  /\ UNCHANGED <<redis, db, cur, qty, snap>>

AddTradeBug(p) ==                   \* add_trade's exception swallowed as well
  /\ At(p, "trade")
  /\ \/ ledger' = ledger \cup {cur[p].id} /\ Smooth
     \/ UNCHANGED ledger /\ Fault
  /\ Goto(p, "row")
  /\ UNCHANGED <<redis, rows, market, local>>

(* add_trade: an exception leaves the order without trade, row and mark *)
AddTrade(p) ==
  /\ At(p, "trade")
  /\ \/ InsertTrade(cur[p].id) /\ Goto(p, "row") /\ Smooth
     \/ UNCHANGED ledger /\ Goto(p, "release") /\ Fault
  /\ UNCHANGED <<redis, rows, market, local>>

(* create_position of a buy: its exception is logged and swallowed *)
CreatePosition(p) ==
  /\ At(p, "row") /\ cur[p].side = "buy"
  /\ \/ InsertRow(qty[p]) /\ Smooth
     \/ UNCHANGED rows /\ Fault
  /\ Goto(p, "mark")
  /\ UNCHANGED <<redis, ledger, market, local>>

(* A sell reads the open rows again ... *)
ReadPositions(p) ==
  /\ At(p, "row") /\ cur[p].side = "sell"
  /\ \/ /\ snap' = [snap EXCEPT ![p] = rows]
        /\ Goto(p, "closing")
        /\ Smooth
     \/ Goto(p, "mark") /\ UNCHANGED snap /\ Fault
  /\ UNCHANGED <<redis, db, market, cur, qty, tries>>

(* ... and closes them one by one; an exception ends the loop. *)
ClosePosition(p) ==
  /\ At(p, "closing")
  /\ \/ /\ CloseNext(p)
        /\ UNCHANGED pc
        /\ Smooth
     \/ snap[p] = {} /\ Goto(p, "mark") /\ UNCHANGED <<rows, snap>> /\ Smooth
     \/ Goto(p, "mark") /\ UNCHANGED <<rows, snap>> /\ Fault
  /\ UNCHANGED <<redis, ledger, market, cur, qty, tries>>

(* mark_processed, then the notification, whose exception changes nothing *)
MarkProcessed(p) ==
  /\ At(p, "mark")
  /\ \/ processed' = processed \cup {cur[p].id} /\ Smooth
     \/ UNCHANGED processed /\ Fault
  /\ Goto(p, "release")
  /\ UNCHANGED <<queue, sent, lock, db, market, local>>

(* finally: release_lock *)
ReleaseLock(p) ==
  /\ At(p, "release")
  /\ \/ DeleteLock /\ Smooth
     \/ UNCHANGED lock /\ Fault
  /\ Drop(p)
  /\ UNCHANGED <<queue, sent, processed, db, market>>

-----------------------------------------------------------------------------
Reconcile(p) ==
  \/ ReconcileBalance(p) \/ ReconcileRows(p) \/ ReconcileDecide(p)
  \/ ReconcileClose(p)   \/ ReconcileCreate(p)

Execute(p) ==
  \/ AcquireLock(p)   \/ CheckProcessed(p) \/ CheckOpenPositions(p)
  \/ SizeOrder(p)     \/ OrderAnswered(p)  \/ OrderRejected(p) \/ OrderTimedOut(p)
  \/ AddTrade(p)      \/ CreatePosition(p) \/ ReadPositions(p)
  \/ ClosePosition(p) \/ MarkProcessed(p)  \/ ReleaseLock(p)

Consume(p) == PopSignal(p) \/ PopTimeout(p) \/ Restart(p)

Process(p) == Consume(p) \/ Reconcile(p) \/ Execute(p)

Environment ==
  \/ \E m \in Signal : Publish(m) \/ Redeliver(m)
  \/ \E h \in 0 .. MaxHeld : OutsideTrade(h)
  \/ \E p \in Procs : Crash(p)
  \/ ExpireLock

Next == Environment \/ \E p \in Procs : Process(p)

(* A process that can go on does: the loop never blocks for longer than a pop *)
(* timeout, docker restarts a dead container, and Redis expires the lock key. *)
Fairness == /\ \A p \in Procs : WF_vars(Process(p))
            /\ WF_vars(ExpireLock)

Spec     == Init /\ [][Next]_vars
FairSpec == Spec /\ Fairness

-----------------------------------------------------------------------------
(* Properties *)

(* One executor keeps at most one open row for the symbol, through buys,    *)
(* partly closed sells, crashes and reconciliations: CheckOpenPositions     *)
(* and the close-before-create order of reconcile are what it rests on.     *)
OneOpenRow == Cardinality(Procs) = 1 => Cardinality(rows) <= 1

(* The idempotency record never runs ahead of the books: an id marked       *)
(* processed has its trade in the ledger, and a recorded trade has an order *)
(* the exchange accepted, whichever step failed in between.                 *)
LedgerBackedMarks == /\ processed \subseteq ledger
                     /\ \A s \in ledger : orders[s] > 0

(* Every return and exception path of execute_buy and execute_sell releases *)
(* the symbol lock: as long as nothing fails, a set key has a process in    *)
(* its critical section, so no signal is refused because of a stale key.    *)
NoLeakedLock == faults = 0 /\ lock # NoProc => InCritical(lock)

(* The symbol lock lets one process at a time between acquire_lock and      *)
(* release_lock.                                                            *)
MutualExclusion == \A p, q \in Procs : InCritical(p) /\ InCritical(q) => p = q

(* Section 5.3 of the architecture document, "no order without the lock": an *)
(* order is accepted only from the process whose lock key is set.  It holds  *)
(* when the TTL outlasts every critical section, and fails when it does not. *)
OrderOnlyUnderLock ==
  [][orders' # orders => \E p \in Procs : lock = p /\ At(p, "send")]_vars

(* Idempotency: no order reaches the exchange for an id that is marked      *)
(* processed at that moment, although the check is several awaits earlier.  *)
NoOrderForProcessed ==
  [][\A s \in SigIds : orders'[s] > orders[s] => s \notin processed]_vars

(* A reconciliation that ends without an error leaves the open rows within  *)
(* the dust threshold of the balance it read, over all its closes and its   *)
(* create.                                                                  *)
ReconcileAgrees ==
  [][\A p \in Procs :
       /\ pc[p] \in ReconcilePC
       /\ pc'[p] \notin ReconcilePC
       /\ faults' = faults
       => Distance(TotalQty(rows'), qty[p]) < MinOrder]_vars

(* Section 5.2, "no duplicate order": a signal buys or sells at most once.   *)
(* place_order is retried without an order id, so a lost answer breaks it.   *)
OneOrderPerSignal == \A s \in SigIds : orders[s] <= 1

(* Section 8.1, Case 1, closes a row because the exchange holds nothing: a   *)
(* row closed as an orphan has at most dust behind it.  A balance that could *)
(* not be read also counts as nothing.                                       *)
OrphansAreFlat ==
  [][\A p \in Procs :
       At(p, "recon_close") /\ qty[p] = 0 /\ rows' # rows => held < MinOrder]_vars

(* Once signals and disturbances cease, the positions table agrees with the *)
(* account up to dust and stays so: whatever a crash, a swallowed database  *)
(* error, a lost answer or a hand trade left behind, reconcile repairs.     *)
InSync    == Distance(TotalQty(rows), held) < MinOrder
Converges == <>[]InSync

(* A key whose owner died or failed to delete it does not lock the symbol   *)
(* out for good.                                                            *)
LockAlwaysFreed == []<>(lock = NoProc)

(* The positions table and the order in flight, read as a PositionState:    *)
(* the order first, so that a sell in flight is an exit also when the table *)
(* has no open row for it.                                                  *)
Handling(side, at) == \E p \in Procs : /\ cur[p] # NoSig
                                       /\ cur[p].side = side
                                       /\ pc[p] \in at
Position ==
  IF Handling("buy", {"send", "trade", "row"}) THEN "ENTERING"
  ELSE IF Handling("sell", {"send", "trade", "row", "closing"}) THEN "EXITING"
  ELSE IF rows = {} THEN "NONE"
  ELSE "OPEN"

(* One executor implements the position state machine of the domain layer,  *)
(* widened by the corrections of reconcile and by the sale of an untracked  *)
(* balance: it never enters from OPEN or out of an exit, never turns an     *)
(* entry into an exit, and the database jumps between NONE and OPEN only as *)
(* reconcile may.                                                           *)
Lifecycle == INSTANCE PositionLifecycle WITH state <- Position
FollowsLifecycle == Lifecycle!Spec

=============================================================================
