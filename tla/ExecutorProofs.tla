-------------------------- MODULE ExecutorProofs --------------------------
(***************************************************************************)
(* What holds of Executor.tla for every number of processes, signals, lots *)
(* and faults.                                                             *)
(***************************************************************************)
EXTENDS Executor, SumTheorems, TLAPS

-----------------------------------------------------------------------------
(* Types *)

(* Pushing a signal keeps the queue a bounded sequence of signals. *)
LEMMA PushType ==
  ASSUME NEW q \in Seq(Signal), NEW m \in Signal, Len(q) <= MaxQueue
  PROVE  Push(q, m) \in Seq(Signal) /\ Len(Push(q, m)) <= MaxQueue
<1> DEFINE longer == Append(q, m)
<1>1. longer \in Seq(Signal) /\ Len(longer) = Len(q) + 1
  OBVIOUS
<1>2. longer # <<>>
  BY <1>1
<1>3. Tail(longer) \in Seq(Signal) /\ Len(Tail(longer)) = Len(q)
  BY <1>1, <1>2
<1>4. Len(q) \in Nat /\ MaxQueue \in Nat
  BY ConstantsAssumption
<1> QED
  BY <1>1, <1>3, <1>4 DEF Push

(* The initial state is well typed: Init of Executor.tla, main of the consumer. *)
LEMMA InitType == Init => TypeOK
  BY ConstantsAssumption DEF Init, TypeOK, PC, ReconcilePC, CriticalPC

(* The types of the per-process variables survive the steps that reset them. *)
LEMMA ForgetType ==
  ASSUME TypeOK, NEW p \in Procs, Forget(p)
  PROVE  /\ cur' \in [Procs -> Signal \cup {NoSig}]
         /\ qty' \in [Procs -> Nat]
         /\ tries' \in [Procs -> Nat]
         /\ snap' \in [Procs -> SUBSET Row]
  BY ConstantsAssumption DEF TypeOK, Forget

(* The fault budget stays within its bound, whether a call succeeds or fails. *)
LEMMA FaultType ==
  ASSUME TypeOK, Smooth \/ Fault
  PROVE  faults' \in 0 .. MaxFaults
  BY ConstantsAssumption DEF TypeOK, Smooth, Fault

(* What the strategy, Redis, the account and crashes do keeps every type. *)
LEMMA EnvironmentType == TypeOK /\ Environment => TypeOK'
<1> SUFFICES ASSUME TypeOK, Environment PROVE TypeOK'
  OBVIOUS
<1> USE DEF redis, db, market, local
<1>1. ASSUME NEW m \in Signal, Publish(m) PROVE TypeOK'
  BY <1>1, PushType DEF TypeOK, Publish, Signal
<1>2. ASSUME NEW m \in Signal, Redeliver(m) PROVE TypeOK'
  BY <1>2, PushType, FaultType DEF TypeOK, Redeliver
<1>3. ASSUME NEW h \in 0 .. MaxHeld, OutsideTrade(h) PROVE TypeOK'
  BY <1>3, FaultType DEF TypeOK, OutsideTrade
<1>4. ASSUME NEW p \in Procs, Crash(p) PROVE TypeOK'
  BY <1>4, FaultType, ForgetType DEF TypeOK, Crash, Goto, PC
<1>5. CASE ExpireLock
  BY <1>5 DEF TypeOK, ExpireLock
<1> QED
  BY <1>1, <1>2, <1>3, <1>4, <1>5 DEF Environment

(* The consumer loop of run_executor_consumer.py keeps every type. *)
LEMMA ConsumeType == ASSUME NEW p \in Procs PROVE TypeOK /\ Consume(p) => TypeOK'
<1> SUFFICES ASSUME TypeOK, Consume(p) PROVE TypeOK'
  OBVIOUS
<1> USE DEF redis, db, market, local, Goto, PC, ReconcilePC
<1>1. CASE PopSignal(p)
  <2>1. Head(queue) \in Signal /\ Tail(queue) \in Seq(Signal) /\ Len(Tail(queue)) <= MaxQueue
    BY <1>1, ConstantsAssumption DEF PopSignal, TypeOK
  <2> QED
    BY <1>1, <2>1, FaultType DEF PopSignal, TypeOK
<1>2. CASE PopTimeout(p)
  BY <1>2 DEF PopTimeout, TypeOK
<1>3. CASE Restart(p)
  BY <1>3 DEF Restart, TypeOK
<1> QED
  BY <1>1, <1>2, <1>3 DEF Consume

(* Leaving reconcile() forgets its locals and keeps their types. *)
LEMMA EndReconcileType ==
  ASSUME TypeOK, NEW p \in Procs, EndReconcile(p)
  PROVE  /\ pc' \in [Procs -> PC]
         /\ qty' \in [Procs -> Nat]
         /\ snap' \in [Procs -> SUBSET Row]
  BY DEF TypeOK, EndReconcile, AfterReconcile, Goto, PC

(* Each step of Executor.reconcile keeps every type. *)
LEMMA ReconcileType == ASSUME NEW p \in Procs PROVE TypeOK /\ Reconcile(p) => TypeOK'
<1> SUFFICES ASSUME TypeOK, Reconcile(p) PROVE TypeOK'
  OBVIOUS
<1> USE DEF redis, db, market, local
<1>1. CASE ReconcileBalance(p)
  <2>1. qty' \in [Procs -> Nat]
    <3>1. qty' = [qty EXCEPT ![p] = held] \/ qty' = [qty EXCEPT ![p] = 0]
      BY <1>1 DEF ReconcileBalance
    <3>2. held \in Nat /\ qty \in [Procs -> Nat]
      BY DEF TypeOK
    <3> QED
      BY <3>1, <3>2
  <2>2. faults' \in 0 .. MaxFaults
    BY <1>1, FaultType DEF ReconcileBalance
  <2> QED
    BY <1>1, <2>1, <2>2 DEF ReconcileBalance, TypeOK, Goto, PC, ReconcilePC
<1>2. CASE ReconcileRows(p)
  BY <1>2, FaultType, EndReconcileType DEF ReconcileRows, TypeOK, Goto, PC, ReconcilePC
<1>3. CASE ReconcileDecide(p)
  BY <1>3, FaultType, EndReconcileType DEF ReconcileDecide, TypeOK, Goto, PC, ReconcilePC
<1>4. CASE ReconcileClose(p)
  BY <1>4, FaultType, EndReconcileType DEF ReconcileClose, CloseNext, CloseRow, TypeOK,
                                           Goto, PC, ReconcilePC
<1>5. CASE ReconcileCreate(p)
  <2>1. rows' \in SUBSET Row
    <3>1. qty[p] \in Nat /\ rows \in SUBSET Row
      BY DEF TypeOK
    <3>2. InsertRow(qty[p]) \/ UNCHANGED rows
      BY <1>5 DEF ReconcileCreate
    <3> QED
      BY <3>1, <3>2 DEF InsertRow, Row
  <2>2. EndReconcile(p) /\ faults' \in 0 .. MaxFaults
    BY <1>5, FaultType DEF ReconcileCreate
  <2> QED
    BY <1>5, <2>1, <2>2, EndReconcileType DEF ReconcileCreate, TypeOK
<1> QED
  BY <1>1, <1>2, <1>3, <1>4, <1>5 DEF Reconcile

(* Going back to the loop forgets the signal in hand and keeps the types. *)
LEMMA DropType ==
  ASSUME TypeOK, NEW p \in Procs, Drop(p)
  PROVE  /\ pc' \in [Procs -> PC]
         /\ cur' \in [Procs -> Signal \cup {NoSig}]
         /\ qty' \in [Procs -> Nat]
         /\ tries' \in [Procs -> Nat]
         /\ snap' \in [Procs -> SUBSET Row]
  BY ForgetType DEF TypeOK, Drop, Goto, PC

(* A process that goes on with a signal holds one: between acquire and      *)
(* release cur is never NoSig.                                              *)
SignalInv == \A p \in Procs : pc[p] \in CriticalPC \cup {"acquire"} => cur[p] \in Signal

(* Each step of execute_buy and execute_sell keeps every type, given that   *)
(* the process holds a signal.                                              *)
LEMMA ExecuteType ==
  ASSUME NEW p \in Procs
  PROVE  TypeOK /\ SignalInv /\ Execute(p) => TypeOK'
<1> SUFFICES ASSUME TypeOK, SignalInv, Execute(p) PROVE TypeOK'
  OBVIOUS
<1> USE DEF redis, db, market, local
<1>0. InCritical(p) => cur[p].id \in SigIds
  BY DEF SignalInv, InCritical, Signal
<1>1. CASE AcquireLock(p)
  BY <1>1, FaultType, DropType DEF AcquireLock, SetLock, TypeOK, Goto, PC, CriticalPC
<1>2. CASE CheckProcessed(p)
  BY <1>2, FaultType DEF CheckProcessed, TypeOK, Goto, PC, CriticalPC
<1>3. CASE CheckOpenPositions(p)
  BY <1>3, FaultType DEF CheckOpenPositions, TypeOK, Goto, PC, CriticalPC
<1>4. CASE SizeOrder(p)
  <2>1. \A q \in SafeQty(cur[p].side) : q \in Nat
    BY ConstantsAssumption DEF SafeQty, TypeOK
  <2>2. qty' \in [Procs -> Nat]
    BY <1>4, <2>1 DEF SizeOrder, TypeOK
  <2>3. pc' \in [Procs -> PC]
    BY <1>4 DEF SizeOrder, TypeOK, Goto, PC, CriticalPC
  <2> QED
    BY <1>4, <2>2, <2>3 DEF SizeOrder, Smooth, TypeOK
<1>5. ASSUME NEW f, At(p, "send"), Accept(p, f)
      PROVE  held' \in Nat /\ orders' \in [SigIds -> Nat]
  <2>1. held' \in Nat
    BY <1>5, ConstantsAssumption DEF Accept
  <2>2. cur[p].id \in SigIds
    BY <1>0, <1>5 DEF At, InCritical, CriticalPC
  <2>3. ASSUME NEW s \in SigIds PROVE [orders EXCEPT ![s] = @ + 1] \in [SigIds -> Nat]
    BY DEF TypeOK
  <2> QED
    BY <1>5, <2>1, <2>2, <2>3 DEF Accept
<1>6. CASE OrderAnswered(p)
  <2>1. PICK f \in 0 .. qty[p] : /\ Accept(p, f)
                                 /\ \E filled \in {qty[p]} \cup ({f} \ {0}) :
                                      qty' = [qty EXCEPT ![p] = filled]
    BY <1>6, FaultType DEF OrderAnswered
  <2>2. f \in Nat /\ qty[p] \in Nat
    BY <2>1 DEF TypeOK
  <2>3. qty' \in [Procs -> Nat]
    BY <2>1, <2>2 DEF TypeOK
  <2> QED
    BY <1>5, <1>6, <2>1, <2>2, <2>3 DEF OrderAnswered, Smooth, TypeOK, Goto, PC, CriticalPC
<1>7. CASE OrderRejected(p)
  BY <1>7, FaultType DEF OrderRejected, TypeOK, Goto, PC, CriticalPC
<1>8. CASE OrderTimedOut(p)
  <2>1. held' \in Nat /\ orders' \in [SigIds -> Nat]
    BY <1>5, <1>8 DEF OrderTimedOut, TypeOK
  <2>2. faults' \in 0 .. MaxFaults
    BY <1>8, FaultType DEF OrderTimedOut
  <2>3. tries' \in [Procs -> Nat]
    BY <1>8 DEF OrderTimedOut, TypeOK
  <2>4. pc' \in [Procs -> PC]
    BY <1>8 DEF OrderTimedOut, TypeOK, Goto, PC, CriticalPC
  <2> QED
    BY <1>8, <2>1, <2>2, <2>3, <2>4 DEF OrderTimedOut, TypeOK
<1>9. CASE AddTrade(p)
  BY <1>0, <1>9, FaultType DEF AddTrade, InsertTrade, TypeOK, InCritical, At, Goto, PC,
                               CriticalPC
<1>10. CASE CreatePosition(p)
  BY <1>10, FaultType DEF CreatePosition, InsertRow, TypeOK, Row, Goto, PC, CriticalPC
<1>11. CASE ReadPositions(p)
  BY <1>11, FaultType DEF ReadPositions, TypeOK, Goto, PC, CriticalPC
<1>12. CASE ClosePosition(p)
  BY <1>12, FaultType DEF ClosePosition, CloseNext, CloseRow, TypeOK, Goto, PC, CriticalPC
<1>13. CASE MarkProcessed(p)
  BY <1>0, <1>13, FaultType DEF MarkProcessed, TypeOK, InCritical, At, Goto, PC, CriticalPC
<1>14. CASE ReleaseLock(p)
  BY <1>14, FaultType, DropType DEF ReleaseLock, DeleteLock, TypeOK
<1> QED
  BY <1>1, <1>2, <1>3, <1>4, <1>6, <1>7, <1>8, <1>9, <1>10, <1>11, <1>12, <1>13, <1>14
     DEF Execute

(* A stuttering step keeps every type. *)
LEMMA StutterType == TypeOK /\ UNCHANGED vars => TypeOK'
  BY DEF TypeOK, vars, redis, db, market, local

-----------------------------------------------------------------------------
(* The signal in hand *)

(* A step of p leaves the program counter and the signal of the others alone. *)
LEMMA OthersUntouched ==
  ASSUME TypeOK, NEW p \in Procs, Process(p), NEW q \in Procs, q # p
  PROVE  pc'[q] = pc[q] /\ cur'[q] = cur[q]
<1> USE DEF TypeOK, redis, db, market, local, Goto, EndReconcile, Drop, Forget
<1>1. CASE Consume(p)
  BY <1>1 DEF Consume, PopSignal, PopTimeout, Restart
<1>2. CASE Reconcile(p)
  BY <1>2 DEF Reconcile, ReconcileBalance, ReconcileRows, ReconcileDecide, ReconcileClose,
              ReconcileCreate, InsertRow, CloseNext, CloseRow
<1>3. CASE Execute(p)
  BY <1>3 DEF Execute, AcquireLock, CheckProcessed, CheckOpenPositions, SizeOrder,
              OrderAnswered, OrderRejected, OrderTimedOut, AddTrade, CreatePosition,
              ReadPositions, ClosePosition, MarkProcessed, ReleaseLock, SetLock,
              DeleteLock, InsertTrade, InsertRow, CloseNext, CloseRow
<1> QED
  BY <1>1, <1>2, <1>3 DEF Process

(* The process that moves keeps, takes or drops its signal as SignalInv says. *)
LEMMA SignalStep ==
  ASSUME TypeOK, SignalInv, NEW p \in Procs, Process(p)
  PROVE  pc'[p] \in CriticalPC \cup {"acquire"} => cur'[p] \in Signal
<1> USE DEF TypeOK, SignalInv, CriticalPC, redis, db, market, local, Goto, At
<1>1. CASE Consume(p)
  <2>1. CASE PopSignal(p)
    <3>1. Head(queue) \in Signal
      BY <2>1 DEF PopSignal
    <3> QED
      BY <2>1, <3>1 DEF PopSignal
  <2>2. CASE PopTimeout(p) \/ Restart(p)
    BY <2>2 DEF PopTimeout, Restart
  <2> QED
    BY <1>1, <2>1, <2>2 DEF Consume
<1>2. CASE Reconcile(p)
  BY <1>2 DEF Reconcile, ReconcileBalance, ReconcileRows, ReconcileDecide, ReconcileClose,
              ReconcileCreate, InsertRow, CloseNext, CloseRow, EndReconcile, AfterReconcile
<1>3. CASE Execute(p)
  BY <1>3 DEF Execute, AcquireLock, CheckProcessed, CheckOpenPositions, SizeOrder,
              OrderAnswered, OrderRejected, OrderTimedOut, AddTrade, CreatePosition,
              ReadPositions, ClosePosition, MarkProcessed, ReleaseLock, SetLock,
              DeleteLock, InsertTrade, InsertRow, CloseNext, CloseRow, Drop, Forget
<1> QED
  BY <1>1, <1>2, <1>3 DEF Process

(* The environment takes no signal from a process that goes on with it. *)
LEMMA EnvironmentSignal == TypeOK /\ SignalInv /\ Environment => SignalInv'
  BY DEF TypeOK, SignalInv, CriticalPC, redis, db, market, local, Environment, Publish,
         Redeliver, OutsideTrade, Crash, ExpireLock, Goto, Forget

TypeInv == TypeOK /\ SignalInv

(* Every variable of Executor.tla keeps its type; a process between acquire *)
(* and release always has a well-formed signal in hand.                     *)
LEMMA TypeAndSignal == Spec => []TypeInv
<1>1. Init => TypeInv
  BY InitType DEF TypeInv, Init, SignalInv, CriticalPC
<1>2. TypeInv /\ [Next]_vars => TypeInv'
  <2> SUFFICES ASSUME TypeOK, SignalInv, [Next]_vars PROVE TypeOK' /\ SignalInv'
    BY DEF TypeInv
  <2>1. CASE Environment
    BY <2>1, EnvironmentType, EnvironmentSignal
  <2>2. ASSUME NEW p \in Procs, Process(p) PROVE TypeOK' /\ SignalInv'
    <3>1. TypeOK'
      BY <2>2, ConsumeType, ReconcileType, ExecuteType DEF Process
    <3>2. SignalInv'
      BY <2>2, OthersUntouched, SignalStep DEF SignalInv
    <3> QED
      BY <3>1, <3>2
  <2>3. CASE UNCHANGED vars
    BY <2>3, StutterType DEF SignalInv, vars, local
  <2> QED
    BY <2>1, <2>2, <2>3 DEF Next
<1> QED
  BY <1>1, <1>2, PTL DEF Spec

(* Type correctness of Executor.tla, for any processes, signals, rows, TTL   *)
(* behaviour and bounds.                                                     *)
THEOREM TypeCorrect == Spec => []TypeOK
<1>1. TypeInv => TypeOK
  BY DEF TypeInv
<1> QED
  BY <1>1, TypeAndSignal, PTL

-----------------------------------------------------------------------------
(* The symbol lock *)

(* When the TTL covers every critical section, whoever is in one owns the key. *)
LockInv == TTLCovers => \A p \in Procs : InCritical(p) => lock = p

(* The key changes hands only in acquire_lock, which needs it absent, and in *)
(* release_lock; a process enters its critical section only by the former.   *)
LEMMA LockStep ==
  ASSUME TypeOK, NEW p \in Procs, Process(p)
  PROVE  /\ \/ lock' = lock
            \/ lock = NoProc /\ lock' = p /\ At(p, "acquire")
            \/ lock' = NoProc /\ At(p, "release") /\ pc'[p] = "idle"
         /\ pc'[p] \in CriticalPC /\ ~InCritical(p) => lock = NoProc /\ lock' = p
         /\ InCritical(p) => pc'[p] \in CriticalPC \cup {"idle"}
         /\ InCritical(p) /\ pc'[p] \notin CriticalPC =>
              At(p, "release") /\ (lock' = NoProc \/ faults' = faults + 1)
         /\ At(p, "acquire") /\ lock' # lock =>
              pc'[p] \in CriticalPC \/ faults' = faults + 1
<1> USE DEF TypeOK, InCritical, CriticalPC, redis, db, market, local, Goto, At
<1>1. CASE Consume(p)
  BY <1>1 DEF Consume, PopSignal, PopTimeout, Restart
<1>2. CASE Reconcile(p)
  BY <1>2 DEF Reconcile, ReconcileBalance, ReconcileRows, ReconcileDecide, ReconcileClose,
              ReconcileCreate, InsertRow, CloseNext, CloseRow, EndReconcile, AfterReconcile
<1>3. CASE AcquireLock(p) \/ CheckProcessed(p) \/ CheckOpenPositions(p) \/ SizeOrder(p)
  BY <1>3 DEF AcquireLock, CheckProcessed, CheckOpenPositions, SizeOrder, Drop, Fault,
              SetLock
<1>4. CASE OrderAnswered(p) \/ OrderRejected(p) \/ OrderTimedOut(p) \/ AddTrade(p)
  BY <1>4 DEF OrderAnswered, OrderRejected, OrderTimedOut, AddTrade, InsertTrade
<1>5. CASE CreatePosition(p) \/ ReadPositions(p) \/ ClosePosition(p) \/ MarkProcessed(p)
  BY <1>5 DEF CreatePosition, ReadPositions, ClosePosition, MarkProcessed, InsertRow,
              CloseNext, CloseRow
<1>6. CASE ReleaseLock(p)
  BY <1>6 DEF ReleaseLock, DeleteLock, Drop, Fault
<1> QED
  BY <1>1, <1>2, <1>3, <1>4, <1>5, <1>6 DEF Process, Execute

(* Every step keeps the owner of the key equal to the process in its        *)
(* critical section.                                                        *)
LEMMA LockInductive == TypeOK /\ LockInv /\ [Next]_vars => LockInv'
<1> SUFFICES ASSUME TypeOK, LockInv, [Next]_vars, TTLCovers, NEW q \in Procs,
pc'[q] \in CriticalPC
             PROVE  lock' = q
  BY DEF LockInv, InCritical
<1>1. CASE Environment
  <2>1. CASE \E p \in Procs : Crash(p)
    <3>1. InCritical(q) /\ lock' = lock
      BY <2>1 DEF Crash, Goto, InCritical, CriticalPC, TypeOK, redis
    <3> QED
      BY <3>1 DEF LockInv
  <2>2. CASE ExpireLock
    BY <2>2, SentinelAssumption DEF ExpireLock, LockInv, InCritical
  <2>3. CASE \/ \E m \in Signal : Publish(m) \/ Redeliver(m)
             \/ \E h \in 0 .. MaxHeld : OutsideTrade(h)
    BY <2>3 DEF Publish, Redeliver, OutsideTrade, LockInv, InCritical, redis
  <2> QED
    BY <1>1, <2>1, <2>2, <2>3 DEF Environment
<1>2. ASSUME NEW p \in Procs, Process(p) PROVE lock' = q
  <2>1. CASE q = p
    BY <1>2, <2>1, LockStep DEF LockInv, InCritical, At, CriticalPC
  <2>2. CASE q # p
    <3>1. lock = q
      BY <1>2, <2>2, OthersUntouched DEF LockInv, InCritical
    <3>2. ~At(p, "release")
      BY <2>2, <3>1 DEF LockInv, InCritical, At, CriticalPC
    <3> QED
      BY <1>2, <3>1, <3>2, LockStep, SentinelAssumption
  <2> QED
    BY <2>1, <2>2
<1>3. CASE UNCHANGED vars
  BY <1>3 DEF LockInv, InCritical, vars, redis
<1> QED
  BY <1>1, <1>2, <1>3 DEF Next

(* In every reachable state the types hold and a critical section owns the  *)
(* lock key.                                                                *)
LEMMA LockHeld == Spec => [](TypeInv /\ LockInv)
<1>1. Init => LockInv
  BY DEF Init, LockInv, InCritical, CriticalPC
<1>2. TypeInv /\ LockInv /\ [Next]_vars => LockInv'
  BY LockInductive DEF TypeInv
<1> QED
  BY <1>1, <1>2, TypeAndSignal, PTL DEF Spec

(* Two executors are never between acquire_lock and release_lock together,  *)
(* however many there are, provided no critical section outlives the TTL.   *)
THEOREM Exclusion == ASSUME TTLCovers PROVE Spec => []MutualExclusion
<1>1. LockInv => MutualExclusion
  BY DEF LockInv, MutualExclusion
<1> QED
  BY <1>1, LockHeld, PTL

-----------------------------------------------------------------------------
(* Orders, the ledger and the processed marks *)

(* The exchange accepts an order only from a process in place_order, for the *)
(* signal it holds.                                                          *)
LEMMA OrderStep ==
  ASSUME TypeOK, NEW p \in Procs, Process(p), orders' # orders
  PROVE  /\ At(p, "send") /\ pc'[p] \in {"send", "trade", "release"}
         /\ orders' = [orders EXCEPT ![cur[p].id] = @ + 1]
         /\ UNCHANGED <<redis, ledger>> /\ cur'[p] = cur[p]
<1> USE DEF TypeOK, redis, db, market, local, Goto, At
<1>1. ~Consume(p) /\ ~Reconcile(p)
  BY DEF Consume, PopSignal, PopTimeout, Restart, Reconcile, ReconcileBalance,
         ReconcileRows, ReconcileDecide, ReconcileClose, ReconcileCreate, InsertRow,
         CloseNext, CloseRow
<1>2. OrderAnswered(p) \/ OrderTimedOut(p)
  BY <1>1 DEF Process, Execute, AcquireLock, CheckProcessed, CheckOpenPositions, SizeOrder,
              OrderRejected, AddTrade, CreatePosition, ReadPositions, ClosePosition,
              MarkProcessed, ReleaseLock, SetLock, DeleteLock, InsertTrade, InsertRow,
              CloseNext, CloseRow
<1> QED
  BY <1>2 DEF OrderAnswered, OrderTimedOut, Accept

(* An id is marked, and a trade recorded, only by the process that holds the *)
(* signal, at the step that does it.                                         *)
LEMMA BooksStep ==
  ASSUME TypeOK, NEW p \in Procs, Process(p)
  PROVE  /\ \/ processed' = processed
            \/ /\ At(p, "mark")
               /\ processed' = processed \cup {cur[p].id}
               /\ pc'[p] = "release"
         /\ \/ ledger' = ledger
            \/ At(p, "trade") /\ ledger' = ledger \cup {cur[p].id}
<1> USE DEF TypeOK, redis, db, market, local, Goto, At
<1>1. CASE Consume(p)
  BY <1>1 DEF Consume, PopSignal, PopTimeout, Restart
<1>2. CASE Reconcile(p)
  BY <1>2 DEF Reconcile, ReconcileBalance, ReconcileRows, ReconcileDecide, ReconcileClose,
              ReconcileCreate, InsertRow, CloseNext, CloseRow
<1>3. CASE Execute(p)
  BY <1>3 DEF Execute, AcquireLock, CheckProcessed, CheckOpenPositions, SizeOrder,
              OrderAnswered, OrderRejected, OrderTimedOut, AddTrade, CreatePosition,
              ReadPositions, ClosePosition, MarkProcessed, ReleaseLock, SetLock,
              DeleteLock, InsertTrade, InsertRow, CloseNext, CloseRow
<1> QED
  BY <1>1, <1>2, <1>3 DEF Process

(* How a process comes to the steps that rest on earlier ones. *)
LEMMA PathStep ==
  ASSUME TypeOK, NEW p \in Procs, Process(p)
  PROVE  /\ pc'[p] \in {"guard", "size", "send"} =>
              /\ cur'[p] = cur[p] /\ UNCHANGED processed
              /\ \/ pc[p] \in {"guard", "size", "send"}
                 \/ At(p, "check") /\ cur[p].id \notin processed
         /\ pc'[p] = "trade" =>
              /\ cur'[p] = cur[p] /\ UNCHANGED <<processed, ledger>>
              /\ At(p, "send") /\ orders' = [orders EXCEPT ![cur[p].id] = @ + 1]
         /\ pc'[p] \in {"row", "closing", "mark"} =>
              /\ cur'[p] = cur[p]
              /\ \/ pc[p] \in {"row", "closing"} /\ UNCHANGED ledger
                 \/ At(p, "trade") /\ ledger' = ledger \cup {cur[p].id}
<1> USE DEF TypeOK, redis, db, market, local, Goto, At
<1>1. CASE Consume(p)
  BY <1>1 DEF Consume, PopSignal, PopTimeout, Restart
<1>2. CASE Reconcile(p)
  BY <1>2 DEF Reconcile, ReconcileBalance, ReconcileRows, ReconcileDecide, ReconcileClose,
              ReconcileCreate, InsertRow, CloseNext, CloseRow, EndReconcile, AfterReconcile
<1>3. CASE Execute(p)
  BY <1>3 DEF Execute, AcquireLock, CheckProcessed, CheckOpenPositions, SizeOrder, Accept,
              OrderAnswered, OrderRejected, OrderTimedOut, AddTrade, CreatePosition,
              ReadPositions, ClosePosition, MarkProcessed, ReleaseLock, SetLock,
              DeleteLock, InsertTrade, InsertRow, CloseNext, CloseRow, Drop
<1> QED
  BY <1>1, <1>2, <1>3 DEF Process

(* The environment touches neither the books nor a process that goes on. *)
LEMMA EnvironmentStep ==
  ASSUME TypeOK, Environment
  PROVE  /\ UNCHANGED <<processed, ledger, orders>>
         /\ \A q \in Procs : \/ pc'[q] = pc[q] /\ cur'[q] = cur[q]
                             \/ pc'[q] = "down"
<1> USE DEF TypeOK, redis, db, market, local
<1>1. CASE \E p \in Procs : Crash(p)
  BY <1>1 DEF Crash, Goto, Forget
<1>2. CASE ~\E p \in Procs : Crash(p)
  BY <1>2 DEF Environment, Publish, Redeliver, OutsideTrade, ExpireLock
<1> QED
  BY <1>1, <1>2

(* Checked and not yet marked: a signal on its way to the exchange is not    *)
(* marked, by this process or by another, until its order is answered.       *)
Exclusive   == TTLCovers \/ \A p, q \in Procs : p = q
UnmarkedInv == Exclusive => \A p \in Procs : pc[p] \in {"guard", "size", "send"} =>
                                               cur[p].id \notin processed

(* Every step keeps the signal unmarked from check_processed to the order.  *)
LEMMA UnmarkedInductive == TypeOK /\ LockInv /\ UnmarkedInv /\ [Next]_vars => UnmarkedInv'
<1> SUFFICES ASSUME TypeOK, LockInv, UnmarkedInv, [Next]_vars, Exclusive,
                    NEW q \in Procs, pc'[q] \in {"guard", "size", "send"}
             PROVE  cur'[q].id \notin processed'
  BY DEF UnmarkedInv
<1>1. CASE Environment
  BY <1>1, EnvironmentStep DEF UnmarkedInv
<1>2. ASSUME NEW p \in Procs, Process(p) PROVE cur'[q].id \notin processed'
  <2>1. CASE q = p
    BY <1>2, <2>1, PathStep DEF UnmarkedInv
  <2>2. CASE q # p
    <3>1. pc'[q] = pc[q] /\ cur'[q] = cur[q]
      BY <1>2, <2>2, OthersUntouched
    <3>2. ~At(p, "mark")
      BY <2>2, <3>1 DEF Exclusive, LockInv, InCritical, CriticalPC, At
    <3> QED
      BY <1>2, <3>1, <3>2, BooksStep DEF UnmarkedInv
  <2> QED
    BY <2>1, <2>2
<1>3. CASE UNCHANGED vars
  BY <1>3 DEF UnmarkedInv, vars, redis, local
<1> QED
  BY <1>1, <1>2, <1>3 DEF Next

(* The only step that orders, from place_order, orders for an unmarked id.   *)
LEMMA OrderedUnmarked ==
  ASSUME Exclusive, TypeInv, UnmarkedInv, [Next]_vars
  PROVE  [\A s \in SigIds : orders'[s] > orders[s] => s \notin processed]_vars
<1> SUFFICES ASSUME TypeOK, UnmarkedInv, Next,
                    NEW s \in SigIds, orders'[s] > orders[s]
             PROVE  s \notin processed
  BY DEF TypeInv
<1>1. orders[s] \in Nat /\ orders' # orders
  BY DEF TypeOK
<1>2. PICK p \in Procs : Process(p)
  BY <1>1, EnvironmentStep DEF Next
<1>3. At(p, "send") /\ orders' = [orders EXCEPT ![cur[p].id] = @ + 1]
  BY <1>1, <1>2, OrderStep
<1>4. s = cur[p].id
  BY <1>1, <1>3 DEF TypeOK
<1> QED
  BY <1>3, <1>4 DEF UnmarkedInv, At

(* An id that is marked processed is never ordered for again, by any number *)
(* of executors, if the TTL covers the critical sections, and by a single   *)
(* executor whatever the TTL.                                               *)
THEOREM Idempotence == ASSUME Exclusive PROVE Spec => NoOrderForProcessed
<1>1. Init => UnmarkedInv
  BY DEF Init, UnmarkedInv
<1>2. TypeInv /\ LockInv /\ UnmarkedInv /\ [Next]_vars => UnmarkedInv'
  BY UnmarkedInductive DEF TypeInv
<1>3. TypeInv /\ UnmarkedInv /\ [Next]_vars =>
        [\A s \in SigIds : orders'[s] > orders[s] => s \notin processed]_vars
  BY OrderedUnmarked
<1> QED
  BY <1>1, <1>2, <1>3, LockHeld, PTL DEF Spec, NoOrderForProcessed

(* No order without the lock: every accepted order comes from the process   *)
(* whose key is set, provided no critical section outlives the TTL.         *)
THEOREM OrderUnderLock == ASSUME TTLCovers PROVE Spec => OrderOnlyUnderLock
<1>1. TypeInv /\ LockInv /\ [Next]_vars =>
        [orders' # orders => \E p \in Procs : lock = p /\ At(p, "send")]_vars
  <2> SUFFICES ASSUME TypeOK, LockInv, Next, orders' # orders
               PROVE  \E p \in Procs : lock = p /\ At(p, "send")
    BY DEF TypeInv
  <2>1. PICK p \in Procs : Process(p)
    BY EnvironmentStep DEF Next
  <2>2. At(p, "send")
    BY <2>1, OrderStep
  <2>3. lock = p
    BY <2>2 DEF LockInv, InCritical, CriticalPC, At
  <2> QED
    BY <2>2, <2>3
<1> QED
  BY <1>1, LockHeld, PTL DEF Spec, OrderOnlyUnderLock

(* LedgerBackedMarks with what each program point already knows: an order   *)
(* before add_trade, a recorded trade from there to mark_processed.         *)
LedgerInv ==
  /\ LedgerBackedMarks
  /\ \A p \in Procs : At(p, "trade") => orders[cur[p].id] > 0
  /\ \A p \in Procs : pc[p] \in {"row", "closing", "mark"} => cur[p].id \in ledger

(* The orders counted for an id never become fewer. *)
LEMMA OrdersGrow ==
  ASSUME TypeOK, SignalInv, NEW p \in Procs, Process(p), NEW s \in SigIds, orders[s] > 0
  PROVE  orders'[s] > 0
<1>1. CASE orders' = orders
  BY <1>1
<1>2. CASE orders' # orders
  <2>1. orders' = [orders EXCEPT ![cur[p].id] = @ + 1]
    BY <1>2, OrderStep
  <2> QED
    BY <2>1 DEF TypeOK
<1> QED
  BY <1>1, <1>2

(* A process that orders or books has a signal, hence an id, in hand. *)
LEMMA HandIsSignal ==
  ASSUME SignalInv, NEW p \in Procs, InCritical(p)
  PROVE  cur[p].id \in SigIds
  BY DEF SignalInv, InCritical, Signal

(* Every step of a process keeps marks backed by trades and trades by orders. *)
LEMMA LedgerProcessStep ==
  ASSUME TypeOK, SignalInv, LedgerInv, NEW p \in Procs, Process(p)
  PROVE  LedgerInv'
<1>1. ledger \subseteq ledger'
  BY BooksStep
<1>2. processed' \subseteq ledger'
  BY <1>1, BooksStep DEF LedgerInv, LedgerBackedMarks, At
<1>3. \A s \in ledger' : orders'[s] > 0
  <2> SUFFICES ASSUME NEW s \in ledger' PROVE orders'[s] > 0
    OBVIOUS
  <2>1. orders[s] > 0
    BY BooksStep DEF LedgerInv, LedgerBackedMarks, At
  <2>2. s \in SigIds
    <3>1. At(p, "trade") => cur[p].id \in SigIds
      BY HandIsSignal DEF At, InCritical, CriticalPC
    <3>2. ledger \subseteq SigIds
      BY DEF TypeOK
    <3> QED
      BY <3>1, <3>2, BooksStep
  <2> QED
    BY <2>1, <2>2, OrdersGrow
<1>4. ASSUME NEW q \in Procs, pc'[q] = "trade" PROVE orders'[cur'[q].id] > 0
  <2>1. CASE q = p
    <3>1. /\ cur'[p] = cur[p] /\ At(p, "send")
          /\ orders' = [orders EXCEPT ![cur[p].id] = @ + 1]
      BY <1>4, <2>1, PathStep
    <3>2. cur[p].id \in SigIds
      BY <3>1, HandIsSignal DEF At, InCritical, CriticalPC
    <3> QED
      BY <2>1, <3>1, <3>2 DEF TypeOK
  <2>2. CASE q # p
    <3>1. pc'[q] = pc[q] /\ cur'[q] = cur[q]
      BY <2>2, OthersUntouched
    <3>2. cur[q].id \in SigIds /\ orders[cur[q].id] > 0
      BY <1>4, <3>1, HandIsSignal DEF LedgerInv, At, InCritical, CriticalPC
    <3> QED
      BY <3>1, <3>2, OrdersGrow
  <2> QED
    BY <2>1, <2>2
<1>5. ASSUME NEW q \in Procs, pc'[q] \in {"row", "closing", "mark"}
      PROVE  cur'[q].id \in ledger'
  <2>1. CASE q = p
    BY <1>5, <2>1, PathStep DEF LedgerInv
  <2>2. CASE q # p
    BY <1>1, <1>5, <2>2, OthersUntouched DEF LedgerInv
  <2> QED
    BY <2>1, <2>2
<1> QED
  BY <1>2, <1>3, <1>4, <1>5 DEF LedgerInv, LedgerBackedMarks, At

(* Every step keeps LedgerInv. *)
LEMMA LedgerInductive == TypeInv /\ LedgerInv /\ [Next]_vars => LedgerInv'
<1> SUFFICES ASSUME TypeOK, SignalInv, LedgerInv, [Next]_vars PROVE LedgerInv'
  BY DEF TypeInv
<1>1. CASE Environment
  BY <1>1, EnvironmentStep DEF LedgerInv, LedgerBackedMarks, At
<1>2. ASSUME NEW p \in Procs, Process(p) PROVE LedgerInv'
  BY <1>2, LedgerProcessStep
<1>3. CASE UNCHANGED vars
  BY <1>3 DEF LedgerInv, LedgerBackedMarks, At, vars, redis, db, market, local
<1> QED
  BY <1>1, <1>2, <1>3 DEF Next

(* The idempotency mark never runs ahead of the ledger, nor the ledger of   *)
(* the exchange, whatever fails, expires or crashes, for any number of      *)
(* executors.                                                               *)
THEOREM MarksBacked == Spec => []LedgerBackedMarks
<1>1. Init => LedgerInv
  BY DEF Init, LedgerInv, LedgerBackedMarks, At
<1>2. LedgerInv => LedgerBackedMarks
  BY DEF LedgerInv
<1> QED
  BY <1>1, <1>2, LedgerInductive, TypeAndSignal, PTL DEF Spec

-----------------------------------------------------------------------------
(* As long as nothing fails, a step that leaves a key set leaves its process *)
(* in the critical section.                                                  *)
LEMMA LeakInductive == TypeInv /\ NoLeakedLock /\ [Next]_vars => NoLeakedLock'
<1> SUFFICES ASSUME TypeOK, NoLeakedLock, [Next]_vars, faults' = 0, lock' # NoProc
             PROVE  pc'[lock'] \in CriticalPC
  BY DEF TypeInv, NoLeakedLock, InCritical
<1> USE DEF NoLeakedLock, InCritical
<1>1. CASE Environment
  BY <1>1 DEF Environment, Publish, Redeliver, OutsideTrade, Crash, ExpireLock,
              Fault, TypeOK, redis, db, market, local
<1>2. ASSUME NEW p \in Procs, Process(p) PROVE pc'[lock'] \in CriticalPC
  <2>1. faults = 0 /\ faults' # faults + 1
    <3>1. faults \in Nat /\ (faults' = faults \/ faults' = faults + 1)
      BY <1>2 DEF TypeOK, Process, Consume, Reconcile, Execute, PopSignal, PopTimeout,
           Restart, ReconcileBalance, ReconcileRows, ReconcileDecide, ReconcileClose,
           ReconcileCreate, InsertRow, CloseNext, CloseRow, AcquireLock, CheckProcessed,
           CheckOpenPositions, SizeOrder,
           OrderAnswered, OrderRejected, OrderTimedOut, AddTrade, CreatePosition,
           ReadPositions, ClosePosition, MarkProcessed, ReleaseLock, SetLock, DeleteLock,
           InsertTrade, InsertRow, CloseNext, CloseRow, Smooth, Fault
    <3> QED
      BY <3>1
  <2>2. CASE lock' = lock
    <3>1. lock \in Procs /\ InCritical(lock)
      BY <2>1, <2>2 DEF TypeOK
    <3>2. CASE lock = p
      BY <1>2, <2>1, <2>2, <3>1, <3>2, LockStep
    <3>3. CASE lock # p
      BY <1>2, <2>2, <3>1, <3>3, OthersUntouched
    <3> QED
      BY <3>2, <3>3
  <2>3. CASE lock' # lock
    BY <1>2, <2>1, <2>3, LockStep
  <2> QED
    BY <2>2, <2>3
<1>3. CASE UNCHANGED vars
  BY <1>3 DEF vars, redis
<1> QED
  BY <1>1, <1>2, <1>3 DEF Next

(* Every path of execute_buy and execute_sell releases the lock: without a  *)
(* failure a set key always has its process in the critical section.        *)
THEOREM NoLeak == Spec => []NoLeakedLock
<1>1. Init => NoLeakedLock
  BY DEF Init, NoLeakedLock
<1> QED
  BY <1>1, LeakInductive, TypeAndSignal, PTL DEF Spec

-----------------------------------------------------------------------------
(* The positions table of a single executor *)

Sole      == \A p, q \in Procs : p = q
OneOf(R)  == \A r, s \in R : r = s
BuyingAt  == {"size", "send", "trade", "row"}

(* What each program point knows of the table when one executor serves the   *)
(* symbol: a buy that has passed check_open_positions, and a reconciliation  *)
(* about to create a row, find it empty; the rows a process has read and is  *)
(* deciding on or closing are the open ones; quantities to be stored are not *)
(* zero, so that a total of zero means that there is no row.                 *)
RowInv ==
  Sole =>
    /\ OneOf(rows)
    /\ \A r \in rows : r.qty > 0
    /\ \A p \in Procs :
         /\ pc[p] \in BuyingAt /\ cur[p].side = "buy"            => rows = {}
         /\ pc[p] \in {"send", "trade", "row", "recon_create"} => qty[p] > 0
         /\ pc[p] = "recon_create"                             => rows = {}
         /\ pc[p] \in {"recon_decide", "recon_close", "closing"} => snap[p] = rows

(* The total of no rows and of one row: sum(...) over open_positions. *)
LEMMA TotalOfOne ==
  ASSUME NEW R \in SUBSET Row, OneOf(R)
  PROVE  /\ R = {} => TotalQty(R) = 0
         /\ \A r \in R : TotalQty(R) = r.qty
<1> DEFINE f == [r \in R |-> r.qty]
<1>1. TotalQty(R) = SumFunctionOnSet(f, R)
  BY DEF TotalQty, SumFunction
<1>2. SumFunctionOnSet(f, {}) = 0
  BY SumEmpty
<1>3. ASSUME NEW r \in R PROVE SumFunctionOnSet(f, R) = r.qty
  <2>1. R = {} \cup {r}
    BY DEF OneOf
  <2>2. f[r] = r.qty /\ r.qty \in Nat
    BY DEF Row
  <2>3. SumFunctionOnSet(f, {} \cup {r}) = SumFunctionOnSet(f, {}) + f[r]
    <3>1. IntegersOn(f, {} \cup {r})
      BY <2>2 DEF IntegersOn
    <3> HIDE DEF f
    <3> QED
      BY <3>1, SumAdd, FS_EmptySet
  <2> HIDE DEF f
  <2> QED
    BY <1>2, <2>1, <2>2, <2>3
<1> QED
  BY <1>1, <1>2, <1>3

(* The consumer loop and the environment leave the table alone, and come to *)
(* none of the points RowInv speaks of.                                     *)
LEMMA RowsConsume ==
  ASSUME TypeOK, SignalInv, RowInv, Sole, NEW p \in Procs, Consume(p)
  PROVE  RowInv'
  BY DEF TypeOK, RowInv, Sole, OneOf, BuyingAt, Consume, PopSignal, PopTimeout, Restart,
         redis, db, market, local, Goto, At

(* Each step of Executor.reconcile keeps what is known of the table. *)
LEMMA RowsReconcile ==
  ASSUME TypeOK, SignalInv, RowInv, Sole, NEW p \in Procs, Reconcile(p)
  PROVE  RowInv'
<1> USE DEF TypeOK, Sole, BuyingAt, redis, db, market, local, Goto, At, EndReconcile,
            AfterReconcile
<1>1. CASE ReconcileBalance(p)
  BY <1>1 DEF RowInv, OneOf, ReconcileBalance
<1>2. CASE ReconcileRows(p)
  BY <1>2 DEF RowInv, OneOf, ReconcileRows
<1>3. CASE ReconcileDecide(p)
  <2>1. rows' = rows
    BY <1>3 DEF ReconcileDecide
  <2>2. CASE pc'[p] = "recon_create"
    <3>1. /\ snap[p] = rows
          /\ Distance(TotalQty(snap[p]), qty[p]) >= MinOrder
          /\ ReconcileAction(TotalQty(snap[p]), qty[p]) = "open_missing_local"
          /\ UNCHANGED <<qty, snap, cur>>
      BY <1>3, <2>2 DEF ReconcileDecide, RowInv
    <3>2. TotalQty(rows) = 0 /\ qty[p] > 0
      BY <3>1, ConstantsAssumption DEF ReconcileAction, Distance
    <3>3. rows = {}
      BY <3>2, TotalOfOne DEF RowInv
    <3> QED
      BY <1>3, <2>1, <2>2, <3>1, <3>2, <3>3 DEF RowInv, OneOf, ReconcileDecide
  <2>3. CASE pc'[p] # "recon_create"
    BY <1>3, <2>1, <2>3 DEF RowInv, OneOf, ReconcileDecide
  <2> QED
    BY <2>2, <2>3
<1>4. CASE ReconcileClose(p)
  <2>1. /\ At(p, "recon_close") /\ snap[p] = rows /\ UNCHANGED <<cur, tries>>
        /\ OneOf(rows) /\ \A r \in rows : r.qty > 0
    BY <1>4 DEF ReconcileClose, RowInv
  <2>2. CASE CloseNext(p) /\ UNCHANGED <<pc, qty>>
    BY <2>1, <2>2 DEF RowInv, OneOf, CloseNext, CloseRow
  <2>3. CASE EndReconcile(p) /\ UNCHANGED rows
    BY <2>1, <2>3 DEF RowInv
  <2>4. CASE snap[p] = {} /\ qty[p] >= MinOrder /\ pc'[p] = "recon_create" /\ UNCHANGED <<rows, qty, snap>>
    <3>1. rows = {} /\ qty[p] > 0
      BY <2>1, <2>4, ConstantsAssumption
    <3> QED
      BY <2>1, <2>4, <3>1 DEF RowInv, OneOf
  <2> QED
    BY <1>4, <2>2, <2>3, <2>4 DEF ReconcileClose
<1>5. CASE ReconcileCreate(p)
  BY <1>5 DEF RowInv, OneOf, ReconcileCreate, InsertRow
<1> QED
  BY <1>1, <1>2, <1>3, <1>4, <1>5 DEF Reconcile

(* Each step of execute_buy and execute_sell keeps what is known of the table. *)
LEMMA RowsExecute ==
  ASSUME TypeOK, SignalInv, RowInv, Sole, NEW p \in Procs, Execute(p)
  PROVE  RowInv'
<1> USE DEF TypeOK, Sole, BuyingAt, redis, db, market, local, Goto, At, Drop, Forget
<1>1. CASE AcquireLock(p) \/ CheckProcessed(p) \/ OrderRejected(p)
  BY <1>1 DEF RowInv, OneOf, AcquireLock, CheckProcessed, OrderRejected
<1>2. CASE CheckOpenPositions(p)
  <2>1. cur[p] \in Signal
    BY <1>2 DEF CheckOpenPositions, SignalInv, CriticalPC
  <2> QED
    BY <1>2, <2>1 DEF RowInv, OneOf, CheckOpenPositions, Signal
<1>3. CASE SizeOrder(p)
  <2>1. pc'[p] = "send" => qty'[p] > 0
    BY <1>3, ConstantsAssumption DEF SizeOrder, SafeQty
  <2> QED
    BY <1>3, <2>1 DEF RowInv, OneOf, SizeOrder
<1>4. CASE OrderAnswered(p)
  <2>1. qty[p] > 0
    BY <1>4 DEF OrderAnswered, RowInv
  <2>2. qty'[p] > 0
    BY <1>4, <2>1 DEF OrderAnswered
  <2> QED
    BY <1>4, <2>2 DEF RowInv, OneOf, OrderAnswered
<1>5. CASE OrderTimedOut(p)
  BY <1>5 DEF RowInv, OneOf, OrderTimedOut
<1>6. CASE AddTrade(p) \/ MarkProcessed(p) \/ ReleaseLock(p)
  BY <1>6 DEF RowInv, OneOf, AddTrade, MarkProcessed, ReleaseLock
<1>7. CASE CreatePosition(p)
  BY <1>7 DEF RowInv, OneOf, CreatePosition, InsertRow
<1>8. CASE ReadPositions(p)
  BY <1>8 DEF RowInv, OneOf, ReadPositions
<1>9. CASE ClosePosition(p)
  BY <1>9 DEF RowInv, OneOf, ClosePosition, CloseNext, CloseRow
<1> QED
  BY <1>1, <1>2, <1>3, <1>4, <1>5, <1>6, <1>7, <1>8, <1>9 DEF Execute

(* The strategy, Redis, the account and crashes leave the table alone. *)
LEMMA RowsEnvironment == TypeOK /\ RowInv /\ Environment => RowInv'
<1> SUFFICES ASSUME TypeOK, RowInv, Environment PROVE RowInv'
  OBVIOUS
<1> USE DEF TypeOK, RowInv, OneOf, BuyingAt, redis, db, market, local
<1>1. CASE \E p \in Procs : Crash(p)
  BY <1>1 DEF Crash, Goto, Forget
<1>2. CASE ~\E p \in Procs : Crash(p)
  BY <1>2 DEF Environment, Publish, Redeliver, OutsideTrade, ExpireLock
<1> QED
  BY <1>1, <1>2

(* In every reachable state the types hold and, when one executor serves the *)
(* symbol, its program counter knows what RowInv says of the table.          *)
LEMMA RowsKnown == Spec => [](TypeInv /\ RowInv)
<1>1. Init => RowInv
  BY DEF Init, RowInv, OneOf, BuyingAt
<1>2. TypeInv /\ RowInv /\ [Next]_vars => RowInv'
  <2> SUFFICES ASSUME TypeOK, SignalInv, RowInv, Sole, [Next]_vars PROVE RowInv'
    BY DEF TypeInv, RowInv
  <2>1. CASE Environment
    BY <2>1, RowsEnvironment
  <2>2. ASSUME NEW p \in Procs, Process(p) PROVE RowInv'
    BY <2>2, RowsConsume, RowsReconcile, RowsExecute DEF Process
  <2>3. CASE UNCHANGED vars
    BY <2>3 DEF RowInv, OneOf, BuyingAt, vars, db, local
  <2> QED
    BY <2>1, <2>2, <2>3 DEF Next
<1> QED
  BY <1>1, <1>2, TypeAndSignal, PTL DEF Spec

(* One executor keeps at most one open row: a buy creates one only into the *)
(* empty table it has checked several awaits before, and a reconciliation   *)
(* only after it has closed, or has not found, any.                         *)
THEOREM OneRow == ASSUME IsFiniteSet(Procs) PROVE Spec => []OneOpenRow
<1>1. RowInv => OneOpenRow
  <2> SUFFICES ASSUME RowInv, Cardinality(Procs) = 1 PROVE Cardinality(rows) <= 1
    BY DEF OneOpenRow
  <2>1. PICK p : Procs = {p}
    BY FS_Singleton
  <2>2. OneOf(rows)
    BY <2>1 DEF RowInv, Sole
  <2>3. CASE rows = {}
    BY <2>3, FS_EmptySet
  <2>4. ASSUME NEW r \in rows PROVE Cardinality(rows) <= 1
    <3>1. rows = {r}
      BY <2>2 DEF OneOf
    <3>2. Cardinality({r}) = 1
      BY FS_Singleton
    <3> QED
      BY <3>1, <3>2
  <2> QED
    BY <2>3, <2>4
<1> QED
  BY <1>1, RowsKnown, PTL

(* A reconciliation that ends without an error leaves the open rows within  *)
(* the dust threshold of the balance it read, when one executor serves the  *)
(* symbol: over all its awaits nobody else writes the table.                *)
THEOREM ReconciliationAgrees == ASSUME Sole PROVE Spec => ReconcileAgrees
<1>1. TypeInv /\ RowInv /\ [Next]_vars =>
        [\A p \in Procs :
           /\ pc[p] \in ReconcilePC
           /\ pc'[p] \notin ReconcilePC
           /\ faults' = faults
           => Distance(TotalQty(rows'), qty[p]) < MinOrder]_vars
  <2> SUFFICES ASSUME TypeInv, RowInv, Next, NEW p \in Procs,
                      pc[p] \in ReconcilePC, pc'[p] \notin ReconcilePC, faults' = faults
               PROVE  Distance(TotalQty(rows'), qty[p]) < MinOrder
    OBVIOUS
  <2>1. /\ OneOf(rows) /\ rows \subseteq Row /\ qty[p] \in Nat
        /\ MinOrder > 0 /\ MinOrder \in Nat /\ faults \in Nat /\ pc[p] # "idle"
    BY ConstantsAssumption DEF RowInv, TypeInv, TypeOK, ReconcilePC
  <2>2. Reconcile(p)
    <3>1. ~Environment
      <4>1. ~\E q \in Procs : Crash(q)
        BY <2>1 DEF Crash, Fault
      <4> QED
        BY <4>1 DEF Environment, Publish, Redeliver, OutsideTrade, ExpireLock
    <3>2. Process(p)
      BY <3>1 DEF Next, Sole
    <3>3. ~Consume(p) /\ ~Execute(p)
      BY DEF ReconcilePC, At, Consume, PopSignal, PopTimeout, Restart, Execute, AcquireLock,
             CheckProcessed, CheckOpenPositions, SizeOrder, OrderAnswered, OrderRejected,
             OrderTimedOut, AddTrade, CreatePosition, ReadPositions, ClosePosition,
             MarkProcessed, ReleaseLock
    <3> QED
      BY <3>2, <3>3 DEF Process
  <2> USE DEF TypeInv, TypeOK, ReconcilePC, At, Goto, Fault, EndReconcile, AfterReconcile
  <2>3. CASE ReconcileBalance(p)
    BY <2>3 DEF ReconcileBalance
  <2>4. CASE ReconcileRows(p)
    BY <2>1, <2>4 DEF ReconcileRows
  <2>5. CASE ReconcileDecide(p)
    <3>1. rows' = rows /\ snap[p] = rows
      BY <2>5 DEF ReconcileDecide, RowInv, db
    <3>2. Distance(TotalQty(snap[p]), qty[p]) < MinOrder
      BY <2>1, <2>5 DEF ReconcileDecide
    <3> QED
      BY <3>1, <3>2
  <2>6. CASE ReconcileClose(p)
    <3>1. rows' = {} /\ qty[p] < MinOrder
      BY <2>1, <2>6 DEF ReconcileClose, RowInv, CloseNext
    <3>2. TotalQty(rows') = 0
      BY <3>1, SumEmpty DEF TotalQty, SumFunction
    <3> QED
      BY <2>1, <3>1, <3>2 DEF Distance
  <2>7. CASE ReconcileCreate(p)
    <3>0. rows = {} /\ InsertRow(qty[p])
      BY <2>1, <2>7 DEF ReconcileCreate, RowInv
    <3>1. PICK id \in RowIds : rows' = {[id |-> id, qty |-> qty[p]]}
      BY <3>0 DEF InsertRow
    <3>2. TotalQty(rows') = qty[p]
      <4>1. rows' \in SUBSET Row /\ OneOf(rows')
        BY <2>1, <3>1 DEF Row, OneOf
      <4> QED
        BY <3>1, <4>1, TotalOfOne
    <3> QED
      BY <2>1, <3>2 DEF Distance
  <2> QED
    BY <2>2, <2>3, <2>4, <2>5, <2>6, <2>7 DEF Reconcile
<1> QED
  BY <1>1, RowsKnown, PTL DEF Spec, ReconcileAgrees

-----------------------------------------------------------------------------
(* One executor implements the position state machine of the domain layer *)

EntersAt == {"send", "trade", "row"}
ExitsAt  == {"send", "trade", "row", "closing"}

(* Position, when p is the only process. *)
PositionOf(p) ==
  IF cur[p] # NoSig /\ cur[p].side = "buy" /\ pc[p] \in EntersAt THEN "ENTERING"
  ELSE IF cur[p] # NoSig /\ cur[p].side = "sell" /\ pc[p] \in ExitsAt THEN "EXITING"
  ELSE IF rows = {} THEN "NONE"
  ELSE "OPEN"

(* With one process, what Position says of some process it says of that one. *)
LEMMA PositionIsOf ==
  ASSUME Sole, NEW p \in Procs
  PROVE  Position = PositionOf(p) /\ Position' = PositionOf(p)'
<1>1. \A side, at : Handling(side, at) <=> cur[p] # NoSig /\ cur[p].side = side /\ pc[p] \in at
  BY DEF Handling, Sole
<1>2. \A side, at : Handling(side, at)' <=>
                      cur'[p] # NoSig /\ cur'[p].side = side /\ pc'[p] \in at
  BY DEF Handling, Sole
<1> QED
  BY <1>1, <1>2 DEF Position, PositionOf, EntersAt, ExitsAt

(* The pairs of states that PositionLifecycle allows, stuttering included. *)
LEMMA LifecyclePairs ==
  ASSUME \/ Position' = Position
         \/ Position = "NONE"     /\ Position' \in {"ENTERING", "OPEN", "EXITING"}
         \/ Position = "ENTERING" /\ Position' \in {"OPEN", "NONE"}
         \/ Position = "OPEN"     /\ Position' \in {"EXITING", "NONE"}
         \/ Position = "EXITING"  /\ Position' \in {"NONE", "OPEN"}
  PROVE  [Lifecycle!Next]_Position
  BY DEF Lifecycle!Next, Lifecycle!Transition, Lifecycle!Recover, Lifecycle!SellUntracked,
         Lifecycle!CanTransition, Lifecycle!Allowed, Lifecycle!PositionState

(* What the other steps rest on: a step that leaves the table alone and does *)
(* not begin to handle an order moves the position only out of a handling.   *)
LEMMA PositionKept ==
  ASSUME Sole, NEW p \in Procs, rows' = rows,
         \/ cur'[p] = NoSig \/ pc'[p] \notin ExitsAt
         \/ /\ cur'[p] = cur[p]
            /\ pc'[p] \in EntersAt => pc[p] \in EntersAt
            /\ pc'[p] \in ExitsAt  => pc[p] \in ExitsAt
  PROVE  [Lifecycle!Next]_Position
  BY PositionIsOf, LifecyclePairs DEF PositionOf, EntersAt, ExitsAt

(* The consumer loop never touches the table and is never handling an order. *)
LEMMA PositionConsume ==
  ASSUME TypeOK, Sole, NEW p \in Procs, Consume(p)
  PROVE  [Lifecycle!Next]_Position
<1>1. rows' = rows
  BY DEF Consume, PopSignal, PopTimeout, Restart, db
<1>2. pc'[p] \notin ExitsAt
  BY DEF TypeOK, ExitsAt, Consume, PopSignal, PopTimeout, Restart, Goto, At
<1> QED
  BY <1>1, <1>2, PositionKept

(* A reconciliation handles no order: it can only move NONE to OPEN and back. *)
LEMMA PositionReconcile ==
  ASSUME TypeOK, Sole, NEW p \in Procs, Reconcile(p)
  PROVE  [Lifecycle!Next]_Position
<1>1. pc[p] \notin ExitsAt
  BY DEF ExitsAt, Reconcile, ReconcileBalance, ReconcileRows, ReconcileDecide, ReconcileClose,
         ReconcileCreate, At
<1>2. pc'[p] \notin ExitsAt
  BY DEF TypeOK, ExitsAt, Reconcile, ReconcileBalance, ReconcileRows, ReconcileDecide,
         ReconcileClose, ReconcileCreate, EndReconcile, AfterReconcile, Goto, At
<1>3. Position \in {"NONE", "OPEN"} /\ Position' \in {"NONE", "OPEN"}
  BY <1>1, <1>2, PositionIsOf DEF PositionOf, EntersAt, ExitsAt
<1> QED
  BY <1>3, LifecyclePairs

(* execute_buy enters only from NONE: a buy past check_open_positions still   *)
(* has the empty table it saw.  A sell exits from NONE or OPEN and stays in   *)
(* its exit until the last row it read is closed.                             *)
LEMMA PositionExecute ==
  ASSUME TypeOK, SignalInv, RowInv, Sole, NEW p \in Procs, Execute(p)
  PROVE  [Lifecycle!Next]_Position
<1> USE DEF TypeOK, EntersAt, ExitsAt, redis, db, market, local, Goto, At, Drop, Forget
<1>1. CASE AcquireLock(p) \/ CheckProcessed(p) \/ CheckOpenPositions(p)
  BY <1>1, PositionKept DEF AcquireLock, CheckProcessed, CheckOpenPositions
<1>2. CASE SizeOrder(p)
  <2>1. rows' = rows /\ cur' = cur /\ pc[p] = "size"
    BY <1>2 DEF SizeOrder
  <2>2. cur[p].side = "buy" => rows = {}
    BY <2>1 DEF RowInv, BuyingAt
  <2>3. Position \in {"NONE", "OPEN"}
    BY <2>1, PositionIsOf DEF PositionOf
  <2>4. /\ Position = "NONE" => Position' \in {"NONE", "ENTERING", "EXITING"}
        /\ Position = "OPEN" => Position' \in {"OPEN", "EXITING"}
    BY <2>1, <2>2, PositionIsOf DEF PositionOf
  <2> QED
    BY <2>3, <2>4, LifecyclePairs
<1>3. CASE OrderAnswered(p) \/ OrderRejected(p) \/ OrderTimedOut(p)
  BY <1>3, PositionKept DEF OrderAnswered, OrderRejected, OrderTimedOut
<1>4. CASE AddTrade(p) \/ ReadPositions(p)
  BY <1>4, PositionKept DEF AddTrade, ReadPositions
<1>5. CASE CreatePosition(p)
  <2>1. cur[p] \in Signal /\ cur[p] # NoSig
    BY <1>5, SentinelAssumption DEF CreatePosition, SignalInv, CriticalPC
  <2>2. Position = "ENTERING" /\ Position' \in {"NONE", "OPEN"}
    BY <1>5, <2>1, PositionIsOf DEF CreatePosition, PositionOf
  <2> QED
    BY <2>2, LifecyclePairs
<1>6. CASE ClosePosition(p)
  <2>1. pc[p] = "closing" /\ cur' = cur /\ pc'[p] \in {"closing", "mark"}
    BY <1>6 DEF ClosePosition
  <2>2. rows' \subseteq rows
    BY <1>6 DEF ClosePosition, CloseNext, CloseRow
  <2>3. /\ Position \in {"NONE", "OPEN", "EXITING"}
        /\ Position = "NONE" => Position' = "NONE"
        /\ Position = "OPEN" => Position' \in {"NONE", "OPEN"}
    BY <2>1, <2>2, PositionIsOf DEF PositionOf
  <2>4. Position' \in {"NONE", "OPEN", "EXITING"}
    BY <2>1, PositionIsOf DEF PositionOf
  <2> QED
    BY <2>3, <2>4, LifecyclePairs
<1>7. CASE MarkProcessed(p) \/ ReleaseLock(p)
  BY <1>7, PositionKept DEF MarkProcessed, ReleaseLock
<1> QED
  BY <1>1, <1>2, <1>3, <1>4, <1>5, <1>6, <1>7 DEF Execute

(* No signal pushed, key expired, balance moved or process crashed moves the *)
(* position, but that a crash ends the handling of an order.                 *)
LEMMA PositionEnvironment ==
  ASSUME TypeOK, Sole, NEW p \in Procs, Environment
  PROVE  [Lifecycle!Next]_Position
<1>1. rows' = rows
  BY DEF Environment, Publish, Redeliver, OutsideTrade, Crash, ExpireLock, db
<1>2. cur'[p] = NoSig \/ (cur'[p] = cur[p] /\ pc'[p] = pc[p])
  BY DEF TypeOK, Sole, Environment, Publish, Redeliver, OutsideTrade, Crash, ExpireLock,
         Forget, local
<1> QED
  BY <1>1, <1>2, PositionKept

(* A single executor implements the state machine of domain/state_machine.py, *)
(* widened by the two corrections of reconcile and by the sale of a balance   *)
(* no row stands for, in every interleaving with signals, crashes, lost       *)
(* answers and trades by others: although executor.py never calls             *)
(* transition(), these are the only steps it would refuse.                    *)
THEOREM ImplementsLifecycle == ASSUME Sole, Procs # {} PROVE Spec => FollowsLifecycle
<1>1. PICK p : p \in Procs
  OBVIOUS
<1>2. Init => Lifecycle!Init
  BY <1>1, PositionIsOf DEF Init, Lifecycle!Init, PositionOf, EntersAt
<1>3. TypeInv /\ RowInv /\ [Next]_vars => [Lifecycle!Next]_Position
  <2> SUFFICES ASSUME TypeOK, SignalInv, RowInv, [Next]_vars
               PROVE  [Lifecycle!Next]_Position
    BY DEF TypeInv
  <2>1. CASE Environment
    BY <1>1, <2>1, PositionEnvironment
  <2>2. ASSUME NEW q \in Procs, Process(q) PROVE [Lifecycle!Next]_Position
    BY <2>2, PositionConsume, PositionReconcile, PositionExecute DEF Process
  <2>3. CASE UNCHANGED vars
    BY <1>1, <2>3, PositionKept DEF vars, db, local
  <2> QED
    BY <2>1, <2>2, <2>3 DEF Next
<1> QED
  BY <1>2, <1>3, RowsKnown, PTL DEF Spec, FollowsLifecycle, Lifecycle!Spec

=============================================================================
