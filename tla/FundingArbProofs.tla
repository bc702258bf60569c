-------------------------- MODULE FundingArbProofs --------------------------
(***************************************************************************)
(* What holds of FundingArb.tla for every lot size, every number of        *)
(* attempts of an order and every number of mishaps.                       *)
(***************************************************************************)
EXTENDS FundingArb, SumTheorems, TLAPS

-----------------------------------------------------------------------------
(* Mishaps *)

(* There are finitely many kinds of mishaps. *)
LEMMA KindsFinite == IsFiniteSet(Kinds)
<1>1. IsFiniteSet(Steps)
  <2>1. IsFiniteSet({} \cup {"short"} \cup {"buy"} \cup {"rollback"} \cup {"cover"} \cup {"sell"})
    BY FS_EmptySet, FS_AddElement
  <2>2. Steps = {} \cup {"short"} \cup {"buy"} \cup {"rollback"} \cup {"cover"} \cup {"sell"}
    BY DEF Steps
  <2> QED
    BY <2>1, <2>2
<1>2. IsFiniteSet(Steps \cup {"partial"} \cup {"lost"} \cup {"blind"} \cup {"market"} \cup {"redis"}
                        \cup {"crash"} \cup {"drained"})
  BY <1>1, FS_AddElement
<1>3. Kinds = Steps \cup {"partial"} \cup {"lost"} \cup {"blind"} \cup {"market"} \cup {"redis"}
                    \cup {"crash"} \cup {"drained"}
  BY DEF Kinds
<1> QED
  BY <1>2, <1>3

(* A mishap of one kind raises its count by one and no other, and happens    *)
(* only while the total leaves room for it.                                  *)
LEMMA MishapCounts ==
  ASSUME TypeOK, NEW k \in Kinds, Happens(k)
  PROVE  /\ mishaps' \in [Kinds -> 0 .. MaxMishaps]
         /\ mishaps'[k] = mishaps[k] + 1
         /\ \A j \in Kinds \ {k} : mishaps'[j] = mishaps[j]
<1>1. mishaps \in [Kinds -> 0 .. MaxMishaps] /\ MaxMishaps \in Nat
  BY ConstantsAssumption DEF TypeOK
<1>2. mishaps' = [mishaps EXCEPT ![k] = @ + 1] /\ Total(mishaps) < MaxMishaps
  BY DEF Happens
<1>3. Total(mishaps) = SumFunctionOnSet(mishaps, Kinds)
  BY <1>1 DEF Total, SumFunction
<1>4. Total(mishaps) \in Nat /\ mishaps[k] <= Total(mishaps)
  BY <1>1, <1>3, KindsFinite, SumBounds
<1>5. mishaps[k] + 1 \in 0 .. MaxMishaps
  BY <1>1, <1>2, <1>4
<1> QED
  BY <1>1, <1>2, <1>5

(* Every step has no mishap or one. *)
LEMMA MishapSteps ==
  ASSUME TypeOK, [Next]_vars
  PROVE  UNCHANGED mishaps \/ \E k \in Kinds : Happens(k)
  BY DEF Next, Cycle, Open, Close, StartArb, StopArb, MarketMoves, DrainSpot, ExpireLock,
         Crash, Restart, BeginCycle, ReadTicker, ReadStatus, AcquireLock, ShortPerp,
         BuySpot, Rollback, QueryPerp, CoverPerp, SellSpot, ReleaseLock, Order, Smooth,
         Mishap, fate, Steps, Kinds, vars

(* The history of mishaps never loses one: a kind that has not happened      *)
(* after a step had not happened before it, and did not happen in it.        *)
LEMMA MishapsGrow ==
  ASSUME TypeOK, [Next]_vars, NEW j \in Kinds, mishaps'[j] = 0
  PROVE  mishaps[j] = 0 /\ ~Happens(j)
<1>1. mishaps[j] \in Nat
  BY ConstantsAssumption DEF TypeOK
<1>2. mishaps'[j] = mishaps[j] \/ mishaps'[j] = mishaps[j] + 1
  BY MishapSteps, MishapCounts
<1>3. Happens(j) => mishaps'[j] = mishaps[j] + 1
  BY MishapCounts
<1> QED
  BY <1>1, <1>2, <1>3

-----------------------------------------------------------------------------
(* Types *)

(* A process between two cycles remembers a well-formed ticker. *)
LEMMA NothingType == Nothing \in Ticker
  BY DEF Nothing, Ticker, Funding

(* However much of an order is filled, no leg becomes negative. *)
LEMMA FilledType ==
  ASSUME TypeOK, NEW step, NEW q \in Nat, NEW n \in Nat, Filled(step, q, n)
  PROVE  perp' \in Nat /\ spot' \in Nat
  BY DEF Filled, Reduced, TypeOK

(* An order, in whatever way it ends, keeps the types of what it touches. *)
LEMMA OrderType ==
  ASSUME TypeOK, NEW step \in Steps, NEW q \in Nat, NEW success \in PC, NEW failure \in PC,
         Order(step, q, success, failure)
  PROVE  /\ perp' \in Nat /\ spot' \in Nat
         /\ pc' \in PC
         /\ unfilled' \in Nat
<1>1. perp' \in Nat /\ spot' \in Nat
  <2>1. q \in 0 .. q /\ 0 .. q \subseteq Nat /\ 0 .. q - 1 \subseteq Nat
        /\ 0 .. MaxAttempts * q \subseteq Nat
    OBVIOUS
  <2>2. UNCHANGED legs \/ \E n \in Nat : Filled(step, q, n)
    BY <2>1 DEF Order
  <2> QED
    BY <2>2, FilledType DEF legs, TypeOK
<1>2. pc' \in PC
  BY DEF Order, Goto
<1>3. unfilled' \in Nat
  <2>1. unfilled' = unfilled \/ \E n \in 0 .. q - 1 : unfilled' = unfilled + (q - n)
    BY DEF Order, Smooth, Mishap, fate
  <2> QED
    BY <2>1 DEF TypeOK
<1> QED
  BY <1>1, <1>2, <1>3

(* Every step keeps every type. *)
LEMMA NextType == TypeOK /\ [Next]_vars => TypeOK'
<1> SUFFICES ASSUME TypeOK, [Next]_vars PROVE TypeOK'
  OBVIOUS
<1>1. mishaps' \in [Kinds -> 0 .. MaxMishaps]
  BY MishapSteps, MishapCounts DEF TypeOK
<1> USE DEF market, legs, local, fate, At, Goto, Smooth, Mishap
<1>2. CASE Open \/ Close
  <2>1. size' \in Nat
    BY <1>2 DEF Open, Close, ShortPerp, BuySpot, Rollback, QueryPerp, CoverPerp, SellSpot,
                TypeOK
  <2>2. perp' \in Nat /\ spot' \in Nat /\ pc' \in PC /\ unfilled' \in Nat
    <3>1. Lot \in Nat /\ size \in Nat
      BY ConstantsAssumption DEF TypeOK
    <3>2. {"buy", "rollback", "sell", "cover", "release"} \subseteq PC
      BY DEF PC, Opening, Closing
    <3>3. CASE QueryPerp
      BY <3>2, <3>3 DEF QueryPerp, TypeOK
    <3>4. CASE ~QueryPerp
      BY <1>2, <3>1, <3>2, <3>4, OrderType
         DEF Open, Close, ShortPerp, BuySpot, Rollback, CoverPerp, SellSpot, Steps
    <3> QED
      BY <3>3, <3>4
  <2>3. UNCHANGED <<enabled, locked, market, seen>>
    BY <1>2 DEF Open, Close, ShortPerp, BuySpot, Rollback, QueryPerp, CoverPerp, SellSpot
  <2> QED
    BY <1>1, <2>1, <2>2, <2>3 DEF TypeOK
<1>3. CASE ReadTicker
  <2>1. seen' \in Ticker /\ pc' \in PC
    <3>1. [funding |-> funding, wide |-> wide, priced |-> TRUE] \in Ticker
      BY DEF Ticker, TypeOK
    <3>2. [Nothing EXCEPT !.funding = funding] \in Ticker
      BY NothingType DEF Ticker, TypeOK
    <3> QED
      BY <1>3, <3>1, <3>2 DEF ReadTicker, PC, TypeOK
  <2> QED
    BY <1>1, <1>3, <2>1 DEF ReadTicker, TypeOK
<1>4. CASE ReadStatus
  <2>1. seen' \in Ticker /\ pc' \in PC
    <3>1. seen' \in Ticker
      BY <1>4, NothingType DEF ReadStatus, TypeOK
    <3>2. pc' \in {"lock_open", "lock_close", "idle"}
      BY <1>4, Zenon DEF ReadStatus, Decide
    <3> QED
      BY <3>1, <3>2 DEF PC, Opening, Closing
  <2> QED
    BY <1>1, <1>4, <2>1 DEF ReadStatus, TypeOK
<1>5. CASE AcquireLock
  <2>1. seen' \in Ticker /\ pc' \in PC /\ locked' \in BOOLEAN
    BY <1>5, NothingType DEF AcquireLock, Begin, PC, Opening, Closing, TypeOK
  <2> QED
    BY <1>1, <1>5, <2>1 DEF AcquireLock, TypeOK
<1>6. CASE Restart \/ BeginCycle
  BY <1>1, <1>6 DEF Restart, BeginCycle, PC, TypeOK
<1>7. CASE ReleaseLock
  <2>1. locked' \in BOOLEAN
    BY <1>7 DEF ReleaseLock, TypeOK
  <2> QED
    BY <1>1, <1>7, <2>1 DEF ReleaseLock, PC, TypeOK
<1>8. CASE Crash
  BY <1>1, <1>8, NothingType DEF Crash, PC, TypeOK
<1>9. CASE StartArb \/ StopArb \/ MarketMoves \/ DrainSpot \/ ExpireLock
  <2>1. /\ enabled' \in BOOLEAN /\ locked' \in BOOLEAN
        /\ funding' \in Funding /\ wide' \in BOOLEAN /\ thin' \in BOOLEAN
    BY <1>9, Zenon DEF StartArb, StopArb, MarketMoves, DrainSpot, ExpireLock, TypeOK
  <2> QED
    BY <1>1, <1>9, <2>1 DEF StartArb, StopArb, MarketMoves, DrainSpot, ExpireLock, TypeOK
<1>10. CASE UNCHANGED vars
  BY <1>1, <1>10 DEF vars, TypeOK
<1> QED
  BY <1>2, <1>3, <1>4, <1>5, <1>6, <1>7, <1>8, <1>9, <1>10 DEF Next, Cycle

(* Type correctness of FundingArb.tla: no leg is ever negative, for any lot, *)
(* retries and mishaps.                                                      *)
THEOREM TypeCorrect == Spec => []TypeOK
<1>1. Init => TypeOK
  <2>1. Init => enabled \in BOOLEAN /\ locked \in BOOLEAN /\ wide \in BOOLEAN /\ thin \in BOOLEAN
    BY Zenon DEF Init
  <2>2. Init => mishaps \in [Kinds -> 0 .. MaxMishaps]
    BY ConstantsAssumption DEF Init
  <2> QED
    BY <2>1, <2>2, NothingType DEF Init, TypeOK, PC
<1> QED
  BY <1>1, NextType, PTL DEF Spec

-----------------------------------------------------------------------------
(* The size of the short *)

(* Unless a query was blind or an answer lost, a cycle that has decided to   *)
(* open, and the short order after it, find no short.                        *)
LotInv ==
  mishaps["blind"] = 0 /\ mishaps["lost"] = 0 =>
    perp <= Lot /\ (pc \in {"lock_open", "short"} => perp = 0)

(* An order that was not lost is executed once or not at all: some n of it,  *)
(* the rest of it being counted, or nothing.                                 *)
LEMMA OrderOnce ==
  ASSUME TypeOK, NEW step \in Steps, NEW q \in Nat, NEW success, NEW failure,
         Order(step, q, success, failure), ~Happens("lost")
  PROVE  \/ \E n \in 0 .. q : /\ Filled(step, q, n) /\ pc' = success
                              /\ unfilled' = unfilled + (q - n)
                              /\ n # q => Happens("partial")
         \/ /\ UNCHANGED legs /\ pc' = failure /\ unfilled' = unfilled
            /\ (step = "sell" /\ spot < q) \/ Mishap(step)
<1> USE DEF Goto, Smooth, Mishap, fate, TypeOK
<1>1. CASE Filled(step, q, q) /\ Goto(success) /\ Smooth
  <2>1. q \in 0 .. q /\ unfilled' = unfilled + (q - q)
    BY <1>1
  <2> QED
    BY <1>1, <2>1
<1>2. ASSUME NEW n \in 0 .. q - 1, Filled(step, q, n), Goto(success), Happens("partial"),
             unfilled' = unfilled + (q - n)
      PROVE  \E m \in 0 .. q : /\ Filled(step, q, m) /\ pc' = success
                               /\ unfilled' = unfilled + (q - m)
                               /\ m # q => Happens("partial")
  <2>1. n \in 0 .. q
    OBVIOUS
  <2> QED
    BY <1>2, <2>1
<1> QED
  BY <1>1, <1>2 DEF Order

(* Whatever is refused or sold behind its back, the short never exceeds one  *)
(* lot as long as the position query and the answers of orders are intact.   *)
THEOREM AtMostOneLot == Spec => []OneLot
<1>1. Init => LotInv
  BY ConstantsAssumption DEF Init, LotInv
<1>2. TypeOK /\ LotInv /\ [Next]_vars => LotInv'
  <2> SUFFICES ASSUME TypeOK, LotInv, [Next]_vars, mishaps'["blind"] = 0, mishaps'["lost"] = 0
               PROVE  perp' <= Lot /\ (pc' \in {"lock_open", "short"} => perp' = 0)
    BY DEF LotInv
  <2>1. /\ mishaps["blind"] = 0 /\ mishaps["lost"] = 0
        /\ ~Happens("blind") /\ ~Happens("lost")
    BY MishapsGrow DEF Kinds
  <2>2. /\ perp \in Nat /\ size \in Nat /\ Lot \in Nat \ {0}
        /\ perp <= Lot /\ (pc \in {"lock_open", "short"} => perp = 0)
    BY <2>1, ConstantsAssumption DEF TypeOK, LotInv
  <2> USE DEF market, legs, local, fate, At, Goto, Mishap
  <2>3. CASE ShortPerp
    <3>1. pc' \in {"buy", "release"} /\ (perp' = perp \/ \E n \in 0 .. Lot : perp' = perp + n)
      BY <2>1, <2>2, <2>3, OrderOnce DEF ShortPerp, Steps, Filled
    <3> QED
      BY <2>2, <2>3, <3>1 DEF ShortPerp
  <2>4. CASE Rollback \/ CoverPerp
    <3>1. pc' \in {"sell", "release"}
      BY <2>1, <2>4 DEF Rollback, CoverPerp, Order
    <3>2. perp' = perp \/ \E n \in Nat : perp' = Reduced(perp, n)
      BY <2>1, <2>2, <2>4, OrderOnce DEF Rollback, CoverPerp, Steps, Filled
    <3> QED
      BY <2>2, <3>1, <3>2 DEF Reduced
  <2>5. CASE BuySpot \/ SellSpot
    <3>1. pc' \in {"rollback", "release"}
      BY <2>1, <2>5 DEF BuySpot, SellSpot, Order
    <3>2. perp' = perp
      BY <2>1, <2>2, <2>5, OrderOnce DEF BuySpot, SellSpot, Steps, Filled
    <3> QED
      BY <2>2, <3>1, <3>2
  <2>6. CASE ReadStatus
    <3>1. perp' = perp /\ (pc' = "lock_open" => ~(perp > 0)) /\ pc' # "short"
      BY <2>1, <2>6 DEF ReadStatus, Decide
    <3> QED
      BY <2>2, <3>1
  <2>7. CASE AcquireLock
    BY <2>2, <2>7 DEF AcquireLock, Begin
  <2>8. CASE QueryPerp \/ ReadTicker \/ ReleaseLock \/ Restart \/ BeginCycle \/ Crash
    BY <2>2, <2>8 DEF QueryPerp, ReadTicker, ReleaseLock, Restart, BeginCycle, Crash
  <2>9. CASE StartArb \/ StopArb \/ MarketMoves \/ DrainSpot \/ ExpireLock \/ UNCHANGED vars
    BY <2>2, <2>9 DEF StartArb, StopArb, MarketMoves, DrainSpot, ExpireLock, vars
  <2> QED
    BY <2>3, <2>4, <2>5, <2>6, <2>7, <2>8, <2>9 DEF Next, Cycle, Open, Close
<1>3. LotInv => OneLot
  BY DEF LotInv, OneLot
<1> QED
  BY <1>1, <1>2, <1>3, TypeCorrect, PTL DEF Spec

-----------------------------------------------------------------------------
(* The two legs *)

(* By how much the short is to exceed the spot leg at this point of a cycle: *)
(* open_position shorts before it buys, close_position covers before it      *)
(* sells, so a saga under way owes one lot or the quantity it will sell.     *)
Owed == IF pc \in {"buy", "rollback"} THEN Lot ELSE IF pc = "sell" THEN -size ELSE 0

(* The cover order is for the whole short: nothing moves the short between   *)
(* the query of close_position and its order.                                *)
SizeInv == pc = "cover" => size = perp

(* The short is at most what the saga accounts for and orders have left      *)
(* unfilled, or exactly what the saga accounts for.                          *)
Covered  == perp <= spot + Owed + unfilled
Balanced == perp = spot + Owed

(* The mishaps no saga undoes *)
Upsets == {"rollback", "lost", "crash", "drained"}

(* The size of the cover order is known in every reachable state. *)
LEMMA SizeStep == TypeOK /\ SizeInv /\ [Next]_vars => SizeInv'
<1> SUFFICES ASSUME SizeInv, [Next]_vars PROVE SizeInv'
  OBVIOUS
<1> USE DEF SizeInv, market, legs, local, At, Goto
<1>1. CASE QueryPerp
  BY <1>1 DEF QueryPerp
<1>2. CASE ShortPerp \/ BuySpot \/ Rollback \/ CoverPerp \/ SellSpot
  BY <1>2 DEF ShortPerp, BuySpot, Rollback, CoverPerp, SellSpot, Order
<1>3. CASE ReadTicker \/ ReadStatus \/ AcquireLock \/ ReleaseLock \/ Restart \/ BeginCycle
  BY <1>3 DEF ReadTicker, ReadStatus, Decide, AcquireLock, Begin, ReleaseLock, Restart,
              BeginCycle
<1>4. CASE StartArb \/ StopArb \/ MarketMoves \/ DrainSpot \/ ExpireLock \/ Crash \/ UNCHANGED vars
  BY <1>4 DEF StartArb, StopArb, MarketMoves, DrainSpot, ExpireLock, Crash, vars
<1> QED
  BY <1>1, <1>2, <1>3, <1>4 DEF Next, Cycle, Open, Close

(* As long as nothing upsets the sagas, no step lets the short outgrow what  *)
(* the saga accounts for and what is left unfilled; and unless the closing   *)
(* sale is refused or an order filled in part, an exact account stays exact. *)
LEMMA LegsStep ==
  ASSUME TypeOK, SizeInv, [Next]_vars, \A k \in Upsets : ~Happens(k)
  PROVE  /\ Covered => Covered'
         /\ Balanced /\ ~Happens("sell") /\ ~Happens("partial") => Balanced'
<1>1. /\ perp \in Nat /\ spot \in Nat /\ size \in Nat /\ Lot \in Nat \ {0} /\ unfilled \in Nat
      /\ perp' \in Nat /\ spot' \in Nat /\ size' \in Nat /\ unfilled' \in Nat
  BY NextType, ConstantsAssumption DEF TypeOK
<1>2. /\ ~Happens("lost") /\ ~Happens("rollback") /\ ~Happens("crash") /\ ~Happens("drained")
  BY DEF Upsets
<1> USE DEF Covered, Balanced, market, legs, local, fate, At, Goto, Smooth, Mishap
<1>3. CASE ShortPerp
  <2>1. pc = "short" /\ size' = size
    BY <1>3 DEF ShortPerp
  <2>2. \/ \E n \in 0 .. Lot : /\ perp' = perp + n /\ spot' = spot /\ pc' = "buy"
                               /\ unfilled' = unfilled + (Lot - n)
                               /\ n # Lot => Happens("partial")
        \/ perp' = perp /\ spot' = spot /\ pc' = "release" /\ unfilled' = unfilled
    BY <1>1, <1>2, <1>3, OrderOnce DEF ShortPerp, Steps, Filled
  <2>3. CASE perp' = perp /\ spot' = spot /\ pc' = "release" /\ unfilled' = unfilled
    BY <1>1, <2>1, <2>3 DEF Owed
  <2>4. ASSUME NEW n \in 0 .. Lot, perp' = perp + n, spot' = spot, pc' = "buy",
               unfilled' = unfilled + (Lot - n), n # Lot => Happens("partial")
        PROVE  /\ Covered => Covered'
               /\ Balanced /\ ~Happens("partial") => Balanced'
    <3>1. Owed = 0 /\ Owed' = Lot
      BY <2>1, <2>4 DEF Owed
    <3> QED
      BY <1>1, <2>4, <3>1
  <2> QED
    BY <2>2, <2>3, <2>4
<1>4. CASE BuySpot
  <2>1. pc = "buy" /\ size' = size
    BY <1>4 DEF BuySpot
  <2>2. \/ \E n \in 0 .. Lot : /\ perp' = perp /\ spot' = spot + n /\ pc' = "release"
                               /\ unfilled' = unfilled + (Lot - n)
                               /\ n # Lot => Happens("partial")
        \/ perp' = perp /\ spot' = spot /\ pc' = "rollback" /\ unfilled' = unfilled
    BY <1>1, <1>2, <1>4, OrderOnce DEF BuySpot, Steps, Filled
  <2>3. CASE perp' = perp /\ spot' = spot /\ pc' = "rollback" /\ unfilled' = unfilled
    BY <1>1, <2>1, <2>3 DEF Owed
  <2>4. ASSUME NEW n \in 0 .. Lot, perp' = perp, spot' = spot + n, pc' = "release",
               unfilled' = unfilled + (Lot - n), n # Lot => Happens("partial")
        PROVE  /\ Covered => Covered'
               /\ Balanced /\ ~Happens("partial") => Balanced'
    <3>1. Owed = Lot /\ Owed' = 0
      BY <2>1, <2>4 DEF Owed
    <3> QED
      BY <1>1, <2>4, <3>1
  <2> QED
    BY <2>2, <2>3, <2>4
<1>5. CASE Rollback
  <2>1. pc = "rollback" /\ size' = size
    BY <1>5 DEF Rollback
  <2>2. PICK n \in 0 .. Lot : /\ perp' = Reduced(perp, n) /\ spot' = spot /\ pc' = "release"
                              /\ unfilled' = unfilled + (Lot - n)
                              /\ n # Lot => Happens("partial")
    BY <1>1, <1>2, <1>5, OrderOnce DEF Rollback, Steps, Filled
  <2>3. Owed = Lot /\ Owed' = 0
    BY <2>1, <2>2 DEF Owed
  <2>4. perp' = IF perp < n THEN 0 ELSE perp - n
    BY <2>2 DEF Reduced
  <2>5. Covered => Covered'
    BY <1>1, <2>2, <2>3, <2>4
  <2>6. Balanced /\ ~Happens("sell") /\ ~Happens("partial") => Balanced'
    <3>1. SUFFICES ASSUME Balanced, ~Happens("partial") PROVE Balanced'
      OBVIOUS
    <3>2. n = Lot
      BY <2>2, <3>1
    <3> QED
      BY <1>1, <2>2, <2>3, <2>4, <3>1, <3>2
  <2> QED
    BY <2>5, <2>6
<1>6. CASE QueryPerp
  <2>1. /\ pc = "query" /\ pc' \in {"cover", "release"}
        /\ perp' = perp /\ spot' = spot /\ unfilled' = unfilled
    BY <1>6 DEF QueryPerp
  <2>2. Owed = 0 /\ Owed' = 0
    BY <2>1 DEF Owed
  <2> QED
    BY <1>1, <2>1, <2>2
<1>7. CASE CoverPerp
  <2>1. pc = "cover" /\ size' = size /\ size = perp
    BY <1>7 DEF CoverPerp, SizeInv
  <2>2. \/ \E n \in 0 .. size : /\ perp' = Reduced(perp, n) /\ spot' = spot /\ pc' = "sell"
                                /\ unfilled' = unfilled + (size - n)
                                /\ n # size => Happens("partial")
        \/ perp' = perp /\ spot' = spot /\ pc' = "release" /\ unfilled' = unfilled
    BY <1>1, <1>2, <1>7, OrderOnce DEF CoverPerp, Steps, Filled
  <2>3. CASE perp' = perp /\ spot' = spot /\ pc' = "release" /\ unfilled' = unfilled
    BY <1>1, <2>1, <2>3 DEF Owed
  <2>4. ASSUME NEW n \in 0 .. size, perp' = Reduced(perp, n), spot' = spot, pc' = "sell",
               unfilled' = unfilled + (size - n), n # size => Happens("partial")
        PROVE  /\ Covered => Covered'
               /\ Balanced /\ ~Happens("partial") => Balanced'
    <3>1. Owed = 0 /\ Owed' = -size
      BY <2>1, <2>4 DEF Owed
    <3>2. perp' = perp - n
      BY <1>1, <2>1, <2>4 DEF Reduced
    <3> QED
      BY <1>1, <2>1, <2>4, <3>1, <3>2
  <2> QED
    BY <2>2, <2>3, <2>4
<1>8. CASE SellSpot
  <2>1. pc = "sell" /\ size' = size
    BY <1>8 DEF SellSpot
  <2>2. \/ \E n \in 0 .. size : /\ perp' = perp /\ spot' = spot - n /\ pc' = "release"
                                /\ unfilled' = unfilled + (size - n)
                                /\ n # size => Happens("partial")
        \/ /\ perp' = perp /\ spot' = spot /\ pc' = "release" /\ unfilled' = unfilled
           /\ spot < size \/ Happens("sell")
    BY <1>1, <1>2, <1>8, OrderOnce DEF SellSpot, Steps, Filled
  <2>3. Owed = -size /\ Owed' = 0
    BY <2>1, <2>2 DEF Owed
  <2>4. Covered => Covered'
    <3>1. CASE perp' = perp /\ spot' = spot /\ unfilled' = unfilled
      BY <1>1, <2>3, <3>1
    <3>2. ASSUME NEW n \in 0 .. size, perp' = perp, spot' = spot - n,
                 unfilled' = unfilled + (size - n)
          PROVE  Covered => Covered'
      BY <1>1, <2>3, <3>2
    <3> QED
      BY <2>2, <3>1, <3>2
  <2>5. Balanced /\ ~Happens("sell") /\ ~Happens("partial") => Balanced'
    <3>1. SUFFICES ASSUME Balanced, ~Happens("sell"), ~Happens("partial") PROVE Balanced'
      OBVIOUS
    <3>2. ~(spot < size)
      BY <1>1, <2>3, <3>1
    <3>3. perp' = perp /\ spot' = spot - size
      BY <2>2, <3>1, <3>2
    <3> QED
      BY <1>1, <2>3, <3>1, <3>3
  <2> QED
    BY <2>4, <2>5
<1>9. CASE ReadTicker \/ ReadStatus \/ AcquireLock \/ ReleaseLock \/ Restart \/ BeginCycle
  <2>1. /\ pc \notin {"buy", "rollback", "sell"} /\ pc' \notin {"buy", "rollback", "sell"}
        /\ perp' = perp /\ spot' = spot /\ unfilled' = unfilled
    BY <1>9 DEF ReadTicker, ReadStatus, Decide, AcquireLock, Begin, ReleaseLock, Restart,
                BeginCycle
  <2>2. Owed = 0 /\ Owed' = 0
    BY <2>1 DEF Owed
  <2> QED
    BY <1>1, <2>1, <2>2
<1>10. CASE StartArb \/ StopArb \/ MarketMoves \/ ExpireLock \/ UNCHANGED vars
  <2>1. UNCHANGED <<perp, spot, pc, size, unfilled>>
    BY <1>10 DEF StartArb, StopArb, MarketMoves, ExpireLock, vars
  <2>2. Owed' = Owed
    BY <2>1 DEF Owed
  <2> QED
    BY <2>1, <2>2
<1>11. CASE DrainSpot \/ Crash
  BY <1>2, <1>11 DEF DrainSpot, Crash
<1> QED
  BY <1>3, <1>4, <1>5, <1>6, <1>7, <1>8, <1>9, <1>10, <1>11 DEF Next, Cycle, Open, Close

(* What Only says of the history after a step, it says of the step. *)
LEMMA OnlyStep ==
  ASSUME TypeOK, [Next]_vars, NEW kinds, Only(kinds)'
  PROVE  Only(kinds) /\ \A k \in Kinds \ kinds : ~Happens(k)
  BY MishapsGrow DEF Only

(* The short is accounted for at every point of every cycle. *)
LegsInv ==
  /\ SizeInv
  /\ Only((Steps \ {"rollback"}) \cup {"partial", "blind", "market", "redis"}) => Covered
  /\ Only({"short", "buy", "cover", "blind", "market", "redis"}) => Balanced

(* LegsInv holds in every reachable state. *)
LEMMA LegsKnown == Spec => [](TypeOK /\ LegsInv)
<1>1. Init => LegsInv
  BY DEF Init, LegsInv, SizeInv, Covered, Balanced, Owed
<1>2. TypeOK /\ LegsInv /\ [Next]_vars => LegsInv'
  <2> SUFFICES ASSUME TypeOK, LegsInv, [Next]_vars PROVE LegsInv'
    OBVIOUS
  <2> DEFINE some == (Steps \ {"rollback"}) \cup {"partial", "blind", "market", "redis"}
             few  == {"short", "buy", "cover", "blind", "market", "redis"}
  <2>1. SizeInv'
    BY SizeStep DEF LegsInv
  <2>2. /\ Upsets \subseteq Kinds \ some /\ Upsets \subseteq Kinds \ few
        /\ {"sell", "partial"} \subseteq Kinds \ few
    BY DEF Upsets, Kinds, Steps
  <2>3. /\ Only(some)' => Only(some) /\ \A k \in Kinds \ some : ~Happens(k)
        /\ Only(few)'  => Only(few)  /\ \A k \in Kinds \ few  : ~Happens(k)
    BY OnlyStep
  <2>4. (Only(some) => Covered) /\ (Only(few) => Balanced) /\ SizeInv
    BY DEF LegsInv
  <2> HIDE DEF some, few
  <2>5. Only(some)' => Covered'
    BY <2>2, <2>3, <2>4, LegsStep
  <2>6. Only(few)' => Balanced'
    BY <2>2, <2>3, <2>4, LegsStep
  <2> QED
    BY <2>1, <2>5, <2>6 DEF LegsInv, some, few
<1> QED
  BY <1>1, <1>2, TypeCorrect, PTL DEF Spec

(* "If one side fills and the other fails, roll back", for an opening: as    *)
(* long as only shorts, buys and covers are refused and queries fail, and    *)
(* what is accepted is filled, the legs are equal between two cycles.        *)
THEOREM OpeningUndone == Spec => []OpenUndone
<1>1. TypeOK /\ LegsInv => OpenUndone
  BY DEF TypeOK, LegsInv, OpenUndone, Balanced, Owed, At
<1> QED
  BY <1>1, LegsKnown, PTL

(* Between two cycles the short exceeds the spot leg at most by what accepted *)
(* orders have left unfilled, as long as no rollback is refused, no answer    *)
(* lost, the process does not die and the executor does not sell the leg.     *)
THEOREM ShortIsCovered == Spec => []NoNakedShort
<1>1. TypeOK /\ LegsInv => NoNakedShort
  BY DEF TypeOK, LegsInv, NoNakedShort, Covered, Owed, At
<1> QED
  BY <1>1, LegsKnown, PTL

=============================================================================
