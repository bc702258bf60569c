----------------------------- MODULE FundingArb -----------------------------
(***************************************************************************)
(* The funding-rate arbitrage of one symbol: a loop that opens a pair of   *)
(* legs, a perpetual short and an equal spot holding, while the funding    *)
(* rate pays for it, and closes both when it no longer does                *)
(* (services/run_funding_arb.py, services/funding_arb_executor.py,         *)
(* strategies/funding_arb_strategy.py).                                    *)
(*                                                                         *)
(* The two legs are two orders, so opening and closing are sagas that may  *)
(* stop half way.  One action is the code between two awaits.              *)
(***************************************************************************)
EXTENDS Integers, Functions

CONSTANTS
  Lot,          \* quantity of _calc_qty: max_notional_usd at the current price
  MaxAttempts,  \* stop_after_attempt of BybitClient._call
  MaxMishaps    \* bound on failures of all kinds

ASSUME ConstantsAssumption ==
  /\ Lot \in Nat \ {0}
  /\ MaxAttempts \in Nat \ {0}
  /\ MaxMishaps \in Nat

Funding == {"high", "middle", "low"}   \* at or above entry, between, below exit threshold

(* What can go wrong: the order of a step is refused; an accepted order is    *)
(* filled in part or not at all; the answer of an order is lost; the         *)
(* position query ("blind") or a price, ticker or wallet query comes back    *)
(* empty; a Redis call raises; the process dies; the executor sells the spot *)
(* leg, of which it does not know.                                           *)
Steps == {"short", "buy", "rollback", "cover", "sell"}
Kinds == Steps \cup {"partial", "lost", "blind", "market", "redis", "crash", "drained"}

VARIABLES
  enabled,    \* trading:funding_arb:<symbol>
  locked,     \* lock:funding_arb:<symbol>
  funding,    \* where the funding rate stands
  wide,       \* basis beyond max_basis_divergence_pct
  thin,       \* margin below margin_safety_ratio
  perp,       \* size of the short
  spot,       \* base currency held for the arbitrage
  pc,
  seen,       \* the ticker and spot price of the cycle, read before the status
  size,       \* close_position: perp_size, the quantity of both closing orders
  mishaps,    \* history: how often each kind has happened
  unfilled    \* history: what orders reported as a success have left unfilled

market == <<funding, wide, thin>>
legs   == <<perp, spot>>
local  == <<pc, seen, size>>
fate   == <<mishaps, unfilled>>
vars   == <<enabled, locked, market, legs, local, fate>>

Opening == {"lock_open", "short", "buy", "rollback"}
Closing == {"lock_close", "query", "cover", "sell"}
PC      == {"down", "idle", "ticker", "status", "release"} \cup Opening \cup Closing

Ticker  == [funding : Funding, wide : BOOLEAN, priced : BOOLEAN]
Nothing == [funding |-> "middle", wide |-> FALSE, priced |-> FALSE]

Total(f) == SumFunction(f)

TypeOK ==
  /\ enabled \in BOOLEAN /\ locked \in BOOLEAN
  /\ funding \in Funding /\ wide \in BOOLEAN /\ thin \in BOOLEAN
  /\ perp \in Nat /\ spot \in Nat
  /\ pc \in PC
  /\ seen \in Ticker
  /\ size \in Nat
  /\ mishaps \in [Kinds -> 0 .. MaxMishaps]
  /\ unfilled \in Nat

-----------------------------------------------------------------------------
(* Definitions named ...Bug are the definition that follows them with one    *)
(* plausible mistake; no other definition uses them.                         *)

Smooth     == UNCHANGED fate
Happens(k) == /\ Total(mishaps) < MaxMishaps
              /\ mishaps' = [mishaps EXCEPT ![k] = @ + 1]
Mishap(k)  == Happens(k) /\ UNCHANGED unfilled

At(from) == pc = from
Goto(to) == pc' = to

ReducedBug(n, q) == n - q                         \* without reduceOnly
Reduced(n, q)    == IF n < q THEN 0 ELSE n - q

(* What the legs become when n of an order for q is filled.  A reduceOnly buy *)
(* stops at zero; a spot sale beyond the balance is refused.                 *)
Filled(step, q, n) ==
  \/ step = "short" /\ perp' = perp + n /\ UNCHANGED spot
  \/ step = "buy" /\ spot' = spot + n /\ UNCHANGED perp
  \/ step \in {"rollback", "cover"} /\ perp' = Reduced(perp, n) /\ UNCHANGED spot
  \/ step = "sell" /\ q <= spot /\ n <= spot /\ spot' = spot - n /\ UNCHANGED perp

(* place_order and place_linear_order: an accepted order is a success however *)
(* little of it is filled, and nobody looks at filled_qty but the message; an *)
(* order may be refused; and the retrying _call sends it again after lost     *)
(* answers, each of which may have been executed, until it is answered or     *)
(* given up.                                                                  *)
Order(step, q, success, failure) ==
  \/ Filled(step, q, q) /\ Goto(success) /\ Smooth
  \/ \E n \in 0 .. q - 1 : /\ Filled(step, q, n)
                           /\ Goto(success)
                           /\ Happens("partial")
                           /\ unfilled' = unfilled + (q - n)
  \/ step = "sell" /\ spot < q /\ UNCHANGED legs /\ Goto(failure) /\ Smooth
  \/ UNCHANGED legs /\ Goto(failure) /\ Mishap(step)
  \/ /\ \/ \E n \in 0 .. MaxAttempts * q, to \in {success, failure} :
             Filled(step, q, n) /\ Goto(to)
        \/ UNCHANGED legs /\ Goto(failure)
     /\ Mishap("lost")

Init ==
  /\ enabled = FALSE /\ locked = FALSE
  /\ funding \in Funding /\ wide = FALSE /\ thin = FALSE
  /\ perp = 0 /\ spot = 0
  /\ pc = "idle" /\ seen = Nothing /\ size = 0
  /\ mishaps = [k \in Kinds |-> 0] /\ unfilled = 0

-----------------------------------------------------------------------------
(* The API and the market *)

StartArb ==
  /\ enabled' = TRUE
  /\ UNCHANGED <<locked, market, legs, local, fate>>

(* Stopping leaves an open pair as it is. *)
StopArb ==
  /\ enabled' = FALSE
  /\ UNCHANGED <<locked, market, legs, local, fate>>

MarketMoves ==
  /\ funding' \in Funding
  /\ wide' \in BOOLEAN
  /\ thin' \in BOOLEAN
  /\ UNCHANGED <<enabled, locked, legs, local, fate>>

(* execute_sell of the signal path sells the whole base balance. *)
DrainSpot ==
  /\ spot > 0
  /\ spot' = 0
  /\ Mishap("drained")
  /\ UNCHANGED <<enabled, locked, market, perp, local>>

ExpireLockBug == FALSE /\ UNCHANGED vars          \* SET NX without EX

(* _LOCK_TTL runs out, perhaps while the owner still retries an order. *)
ExpireLock ==
  /\ locked
  /\ locked' = FALSE
  /\ UNCHANGED <<enabled, market, legs, local, fate>>

-----------------------------------------------------------------------------
(* _cycle *)

Crash ==
  /\ ~At("down")
  /\ Goto("down")
  /\ seen' = Nothing /\ size' = 0
  /\ Mishap("crash")
  /\ UNCHANGED <<enabled, locked, market, legs>>

(* The process keeps nothing between cycles. *)
Restart ==
  /\ At("down")
  /\ Goto("idle")
  /\ UNCHANGED <<enabled, locked, market, legs, seen, size, fate>>

BeginCycle ==
  /\ At("idle")
  /\ enabled
  /\ Goto("ticker")
  /\ UNCHANGED <<enabled, locked, market, legs, seen, size, fate>>

(* No ticker, no cycle; a spot price that could not be read is 0, which makes *)
(* the basis 0.                                                              *)
ReadTicker ==
  /\ At("ticker")
  /\ \/ Goto("status") /\ seen' = [funding |-> funding, wide |-> wide, priced |-> TRUE] /\ Smooth
     \/ /\ seen' = [Nothing EXCEPT !.funding = funding]
        /\ Goto("status")
        /\ Mishap("market")
     \/ Goto("idle") /\ UNCHANGED seen /\ Mishap("market")
  /\ UNCHANGED <<enabled, locked, market, legs, size>>

DecideBug(inPosition, low) ==                     \* opens without asking for in_position
  IF seen.funding = "high" /\ ~seen.wide /\ ~low THEN "lock_open"
  ELSE IF inPosition /\ (seen.wide \/ low \/ seen.funding = "low") THEN "lock_close" ELSE "idle"

(* decide(): danger closes an open pair but does not keep one from opening *)
Decide(inPosition, low) ==
  IF inPosition
  THEN IF seen.wide \/ low \/ seen.funding = "low" THEN "lock_close" ELSE "idle"
  ELSE IF seen.funding = "high" THEN "lock_open" ELSE "idle"

(* get_arb_status and decide.  A pair is open if the perpetual position is   *)
(* not empty; a position query that failed reads as empty, and a wallet that *)
(* could not be read as no danger.  The spot leg is not looked at.           *)
ReadStatus ==
  /\ At("status")
  /\ \/ Goto(Decide(perp > 0, thin)) /\ Smooth
     \/ Goto(Decide(perp > 0, FALSE)) /\ Mishap("market")
     \/ Goto(Decide(FALSE, thin)) /\ Mishap("blind")
  /\ seen' = IF pc' = "lock_open" THEN seen ELSE Nothing
  /\ UNCHANGED <<enabled, locked, market, legs, size>>

(* What follows acquire_lock: _calc_qty knows no quantity without a price. *)
Begin ==
  IF At("lock_close") THEN "query" ELSE IF seen.priced THEN "short" ELSE "release"

(* acquire_lock; a key left by a crash ends the cycle *)
AcquireLock ==
  /\ At("lock_open") \/ At("lock_close")
  /\ \/ locked' = TRUE /\ Goto(IF locked THEN "idle" ELSE Begin) /\ Smooth
     \/ locked' \in {locked, TRUE} /\ Goto("idle") /\ Mishap("redis")
  /\ seen' = Nothing
  /\ UNCHANGED <<enabled, market, legs, size>>

-----------------------------------------------------------------------------
(* open_position: set_leverage's result is ignored, the short comes first *)

ShortPerp ==
  /\ At("short")
  /\ Order("short", Lot, "buy", "release")
  /\ UNCHANGED <<enabled, locked, market, seen, size>>

BuySpotBug ==                                     \* a failed buy is reported, not rolled back
  /\ At("buy")
  /\ Order("buy", Lot, "release", "release")
  /\ UNCHANGED <<enabled, locked, market, seen, size>>

BuySpot ==
  /\ At("buy")
  /\ Order("buy", Lot, "release", "rollback")
  /\ UNCHANGED <<enabled, locked, market, seen, size>>

(* The result of the rollback is only reported. *)
Rollback ==
  /\ At("rollback")
  /\ Order("rollback", Lot, "release", "release")
  /\ UNCHANGED <<enabled, locked, market, seen, size>>

-----------------------------------------------------------------------------
(* close_position *)

(* perp_size is queried again; nothing to cover ends the close. *)
QueryPerp ==
  /\ At("query")
  /\ \/ size' = perp /\ Goto(IF perp > 0 THEN "cover" ELSE "release") /\ Smooth
     \/ size' = 0 /\ Goto("release") /\ Mishap("blind")
  /\ UNCHANGED <<enabled, locked, market, legs, seen>>

CoverPerpBug ==                                   \* goes on to the sale whatever the cover did
  /\ At("cover")
  /\ Order("cover", size, "sell", "sell")
  /\ UNCHANGED <<enabled, locked, market, seen, size>>

CoverPerp ==
  /\ At("cover")
  /\ Order("cover", size, "sell", "release")
  /\ UNCHANGED <<enabled, locked, market, seen, size>>

(* A refused sale leaves the spot leg: "check by hand". *)
SellSpot ==
  /\ At("sell")
  /\ Order("sell", size, "release", "release")
  /\ UNCHANGED <<enabled, locked, market, seen, size>>

(* finally: release_lock *)
ReleaseLock ==
  /\ At("release")
  /\ \/ locked' = FALSE /\ Smooth
     \/ UNCHANGED locked /\ Mishap("redis")
  /\ Goto("idle")
  /\ size' = 0
  /\ UNCHANGED <<enabled, market, legs, seen>>

-----------------------------------------------------------------------------
Open  == ShortPerp \/ BuySpot \/ Rollback
Close == QueryPerp \/ CoverPerp \/ SellSpot
Cycle == Restart \/ BeginCycle \/ ReadTicker \/ ReadStatus \/ AcquireLock \/ Open \/ Close
         \/ ReleaseLock

Next == Cycle \/ StartArb \/ StopArb \/ MarketMoves \/ DrainSpot \/ ExpireLock \/ Crash

(* The loop goes on every loop_seconds, docker restarts it, Redis expires   *)
(* the key.                                                                 *)
Spec     == Init /\ [][Next]_vars
FairSpec == Spec /\ WF_vars(Cycle) /\ WF_vars(ExpireLock)

-----------------------------------------------------------------------------
(* Properties *)

Only(kinds) == \A k \in Kinds \ kinds : mishaps[k] = 0

(* "If one side fills and the other fails, roll back", for an opening: as    *)
(* long as only shorts, buys and covers are refused and queries fail, and    *)
(* what is accepted is filled, the legs are equal between two cycles.        *)
OpenUndone == At("idle") /\ Only({"short", "buy", "cover", "blind", "market", "redis"})
                => perp = spot

(* How much of the short may stand without its spot leg: with refused orders *)
(* (other than of the rollback), partial fills and failed queries in any     *)
(* number and order, the short exceeds the spot leg at most by what accepted *)
(* orders have left unfilled, and if they were all filled not at all.        *)
NoNakedShort ==
  At("idle") /\ Only((Steps \ {"rollback"}) \cup {"partial", "blind", "market", "redis"})
    => perp <= spot + unfilled

(* max_notional_usd bounds the short: with the position query and the        *)
(* answers of orders intact there is never more than one lot of it, whatever *)
(* is refused, partly filled or sold behind its back, in whatever order      *)
(* cycles, crashes and API calls come.                                       *)
OneLot == mishaps["blind"] = 0 /\ mishaps["lost"] = 0 => perp <= Lot

(* While the arbitrage stays enabled and one reason to close lasts (a reason *)
(* that comes and goes may be missed), the short is closed again and again,  *)
(* past crashes, leaked locks, refused and unfilled orders and a spot leg    *)
(* that is gone.                                                             *)
EventuallyClosed ==
  \/ <>[](enabled /\ wide)
  \/ <>[](enabled /\ thin)
  \/ <>[](enabled /\ funding = "low")
  => []<>(perp = 0)

(* The same promise of the module's header for closing as well: refused      *)
(* orders alone leave both legs or none.  A refused sale breaks it.          *)
BothLegsOrNone == At("idle") /\ Only(Steps \ {"rollback"}) => perp = spot

=============================================================================
