-------------------------- MODULE StrategyConsumer --------------------------
(***************************************************************************)
(* The strategy process of one symbol (services/run_strategy_consumer.py   *)
(* and the decide() methods of the signal engines): it pops ticks, applies *)
(* strategy changes the API asks for, decides, and pushes buy and sell     *)
(* signals for the executor.                                               *)
(*                                                                         *)
(* One action is the code between two awaits.  A price is a small integer; *)
(* the indicators of a tick are summed up in a view: they call for an      *)
(* entry, for an exit, or for neither.                                     *)
(***************************************************************************)
EXTENDS Integers, FiniteSetsExt

CONSTANTS
  Strategies,   \* names the API accepts
  Prices,       \* closing prices
  Trail,        \* atr * trailing_stop_atr_mult
  Initial,      \* atr * initial_stop_atr_mult, or stop_atr_mult
  Cooldown,     \* cooldown_bars of each strategy
  MaxTicks,     \* _QUEUE_MAX_LEN of the tick queue
  MaxFaults,    \* bound on crashes and failed calls
  Unset         \* the key is absent

Adaptive == {"regime_trend", "mean_reversion"}   \* values of REGIME_STRATEGY_MAP
Default  == "regime_trend"                       \* _DEFAULT_STRATEGY
NoStop   == 0        \* trailing_stop = None: `trailing_stop or candidate` makes 0.0 the same

ASSUME ConstantsAssumption ==
  /\ IsFiniteSet(Strategies) /\ Adaptive \subseteq Strategies /\ Unset \notin Strategies
  /\ Trail \in Nat \ {0} /\ Initial \in Nat \ {0}
  /\ Prices \subseteq {c \in Nat : c > Trail /\ c > Initial}
  /\ Cooldown \in [Strategies -> Nat]
  /\ MaxTicks \in Nat \ {0}
  /\ MaxFaults \in Nat

VARIABLES
  \* Redis
  enabled,    \* trading:enabled:<symbol> is set
  auto,       \* config:auto_switch:<symbol> is set
  active,     \* config:strategy:<symbol>
  ticks,      \* length of queue:ticks:<symbol>
  newest,     \* side of the signal pushed last, "none" since the process started
  \* candle store
  close,      \* close of the latest candle
  \* the process
  pc, strategy, inPos, stop, bars,
  verdict,    \* decision.signal of the tick in hand
  seen,       \* decision.close_price of the tick in hand
  isOn,       \* `enabled` as read for the tick in hand
  \* history
  wasOn,      \* trading was enabled at some moment since the tick was popped
  faults      \* disturbances so far

keys    == <<enabled, auto, active>>
engine  == <<strategy, stop>>
tick    == <<verdict, seen, isOn>>
vars    == <<keys, ticks, newest, close, pc, engine, inPos, bars, tick, wasOn,
             faults>>

PC == {"down", "pop", "change", "change_idle", "decide", "enabled", "switch", "sync",
       "publish", "write"}

LongestCooldown == Max({Cooldown[s] : s \in Strategies})

TypeOK ==
  /\ enabled \in BOOLEAN /\ auto \in BOOLEAN
  /\ active \in Strategies \cup {Unset}
  /\ ticks \in 0 .. MaxTicks
  /\ newest \in {"none", "buy", "sell"}
  /\ close \in Prices
  /\ pc \in PC
  /\ strategy \in Strategies
  /\ inPos \in BOOLEAN
  /\ stop \in Nat
  /\ bars \in 0 .. LongestCooldown
  /\ verdict \in {"hold", "buy", "sell"}
  /\ seen \in Prices \cup {0}
  /\ isOn \in BOOLEAN
  /\ wasOn \in BOOLEAN
  /\ faults \in 0 .. MaxFaults

-----------------------------------------------------------------------------
(* The engines.  Definitions named ...Bug are the definition that follows  *)
(* them with one plausible mistake; no other definition uses them.         *)

Larger(a, b)  == IF a < b THEN b ELSE a
Capped(n)     == IF n < LongestCooldown THEN n ELSE LongestCooldown

NextStopBug(s, c, st) ==                 \* follows the price down as well
  IF s = "mean_reversion" THEN st ELSE c - Trail

(* The stop of a held position: fixed at entry by mean_reversion, trailing  *)
(* the close in the other engines, and then never below where it was.      *)
NextStop(s, c, st) == IF s = "mean_reversion" THEN st ELSE Larger(st, c - Trail)

ExitBug(s, c, st, view) == view = "exit" /\ s # "breakout_volume"

(* Stop hit, or the indicators say so: breakout_volume asks only its stop. *)
Exit(s, c, st, view) ==
  \/ NextStop(s, c, st) # NoStop /\ c <= NextStop(s, c, st)
  \/ view = "exit" /\ s # "breakout_volume"

Entry(s, b, view)    == view = "entry" /\ b >= Cooldown[s]

(* decide(): the signal and the stop that goes with it *)
Decide(view) ==
  IF inPos
  THEN /\ verdict' = IF Exit(strategy, close, stop, view) THEN "sell" ELSE "hold"
       /\ stop' = NextStop(strategy, close, stop)
  ELSE /\ verdict' = IF Entry(strategy, bars, view) THEN "buy" ELSE "hold"
       /\ stop' = IF Entry(strategy, bars, view) THEN close - Initial ELSE stop

-----------------------------------------------------------------------------
Smooth == UNCHANGED faults
Fault  == /\ faults < MaxFaults
          /\ faults' = faults + 1

At(from) == pc = from
Goto(to) == pc' = to

ClearTick == verdict' = "hold" /\ seen' = 0 /\ isOn' = FALSE

(* `except Exception` in run(): the rest of the tick is skipped. *)
Abandon == Goto("pop") /\ ClearTick /\ Fault

Init ==
  /\ enabled = FALSE /\ auto = FALSE /\ active = Unset
  /\ ticks = 0 /\ newest = "none"
  /\ close \in Prices
  /\ pc = "down" /\ strategy = Default /\ inPos = FALSE /\ stop = NoStop /\ bars = 0
  /\ verdict = "hold" /\ seen = 0 /\ isOn = FALSE
  /\ wasOn = FALSE
  /\ faults = 0

-----------------------------------------------------------------------------
(* The API: start_trading, stop_trading, toggle_auto_switch, change_strategy *)

StartTrading ==
  /\ enabled' = TRUE
  /\ wasOn' = TRUE
  /\ UNCHANGED <<auto, active, ticks, newest, close, pc, engine, inPos, bars, tick, faults>>

StopTrading ==
  /\ enabled' = FALSE
  /\ UNCHANGED <<auto, active, ticks, newest, close, pc, engine, inPos, bars, tick, wasOn, faults>>

ToggleAutoSwitch ==
  /\ auto' = ~auto
  /\ UNCHANGED <<enabled, active, ticks, newest, close, pc, engine, inPos, bars, tick, wasOn, faults>>

ChangeStrategy(s) ==
  /\ active' = s
  /\ UNCHANGED <<enabled, auto, ticks, newest, close, pc, engine, inPos, bars, tick, wasOn, faults>>

-----------------------------------------------------------------------------
(* The collector: it refreshes the latest candle or begins a new one, and at *)
(* the end of a cycle, whatever the candles did, pushes a tick.              *)

StoreCandle(c) ==
  /\ close' = c
  /\ UNCHANGED <<keys, ticks, newest, pc, engine, inPos, bars, tick, wasOn, faults>>

PushTickBug ==                           \* no LTRIM
  /\ ticks' = ticks + 1
  /\ UNCHANGED <<keys, newest, close, pc, engine, inPos, bars, tick, wasOn, faults>>

PushTick ==
  /\ ticks' = IF ticks < MaxTicks THEN ticks + 1 ELSE ticks
  /\ UNCHANGED <<keys, newest, close, pc, engine, inPos, bars, tick, wasOn, faults>>

-----------------------------------------------------------------------------
(* The process *)

Crash ==
  /\ ~At("down")
  /\ Goto("down")
  /\ stop' = NoStop /\ inPos' = FALSE /\ bars' = 0 /\ newest' = "none"
  /\ ClearTick
  /\ Fault
  /\ UNCHANGED <<keys, ticks, close, strategy, wasOn>>

(* main(), __init__ and _restore_state: in_position is what the positions    *)
(* table says, or FALSE if it cannot be read; a stop is not restored.        *)
Restart ==
  /\ At("down")
  /\ Goto("pop")
  /\ strategy' = IF active = Unset THEN Default ELSE active
  /\ inPos' \in BOOLEAN
  /\ bars' = Cooldown[strategy']
  /\ UNCHANGED <<keys, ticks, newest, close, stop, tick, wasOn, faults>>

(* queue_pop: the answer may be lost, and with it the tick. *)
PopTick ==
  /\ At("pop")
  /\ \/ ticks > 0 /\ ticks' = ticks - 1 /\ Goto("change") /\ Smooth
     \/ ticks = 0 /\ UNCHANGED ticks /\ Goto("change_idle") /\ Smooth
     \/ ticks > 0 /\ ticks' = ticks - 1 /\ UNCHANGED pc /\ Fault
  /\ wasOn' = enabled
  /\ UNCHANGED <<keys, newest, close, engine, inPos, bars, tick>>

CheckStrategyChangeBug ==                \* only when there is a tick to process
  /\ At("change") \/ At("change_idle")
  /\ IF At("change") /\ active \notin {Unset, strategy}
     THEN strategy' = active /\ stop' = NoStop
     ELSE UNCHANGED engine
  /\ Goto(IF At("change") THEN "decide" ELSE "pop")
  /\ UNCHANGED <<keys, ticks, newest, close, inPos, bars, tick, wasOn, faults>>

(* _check_strategy_change: the position is kept, the stop is reset *)
CheckStrategyChange ==
  /\ At("change") \/ At("change_idle")
  /\ \/ /\ IF active \notin {Unset, strategy}
           THEN strategy' = active /\ stop' = NoStop
           ELSE UNCHANGED engine
        /\ Goto(IF At("change") THEN "decide" ELSE "pop")
        /\ UNCHANGED tick
        /\ Smooth
     \/ Abandon /\ UNCHANGED engine
  /\ UNCHANGED <<keys, ticks, newest, close, inPos, bars, wasOn>>

(* _process_tick down to the first await that matters: too few candles end   *)
(* the tick; otherwise the engine decides on the latest close.               *)
DecideTick ==
  /\ At("decide")
  /\ \/ /\ \E view \in {"entry", "exit", "neither"} : Decide(view)
        /\ seen' = close
        /\ bars' = Capped(bars + 1)
        /\ Goto("enabled")
        /\ UNCHANGED isOn
        /\ Smooth
     \/ Goto("pop") /\ Smooth /\ UNCHANGED <<stop, bars, tick>>
     \/ Abandon /\ UNCHANGED <<stop, bars>>
  /\ UNCHANGED <<keys, ticks, newest, close, strategy, inPos, wasOn>>

ReadEnabledBug ==                        \* the flag is not asked for
  /\ At("enabled")
  /\ isOn' = TRUE
  /\ Goto("switch")
  /\ UNCHANGED <<keys, ticks, newest, close, engine, inPos, bars, verdict, seen, wasOn, faults>>

ReadEnabled ==
  /\ At("enabled")
  /\ \/ /\ isOn' = enabled
        /\ Goto("switch")
        /\ UNCHANGED <<verdict, seen>>
        /\ Smooth
     \/ Abandon
  /\ UNCHANGED <<keys, ticks, newest, close, engine, inPos, bars, wasOn>>

(* _maybe_auto_switch, when flat: the regime may suggest another strategy.   *)
(* The decision already taken for this tick stands.                          *)
AutoSwitch ==
  /\ At("switch")
  /\ \/ Goto("publish") /\ UNCHANGED <<engine, tick>> /\ Smooth
     \/ /\ ~inPos /\ auto
        /\ \E suggested \in Adaptive \ {strategy} : strategy' = suggested
        /\ stop' = NoStop
        /\ Goto("sync")
        /\ UNCHANGED tick
        /\ Smooth
     \/ ~inPos /\ Abandon /\ UNCHANGED engine
  /\ UNCHANGED <<keys, ticks, newest, close, inPos, bars, wasOn>>

(* ... and is written back for the API, over whatever the API asked for.     *)
SyncActive ==
  /\ At("sync")
  /\ \/ active' = strategy /\ Goto("publish") /\ UNCHANGED tick /\ Smooth
     \/ active' \in {active, strategy} /\ Abandon
  /\ UNCHANGED <<enabled, auto, ticks, newest, close, engine, inPos, bars, wasOn>>

Due == /\ isOn
       /\ \/ verdict = "buy" /\ ~inPos
          \/ verdict = "sell" /\ inPos

PublishBug ==                            \* in_position follows the decision, enabled or not
  /\ At("publish")
  /\ inPos' = IF verdict = "hold" THEN inPos ELSE (verdict = "buy")
  /\ newest' = IF Due THEN verdict ELSE newest
  /\ Goto("write")
  /\ UNCHANGED <<keys, ticks, close, engine, bars, tick, wasOn, faults>>

(* in_position and the cooldown change before the push, which may fail *)
Publish ==
  /\ At("publish")
  /\ \/ /\ ~Due
        /\ Goto("write")
        /\ UNCHANGED <<newest, inPos, bars, tick>>
        /\ Smooth
     \/ /\ Due
        /\ inPos' = (verdict = "buy")
        /\ bars' = 0
        /\ \/ newest' = verdict /\ Goto("write") /\ UNCHANGED tick /\ Smooth
           \/ newest' \in {newest, verdict} /\ Abandon
  /\ UNCHANGED <<keys, ticks, close, engine, wasOn>>

(* _write_state, for the API's status page *)
WriteState ==
  /\ At("write")
  /\ \/ Goto("pop") /\ ClearTick /\ Smooth
     \/ Abandon
  /\ UNCHANGED <<keys, ticks, newest, close, engine, inPos, bars, wasOn>>

-----------------------------------------------------------------------------
Process ==
  \/ Restart \/ PopTick \/ CheckStrategyChange \/ DecideTick \/ ReadEnabled
  \/ AutoSwitch \/ SyncActive \/ Publish \/ WriteState

Api == StartTrading \/ StopTrading \/ ToggleAutoSwitch \/ \E s \in Strategies : ChangeStrategy(s)

Collector == PushTick \/ \E c \in Prices : StoreCandle(c)

Next == Process \/ Api \/ Collector \/ Crash

(* The loop never blocks for longer than _POP_TIMEOUT and docker restarts a *)
(* dead container.  Nothing is assumed of the API and of the collector.     *)
Spec     == Init /\ [][Next]_vars
FairSpec == Spec /\ WF_vars(Process)

-----------------------------------------------------------------------------
(* Properties *)

(* "The trailing stop only ever moves up": while a position is held by the  *)
(* same engine and the process lives, its stop never falls and never        *)
(* disappears, through every interleaving of ticks, API calls and failures. *)
StopNeverFalls ==
  [][inPos /\ inPos' /\ strategy' = strategy /\ pc' # "down" => stop' >= stop]_vars

(* A tick processed to its end while trading was enabled does not leave a   *)
(* position open that has fallen to its stop at the price it looked at.     *)
StopHonoured == At("write") /\ isOn /\ inPos /\ stop # NoStop => seen > stop

(* stop_trading takes effect with the next tick: a signal comes only from a *)
(* tick during which trading was enabled, although the flag is read several *)
(* awaits before the push.                                                  *)
QuietWhenStopped == [][newest' # newest /\ pc' # "down" => wasOn]_vars

(* in_position is what the executor was told last, as long as no call has   *)
(* failed: a decision that was not pushed, for whatever reason, does not    *)
(* make the strategy believe it was.                                        *)
BeliefWasTold == faults = 0 => /\ newest = "buy"  => inPos
                               /\ newest = "sell" => ~inPos

(* A position that has fallen to its stop while trading is enabled does not *)
(* stay so for ever, as long as ticks keep being decided on.                *)
Breached  == enabled /\ inPos /\ stop # NoStop /\ close <= stop
StopsOut  == []<>At("enabled") => []<>~Breached

(* A strategy asked for through the API is taken up, or replaced by another *)
(* request or by the automatic switch, even if no tick ever arrives.        *)
RequestsHeard == []<>(active \in {strategy, Unset})

=============================================================================
