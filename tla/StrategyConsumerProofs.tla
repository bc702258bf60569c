----------------------- MODULE StrategyConsumerProofs -----------------------
(***************************************************************************)
(* What holds of StrategyConsumer.tla for every set of strategies, every   *)
(* set of prices and stop distances, and any number of faults.             *)
(***************************************************************************)
EXTENDS StrategyConsumer, SumTheorems, TLAPS

-----------------------------------------------------------------------------
(* The largest value of a function on a finite set *)

(* A function from a finite, non-empty set to the naturals has a largest value. *)
LEMMA LargestValue ==
  ASSUME NEW S, IsFiniteSet(S), S # {}, NEW f \in [S -> Nat]
  PROVE  \E m \in S : \A s \in S : f[s] <= f[m]
<1> DEFINE Topped(T) == \E m \in T : \A s \in T : f[s] <= f[m]
           C == {T \in SUBSET S : T # {} /\ ~Topped(T)}
<1> SUFFICES ASSUME ~Topped(S) PROVE FALSE
  OBVIOUS
<1>1. PICK T \in C : \A U \in C : U \subseteq T => U = T
  <2>1. S \in C
    OBVIOUS
  <2> HIDE DEF C
  <2>2. C \in SUBSET (SUBSET S)
    BY DEF C
  <2> QED
    BY <2>1, <2>2, LeastSubset
<1>2. PICK t \in T : TRUE
  OBVIOUS
<1>3. CASE T = {t}
  BY <1>1, <1>3
<1>4. CASE T # {t}
  <2>1. T \ {t} \notin C
    BY <1>1, <1>2
  <2>2. PICK m \in T \ {t} : \A s \in T \ {t} : f[s] <= f[m]
    BY <1>2, <1>4, <2>1
  <2>3. \A s \in T : f[s] \in Nat
    OBVIOUS
  <2>4. \A s \in T : f[s] <= f[m] \/ \A r \in T : f[r] <= f[t]
    BY <1>2, <2>2, <2>3
  <2> QED
    BY <1>1, <2>2, <2>4
<1> QED
  BY <1>3, <1>4

(* The bound at which the model stops counting bars is a number no cooldown *)
(* exceeds.                                                                 *)
LEMMA LongestCooldownType ==
  /\ LongestCooldown \in Nat
  /\ \A s \in Strategies : Cooldown[s] <= LongestCooldown
<1>1. PICK m \in Strategies : \A s \in Strategies : Cooldown[s] <= Cooldown[m]
  BY LargestValue, ConstantsAssumption DEF Adaptive
<1> DEFINE S == {Cooldown[s] : s \in Strategies}
<1>2. Cooldown[m] \in S /\ \A y \in S : Cooldown[m] >= y
  BY <1>1, ConstantsAssumption
<1>3. S \subseteq Nat
  BY ConstantsAssumption
<1>4. \A s \in Strategies : Cooldown[s] \in S
  OBVIOUS
<1>5. LongestCooldown = Max(S)
  BY DEF LongestCooldown
<1> HIDE DEF S
<1>6. Max(S) \in S /\ \A y \in S : Max(S) >= y
  BY <1>2 DEF Max
<1> QED
  BY <1>3, <1>4, <1>5, <1>6

(* Zero, and a count that was within the bound, are within the bound. *)
LEMMA BarsType ==
  ASSUME bars' \in {0, bars}
  PROVE  bars \in 0 .. LongestCooldown => bars' \in 0 .. LongestCooldown
<1>1. 0 \in 0 .. LongestCooldown
  BY LongestCooldownType
<1> QED
  BY <1>1

-----------------------------------------------------------------------------
(* Types *)

(* The fault budget stays within its bound, whether a call succeeds or fails. *)
LEMMA FaultType ==
  ASSUME TypeOK, Smooth \/ Fault
  PROVE  faults' \in 0 .. MaxFaults
  BY ConstantsAssumption DEF TypeOK, Smooth, Fault

(* decide() answers one of three verdicts, and a stop that is a price. *)
LEMMA DecideType ==
  ASSUME TypeOK, NEW view, Decide(view)
  PROVE  verdict' \in {"hold", "buy", "sell"} /\ stop' \in Nat
<1>1. /\ close \in Nat /\ stop \in Nat /\ Trail \in Nat /\ Initial \in Nat
      /\ close > Trail /\ close > Initial
  BY ConstantsAssumption DEF TypeOK
<1> QED
  BY <1>1 DEF Decide, NextStop, Larger

(* A step of the process keeps every type. *)
LEMMA ProcessType == TypeOK /\ Process => TypeOK'
<1> SUFFICES ASSUME TypeOK, Process PROVE TypeOK'
  OBVIOUS
<1> USE DEF keys, engine, tick, At, Goto, PC
<1>1. CASE Restart
  <2>1. strategy' \in Strategies
    BY <1>1, ConstantsAssumption DEF Restart, TypeOK, Adaptive, Default
  <2>2. Cooldown[strategy'] \in 0 .. LongestCooldown
    BY <2>1, ConstantsAssumption, LongestCooldownType
  <2> QED
    BY <1>1, <2>1, <2>2 DEF Restart, TypeOK
<1>2. CASE PopTick
  <2>1. ticks' \in 0 .. MaxTicks
    <3>1. ticks' = ticks \/ (ticks > 0 /\ ticks' = ticks - 1)
      BY <1>2 DEF PopTick
    <3> QED
      BY <3>1, ConstantsAssumption DEF TypeOK
  <2>2. faults' \in 0 .. MaxFaults
    BY <1>2, FaultType DEF PopTick
  <2>3. wasOn' \in BOOLEAN
    BY <1>2, Zenon DEF PopTick, TypeOK
  <2>4. pc' \in PC
    BY <1>2 DEF PopTick, TypeOK
  <2> QED
    BY <1>2, <2>1, <2>2, <2>3, <2>4 DEF PopTick, TypeOK
<1>3. CASE CheckStrategyChange
  <2>1. strategy' \in Strategies /\ stop' \in Nat
    BY <1>3 DEF CheckStrategyChange, TypeOK, NoStop
  <2>2. faults' \in 0 .. MaxFaults
    BY <1>3, FaultType DEF CheckStrategyChange, Abandon
  <2>3. pc' \in PC
    BY <1>3 DEF CheckStrategyChange, Abandon
  <2>4. verdict' \in {"hold", "buy", "sell"} /\ seen' \in Prices \cup {0} /\ isOn' \in BOOLEAN
    BY <1>3 DEF CheckStrategyChange, Abandon, ClearTick, TypeOK
  <2> QED
    BY <1>3, <2>1, <2>2, <2>3, <2>4 DEF CheckStrategyChange, TypeOK
<1>4. CASE DecideTick
  <2>1. faults' \in 0 .. MaxFaults
    BY <1>4, FaultType DEF DecideTick, Abandon
  <2>2. verdict' \in {"hold", "buy", "sell"} /\ stop' \in Nat
    BY <1>4, DecideType DEF DecideTick, Abandon, ClearTick, TypeOK
  <2>3. bars' \in 0 .. LongestCooldown
    BY <1>4, LongestCooldownType DEF DecideTick, Capped, TypeOK
  <2> QED
    BY <1>4, <2>1, <2>2, <2>3 DEF DecideTick, Abandon, ClearTick, TypeOK
<1>5. CASE ReadEnabled
  BY <1>5, FaultType DEF ReadEnabled, Abandon, ClearTick, TypeOK
<1>6. CASE AutoSwitch
  <2>1. strategy' \in Strategies /\ stop' \in Nat
    BY <1>6, ConstantsAssumption DEF AutoSwitch, TypeOK, NoStop
  <2>2. faults' \in 0 .. MaxFaults
    BY <1>6, FaultType DEF AutoSwitch, Abandon
  <2> QED
    BY <1>6, <2>1, <2>2 DEF AutoSwitch, Abandon, ClearTick, TypeOK
<1>7. CASE SyncActive
  BY <1>7, FaultType DEF SyncActive, Abandon, ClearTick, TypeOK
<1>8. CASE Publish
  <2>1. bars' \in 0 .. LongestCooldown
    <3>1. bars' \in {0, bars}
      BY <1>8 DEF Publish
    <3> QED
      BY <3>1, BarsType DEF TypeOK
  <2>2. faults' \in 0 .. MaxFaults
    BY <1>8, FaultType DEF Publish, Abandon
  <2> QED
    BY <1>8, <2>1, <2>2 DEF Publish, Abandon, ClearTick, TypeOK, Due
<1>9. CASE WriteState
  BY <1>9, FaultType DEF WriteState, Abandon, ClearTick, TypeOK
<1> QED
  BY <1>1, <1>2, <1>3, <1>4, <1>5, <1>6, <1>7, <1>8, <1>9 DEF Process

(* The API, the collector and a crash keep every type. *)
LEMMA OthersType == TypeOK /\ (Api \/ Collector \/ Crash) => TypeOK'
<1> SUFFICES ASSUME TypeOK, Api \/ Collector \/ Crash PROVE TypeOK'
  OBVIOUS
<1> USE DEF keys, engine, tick, TypeOK
<1>1. CASE Api
  BY <1>1 DEF Api, StartTrading, StopTrading, ToggleAutoSwitch, ChangeStrategy
<1>2. CASE Collector
  BY <1>2, ConstantsAssumption DEF Collector, PushTick, StoreCandle
<1>3. CASE Crash
  <2>1. bars' \in 0 .. LongestCooldown
    BY <1>3, BarsType DEF Crash
  <2>2. faults' \in 0 .. MaxFaults
    BY <1>3, FaultType DEF Crash
  <2> QED
    BY <1>3, <2>1, <2>2 DEF Crash, ClearTick, At, Goto, PC, NoStop
<1> QED
  BY <1>1, <1>2, <1>3

(* Type correctness of StrategyConsumer.tla: a stop is never negative and the *)
(* count of bars never exceeds the longest cooldown.                          *)
THEOREM TypeCorrect == Spec => []TypeOK
<1>1. Init => TypeOK
  <2>1. 0 \in 0 .. LongestCooldown /\ 0 \in 0 .. MaxTicks /\ 0 \in 0 .. MaxFaults
    BY ConstantsAssumption, LongestCooldownType
  <2>2. Default \in Strategies
    BY ConstantsAssumption DEF Adaptive, Default
  <2>3. Init => enabled \in BOOLEAN /\ auto \in BOOLEAN /\ inPos \in BOOLEAN
                /\ isOn \in BOOLEAN /\ wasOn \in BOOLEAN
    BY Zenon DEF Init
  <2> QED
    BY <2>1, <2>2, <2>3 DEF Init, TypeOK, PC, NoStop
<1>2. TypeOK /\ [Next]_vars => TypeOK'
  BY ProcessType, OthersType DEF Next, TypeOK, vars, keys, engine, tick
<1> QED
  BY <1>1, <1>2, PTL DEF Spec

-----------------------------------------------------------------------------
(* The stop *)

(* While a position is held by the same engine and the process lives, its    *)
(* stop never falls and never disappears: only a new strategy resets it, and *)
(* only decide() moves it otherwise.                                         *)
THEOREM TrailingStop == Spec => StopNeverFalls
<1>1. TypeOK /\ [Next]_vars =>
        [inPos /\ inPos' /\ strategy' = strategy /\ pc' # "down" => stop' >= stop]_vars
  <2> SUFFICES ASSUME TypeOK, Next, inPos, strategy' = strategy, pc' # "down"
               PROVE  stop' >= stop
    OBVIOUS
  <2>1. stop \in Nat /\ close \in Nat /\ Trail \in Nat
    BY ConstantsAssumption DEF TypeOK
  <2>2. CASE DecideTick
    <3>1. stop' = stop \/ stop' = NextStop(strategy, close, stop)
      BY <2>2 DEF DecideTick, Decide
    <3> QED
      BY <2>1, <3>1 DEF NextStop, Larger
  <2>3. CASE ~DecideTick
    <3>1. stop' = stop
      BY <2>3 DEF Next, Process, Api, Collector, Crash, Goto, Restart, PopTick,
          CheckStrategyChange, ReadEnabled, AutoSwitch, SyncActive, Publish, WriteState,
          StartTrading, StopTrading, ToggleAutoSwitch, ChangeStrategy, PushTick,
          StoreCandle, engine
    <3> QED
      BY <2>1, <3>1
  <2> QED
    BY <2>2, <2>3
<1> QED
  BY <1>1, TypeCorrect, PTL DEF Spec, StopNeverFalls

(* What holds of the decision in hand on its way from decide() to the push:   *)
(* it fits in_position, and a stop that was not hit lies below the price the  *)
(* decision was taken at.  The automatic switch acts only when flat.          *)
DecisionInv ==
  /\ pc \in {"enabled", "switch", "sync", "publish"} =>
       /\ verdict = "buy"  => ~inPos
       /\ verdict = "sell" => inPos
       /\ stop # NoStop /\ (verdict = "buy" \/ (inPos /\ verdict = "hold")) => seen > stop
  /\ pc = "sync" => ~inPos
  /\ StopHonoured

(* A decision that does not sell a held position has a stop below the close, *)
(* and so has a decision that buys.                                          *)
LEMMA DecisionFits ==
  ASSUME TypeOK, NEW view, Decide(view)
  PROVE  /\ verdict' = "buy"  => ~inPos
         /\ verdict' = "sell" => inPos
         /\ stop' # NoStop /\ (verdict' = "buy" \/ (inPos /\ verdict' = "hold")) => close > stop'
<1>1. /\ close \in Nat /\ stop \in Nat /\ Trail \in Nat /\ Initial \in Nat \ {0}
      /\ close > Trail /\ close > Initial
  BY ConstantsAssumption DEF TypeOK
<1>2. CASE inPos
  <2>1. stop' \in Nat
    BY <1>1, DecideType
  <2> QED
    BY <1>1, <1>2, <2>1 DEF Decide, Exit
<1>3. CASE ~inPos
  BY <1>1, <1>3 DEF Decide
<1> QED
  BY <1>2, <1>3

(* Each step of the process keeps what holds of the decision in hand. *)
LEMMA DecisionProcess == TypeOK /\ DecisionInv /\ Process => DecisionInv'
<1> SUFFICES ASSUME TypeOK, DecisionInv, Process PROVE DecisionInv'
  OBVIOUS
<1> USE DEF DecisionInv, StopHonoured, engine, tick, At, Goto
<1>1. CASE Restart \/ PopTick
  BY <1>1 DEF Restart, PopTick, TypeOK
<1>2. CASE CheckStrategyChange
  BY <1>2 DEF CheckStrategyChange, Abandon
<1>3. CASE DecideTick
  <2>1. CASE pc' = "enabled"
    <3>1. PICK view : Decide(view)
      BY <1>3, <2>1 DEF DecideTick, Abandon
    <3>2. seen' = close /\ inPos' = inPos
      BY <1>3, <2>1 DEF DecideTick, Abandon
    <3> QED
      BY <2>1, <3>1, <3>2, DecisionFits
  <2>2. CASE pc' # "enabled"
    BY <1>3, <2>2 DEF DecideTick, Abandon
  <2> QED
    BY <2>1, <2>2
<1>4. CASE ReadEnabled
  BY <1>4 DEF ReadEnabled, Abandon
<1>5. CASE AutoSwitch
  BY <1>5 DEF AutoSwitch, Abandon, NoStop
<1>6. CASE SyncActive
  BY <1>6 DEF SyncActive, Abandon
<1>7. CASE Publish
  <2>1. CASE ~Due
    BY <1>7, <2>1 DEF Publish, Due, TypeOK
  <2>2. CASE Due
    BY <1>7, <2>2 DEF Publish, Due, Abandon
  <2> QED
    BY <2>1, <2>2
<1>8. CASE WriteState
  BY <1>8 DEF WriteState, Abandon
<1> QED
  BY <1>1, <1>2, <1>3, <1>4, <1>5, <1>6, <1>7, <1>8 DEF Process

(* The API and the collector never touch the decision; a crash drops it. *)
LEMMA DecisionOthers == DecisionInv /\ (Api \/ Collector \/ Crash) => DecisionInv'
  BY DEF DecisionInv, StopHonoured, engine, tick, At, Goto, Api, Collector, Crash,
         StartTrading, StopTrading, ToggleAutoSwitch, ChangeStrategy, PushTick, StoreCandle

(* A tick processed to its end while trading was enabled leaves no position  *)
(* open that has fallen to its stop at the price it looked at, whatever the  *)
(* API, the collector and failures do between decide() and the push.         *)
THEOREM StopIsHonoured == Spec => []StopHonoured
<1>1. Init => DecisionInv
  BY DEF Init, DecisionInv, StopHonoured, At
<1>2. TypeOK /\ DecisionInv /\ [Next]_vars => DecisionInv'
  <2>1. DecisionInv /\ UNCHANGED vars => DecisionInv'
    BY DEF DecisionInv, StopHonoured, At, vars, engine, tick
  <2> QED
    BY <2>1, DecisionProcess, DecisionOthers DEF Next
<1>3. DecisionInv => StopHonoured
  BY DEF DecisionInv
<1> QED
  BY <1>1, <1>2, <1>3, TypeCorrect, PTL DEF Spec

-----------------------------------------------------------------------------
(* The trading flag and the signals *)

(* The flag as read for a tick is set only if trading was enabled since the  *)
(* tick was popped, and is not set before it has been read.                  *)
FlagInv ==
  /\ enabled => wasOn
  /\ isOn => wasOn
  /\ pc \in {"down", "pop", "change", "change_idle", "decide", "enabled"} => ~isOn

(* The flag is known in every reachable state. *)
LEMMA FlagKnown == Spec => []FlagInv
<1>1. Init => FlagInv
  BY DEF Init, FlagInv
<1>2. TypeOK /\ FlagInv /\ [Next]_vars => FlagInv'
  <2> SUFFICES ASSUME TypeOK, FlagInv, [Next]_vars PROVE FlagInv'
    OBVIOUS
  <2> USE DEF FlagInv, keys, engine, tick, At, Goto, ClearTick, Abandon
  <2>1. CASE Restart \/ PopTick \/ CheckStrategyChange
    BY <2>1 DEF Restart, PopTick, CheckStrategyChange
  <2>2. CASE DecideTick \/ ReadEnabled
    BY <2>2 DEF DecideTick, ReadEnabled
  <2>3. CASE AutoSwitch \/ SyncActive
    BY <2>3 DEF AutoSwitch, SyncActive
  <2>4. CASE Publish \/ WriteState
    BY <2>4 DEF Publish, WriteState
  <2>5. CASE Api \/ Collector \/ Crash
    BY <2>5 DEF Api, Collector, Crash, StartTrading, StopTrading, ToggleAutoSwitch,
                ChangeStrategy, PushTick, StoreCandle
  <2>6. CASE UNCHANGED vars
    BY <2>6 DEF vars
  <2> QED
    BY <2>1, <2>2, <2>3, <2>4, <2>5, <2>6 DEF Next, Process
<1> QED
  BY <1>1, <1>2, TypeCorrect, PTL DEF Spec

(* stop_trading takes effect with the next tick: every signal comes from a   *)
(* tick during which trading was enabled.                                    *)
THEOREM Quiet == Spec => QuietWhenStopped
<1>1. FlagInv /\ [Next]_vars => [newest' # newest /\ pc' # "down" => wasOn]_vars
  <2> SUFFICES ASSUME FlagInv, Next, newest' # newest, pc' # "down" PROVE wasOn
    OBVIOUS
  <2>1. CASE Publish
    BY <2>1 DEF FlagInv, Publish, Due
  <2>2. CASE ~Publish
    BY <2>2 DEF Next, Process, Api, Collector, Crash, Goto, Restart, PopTick,
        CheckStrategyChange, DecideTick, ReadEnabled, AutoSwitch, SyncActive, WriteState,
        StartTrading, StopTrading, ToggleAutoSwitch, ChangeStrategy, PushTick, StoreCandle
  <2> QED
    BY <2>1, <2>2
<1> QED
  BY <1>1, FlagKnown, PTL DEF Spec, QuietWhenStopped

(* A process that is down has told nobody anything since it started. *)
BeliefInv == BeliefWasTold /\ (pc = "down" => newest = "none")

(* in_position is what the executor was told last, as long as no call has    *)
(* failed: a decision that was not pushed, for whatever reason, does not     *)
(* make the strategy believe it was.                                         *)
THEOREM BeliefTold == Spec => []BeliefWasTold
<1>1. Init => BeliefInv
  BY DEF Init, BeliefInv, BeliefWasTold
<1>2. TypeOK /\ BeliefInv /\ [Next]_vars => BeliefInv'
  <2> SUFFICES ASSUME TypeOK, BeliefInv, [Next]_vars PROVE BeliefInv'
    OBVIOUS
  <2> USE DEF BeliefInv, BeliefWasTold, At, Goto
  <2>0. faults' = 0 => faults = 0 /\ ~Fault
    <3>1. faults \in Nat
      BY ConstantsAssumption DEF TypeOK
    <3>2. faults' \in {faults, faults + 1}
      BY DEF Next, Process, Api, Collector, Crash, Restart, PopTick,
        CheckStrategyChange, DecideTick, ReadEnabled, AutoSwitch, SyncActive, Publish,
        WriteState, StartTrading, StopTrading, ToggleAutoSwitch, ChangeStrategy, PushTick,
        StoreCandle, Abandon, Smooth, Fault, vars
    <3> QED
      BY <3>1, <3>2 DEF Fault
  <2>1. CASE Publish
    <3>1. pc' # "down"
      BY <2>1 DEF Publish, Abandon
    <3>2. CASE ~Due
      BY <2>0, <2>1, <3>1, <3>2 DEF Publish
    <3>3. CASE Due
      <4>1. faults' = 0 => newest' = verdict
        BY <2>0, <2>1, <3>3 DEF Publish, Abandon
      <4>2. inPos' <=> verdict = "buy"
        BY <2>1, <3>3, Zenon DEF Publish
      <4> QED
        BY <3>1, <4>1, <4>2
    <3> QED
      BY <3>2, <3>3
  <2>2. CASE Restart
    BY <2>0, <2>2 DEF Restart
  <2>3. CASE Crash
    BY <2>0, <2>3 DEF Crash
  <2>4. CASE ~Publish /\ ~Restart /\ ~Crash
    <3>1. newest' = newest /\ inPos' = inPos /\ (pc' = "down" => pc = "down")
      BY <2>4 DEF Next, Process, Api, Collector, Restart, PopTick,
        CheckStrategyChange, DecideTick, ReadEnabled, AutoSwitch, SyncActive,
        WriteState, StartTrading, StopTrading, ToggleAutoSwitch, ChangeStrategy, PushTick,
        StoreCandle, Abandon, vars
    <3> QED
      BY <2>0, <3>1
  <2> QED
    BY <2>1, <2>2, <2>3, <2>4
<1>3. BeliefInv => BeliefWasTold
  BY DEF BeliefInv
<1> QED
  BY <1>1, <1>2, <1>3, TypeCorrect, PTL DEF Spec

=============================================================================
