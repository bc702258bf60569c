------------------------- MODULE MCStrategyConsumer -------------------------
(***************************************************************************)
(* StrategyConsumer.tla on small instances.  Three prices let a stop that  *)
(* trails by one rise, hold and be hit, and the two cooldowns differ so    *)
(* that a strategy change matters to the count in progress.                *)
(***************************************************************************)
EXTENDS StrategyConsumer

MCStrategies == {"regime_trend", "mean_reversion"}
MCPrices     == 2 .. 4
MCCooldown   == [s \in Strategies |-> IF s = "regime_trend" THEN 2 ELSE 1]

=============================================================================
