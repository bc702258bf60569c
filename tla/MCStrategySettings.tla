------------------------ MODULE MCStrategySettings ------------------------
(* StrategySettings.tla on a small instance: two parameters, of which the *)
(* built-in preset of one symbol sets one.                                *)
EXTENDS StrategySettings, TLC

CONSTANTS btc, xrp, fast, slow, stray

MCDefaults == [f \in {fast, slow} |-> 0]
MCBuiltin  == btc :> Missing @@ xrp :> (fast :> 1)
MCEdits    == {fast :> 1, slow :> 2}
MCGiven    == {fast :> 2, slow :> 1 @@ stray :> 1}

=============================================================================
