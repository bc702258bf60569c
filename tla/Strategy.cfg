\* One strategy process, every API call and candle at any time.
CONSTANTS
  Strategies <- MCStrategies
  Prices <- MCPrices
  Trail = 1
  Initial = 1
  Cooldown <- MCCooldown
  MaxTicks = 1
  MaxFaults = 1
  Unset = Unset
SPECIFICATION FairSpec
INVARIANTS TypeOK StopHonoured BeliefWasTold
PROPERTIES StopNeverFalls QuietWhenStopped StopsOut RequestsHeard
