\* Four requests, two at a time, on two symbols.  After the last one the API
\* only waits, which is no deadlock.
CONSTANTS
  btc = btc
  xrp = xrp
  fast = fast
  slow = slow
  stray = stray
  h1 = h1
  h2 = h2
  Symbols = {btc, xrp}
  Home = btc
  Fields = {fast, slow}
  Unknown = {stray}
  Values = {0, 1, 2}
  Defaults <- MCDefaults
  Builtin <- MCBuiltin
  Edits <- MCEdits
  Given <- MCGiven
  Missing = Missing
  Unsure = Unsure
  Handlers = {h1, h2}
  MaxCalls = 4
  MaxFaults = 1
SPECIFICATION Spec
INVARIANTS TypeOK  ToldIsStored
CHECK_DEADLOCK FALSE
