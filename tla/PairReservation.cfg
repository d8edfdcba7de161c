SPECIFICATION FairSpec
CONSTANTS
  Up = Up
  Down = Down
  Job = Job
  None = None
  Peers = {1, 2}
  Pairs <- MCPairs
  Low <- MCLow
  High <- MCHigh
  Connector <- MCConnector
  Managed = {Up}
  Mortal <- MCMortal
  DiesIn = {"issued", "committed", "running"}
  Locals = {Job}
  At <- MCAt
  MaxResets = 1
  MaxOrder = 2
  MaxCrashes = 1
INVARIANT LowerFirst
INVARIANT EligibleInOrder
INVARIANT OneProxyAtATime
PROPERTY LocalServed
