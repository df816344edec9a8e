SPECIFICATION Spec
CONSTANTS
  Devs <- MCDevs
  Setups <- TornCopy
  MaxGen = 3
INVARIANTS RecoverFromGood
