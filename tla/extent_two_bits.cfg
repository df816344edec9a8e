SPECIFICATION Spec
CONSTANTS
  MaxOff = 3
  Bits <- MCTwoBits
  IoBits = {}
  Privates = {}
  NoPrivate = NoPrivate
  SetCalls <- MCTwoBitCalls
  ClearCalls <- MCTwoBitCalls
  MarkBits = {}
INVARIANT CallsExact
