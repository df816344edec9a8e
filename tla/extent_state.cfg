SPECIFICATION FairSpec
CONSTANTS
  MaxOff = 7
  Bits <- MCBits
  IoBits <- MCLocked
  Privates = {p1, p2}
  NoPrivate = NoPrivate
  SetCalls <- MCSetCalls
  ClearCalls <- MCClearCalls
  MarkBits <- MCDirty
INVARIANTS Disjoint CallsExact LookupsExact
PROPERTY CallReturns
