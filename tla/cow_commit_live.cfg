SPECIFICATION FairSpec
CONSTANTS
  Blocks <- MCFewBlocks
  NoBlock = NoBlock
  FsLeaves <- MCFsLeaves
  ExtLeaves <- MCExtLeaves
  LeafOf <- MCFewLeafOf
  BgLeaf = "e1"
  Values = {v1, v2}
  NoValue = NoValue
  NumMirrors = 2
  MaxGen = 3
  MaxCalls = 1
  MaxCrashes = 1
  FirstLayout <- MCFirstLayout
PROPERTIES CommittedNotOverwritten CommitTerminates ImplementsAtomicStore
CHECK_DEADLOCK FALSE
