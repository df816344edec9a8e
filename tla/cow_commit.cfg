SPECIFICATION Spec
CONSTANTS
  Blocks <- MCBlocks
  NoBlock = NoBlock
  FsLeaves <- MCFsLeaves
  ExtLeaves <- MCExtLeaves
  LeafOf <- MCLeafOf
  BgLeaf = "e1"
  Values = {v1}
  NoValue = NoValue
  NumMirrors = 2
  MaxGen = 3
  MaxCalls = 2
  MaxCrashes = 1
  FirstLayout <- MCFirstLayout
INVARIANTS FsckClean NeverHandedOutTwice SpaceAccounted FsckInv
CHECK_DEADLOCK FALSE
