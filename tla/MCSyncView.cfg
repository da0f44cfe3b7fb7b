SPECIFICATION Spec
CONSTANTS
  ItemKeys <- MCItemKeys
  FullKeys <- MCItemKeys
  NoKey = NoKey
  Names <- MCNames
  LeafRank <- MCLeaf
  DirRank <- MCDir
  MaxLinks = 1
  ProbeLinks = 1
  Trees <- MCTrees
  Keys <- MCMergeKeys
  PageSize = 2
  Depth = 4
INVARIANTS
  Accounted
  JudgedRight
PROPERTIES
  MergeSpec
  SyncEnds
