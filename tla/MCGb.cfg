SPECIFICATION FairSpec
CONSTANTS
  a1 = a1
  a2 = a2
  p1 = p1
  p2 = p2
  c1 = c1
  None = None
  NoCell = NoCell
  AliveRetries = 0
  Addrs = {a1, a2}
  Uplinks = {a2}
  Ids = {1, 2}
  Pairs <- SomePairs
  Types <- AllTypes
  MaxVcs = 2
  Bvcs = {0, 1, 2}
  Cells = {c1}
  MaxOnWay = 1
  Settings <- Varying
  Lens = {2, 3}
  MaxDepth = 2
  MaxPdus = 3
  MaxElapsed = 5
INVARIANTS NsvcUnique BvcAgreed FlowConserved
PROPERTIES Recovers Drains
CHECK_DEADLOCK FALSE
