SPECIFICATION Spec
CONSTANTS
  l1 = l1
  l2 = l2
  c1 = c1
  s1 = s1
  s2 = s2
  Null = Null
  Own = Own
  Leaves <- MCLeaves
  Stores <- MCStores
  Sessions <- MCSessions
  MaxCerts = 2
SYMMETRY Symmetry
INVARIANTS
  RefsExact
  NoDanglingChain
  ServerPresentsItsLeaf
PROPERTY PresentedChainStable
