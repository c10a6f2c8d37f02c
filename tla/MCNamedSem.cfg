SPECIFICATION SemSpec
CONSTANTS
  u1 = u1
  u2 = u2
  u3 = u3
  u4 = u4
  n1 = n1
  n2 = n2
  h1 = h1
  h2 = h2
  p1 = p1
  p2 = p2
  p3 = p3
  NoObj = NoObj
  Uses <- MCUses
  Names <- MCNames
  Handles <- MCHandles
  Ptrs <- MCPtrs
  MaxObjs = 4
SYMMETRY Symmetry
INVARIANTS SemIsTheirs HandlesCounted
CHECK_DEADLOCK FALSE
