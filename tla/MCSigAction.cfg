SPECIFICATION Spec
CONSTANTS
  t1 = t1
  t2 = t2
  chld = chld
  usr1 = usr1
  Threads <- TwoThreads
  Sigs <- BothSigs
  BadSig = BadSig
  Ignored <- OnlyChld
  Inherited <- OnlyChld
  Acts <- ActsUsed
  Masks <- MasksUsed
  MaxSets = 2
  MaxSends = 2
  MaxDepth = 3
INVARIANTS OneShot AgreesWithKernel MasksNest
PROPERTIES SigactionReturns
CHECK_DEADLOCK FALSE
