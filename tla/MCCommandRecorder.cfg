CONSTANTS
  first = first
  second = second
  Handles <- MCHandles
  Systems = 3
  Params <- MCParams
  Exclusive = {3}
  Cuts = {2, 3}
  MaxEffects = 4
SPECIFICATION RecSpec
INVARIANT OneOwner
PROPERTY ImplementsDeferral
