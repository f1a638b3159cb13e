CONSTANTS
  Callers = {miner, send}
  Target = 2
  MaxKeys = 6
SPECIFICATION Spec
SYMMETRY Symmetry
INVARIANTS
    KeysNotLost
    
    
