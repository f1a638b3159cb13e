CONSTANTS
  o1 = o1
  p1 = p1
  p2 = p2
  Slots = {n1, n2}
  Peers = {p1, p2}
  Openers = {o1}
  Targets <- MCTargets
  Rpc = Rpc
  MaxOutbound = 1
  MaxInbound = 1
  Null = Null
SPECIFICATION FairSpec

    
    
PROPERTIES
    DisconnectedGoes
    
