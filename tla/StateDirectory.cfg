SPECIFICATION Spec
CONSTANTS
  h1 = h1
  h2 = h2
  d1 = d1
  d2 = d2
  Hubs = {h1, h2}
  Dirs = {d1, d2}
  MaxVersion = 3
  NoHub = NoHub
  Child = Child
INVARIANTS
  DocumentIsWhole
  NoLostUpdate
  OrderlyExitUnlocks

  
  
