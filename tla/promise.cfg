SPECIFICATION FairSpec
CONSTANTS
  MaxPromises = 3
  MaxReactions = 2
  MaxBare = 1
  MaxDepth = 2
INVARIANTS
  ReactionsSound
  AllSound

  
  
