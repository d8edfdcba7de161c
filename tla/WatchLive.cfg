SPECIFICATION FairSpec
CONSTANTS
  Order <- MCOrder
  OwnerOf <- MCOwnerOf
  Hot = {"c"}
  MaxEdits = 1
  MaxMishaps = 0
  MaxQueued = 1
PROPERTY StablePathsContinue
