SPECIFICATION Spec
CONSTANTS
  Order <- MCOrder
  OwnerOf <- MCOwnerOf
  Hot = {}
  MaxEdits = 2
  MaxMishaps = 1
  MaxQueued = 1
INVARIANT NoProtocolError
INVARIANT DeferredAgree
INVARIANT DeferredUnsettled
INVARIANT QuietTold
