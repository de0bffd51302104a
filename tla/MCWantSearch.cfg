SPECIFICATION Spec
CONSTANTS
  Intent = {1, 2}
  Batch = 1
  Posted <- MCPosted
  Listed = {2}
  Filed = {2}
  Refused = {}
  MaxRequests = 1
INVARIANTS WantsAreKept
PROPERTIES EveryWantSearched
