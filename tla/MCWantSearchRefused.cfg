SPECIFICATION Spec
CONSTANTS
  Intent = {1, 2}
  Batch = 2
  Posted <- MCPosted
  Listed = {2}
  Filed = {2}
  Refused = {2}
  MaxRequests = 0
PROPERTIES BacklogDrains
