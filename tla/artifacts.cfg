\* Two requests, uploads or loads of two contracts, in both backends.
SPECIFICATION FairSpec
CONSTANTS
  x1 = x1
  y1 = y1
  z1 = z1
  x2 = x2
  y2 = y2
  large = large
  Contents = {x1, y1, z1, x2, y2, large}
  Oversized = {large}
  Fragile = {x2}
  Early = {x1, y1}
  Earlier = Earlier
  Contracts <- MCContracts
  Trees <- MCTrees
  BaseUrls = {u1}
  Requests = {t1, t2}
  Nobody = Nobody
CHECK_DEADLOCK FALSE
INVARIANTS
  RowsHaveObjects
  UploadsAgree
  LoadsAreAtomic
PROPERTIES
  JobsEnd
