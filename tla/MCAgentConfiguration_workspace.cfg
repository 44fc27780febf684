SPECIFICATION Spec
CONSTANTS
  c1 = c1
  c2 = c2
  d1 = d1
  d2 = d2
  v1 = v1
  v2 = v2
  x = x
  y = y
  k1 = k1
  Callers = {c1, c2}
  Drafts = {d1}
  Versions = {v1, v2}
  Contents = {x, y}
  Connections = {k1}
  Refs <- MCRefs
  MaxRevision = 3
  MaxStamp = 2
  NoCaller = NoCaller
  NoDraft = NoDraft
  NoVersion = NoVersion
  NoContent = NoContent
  NoValidation = NoValidation
  NoTree = NoTree
SYMMETRY MCSymmetry
INVARIANTS ConfigTypeOK PublishedRevisionValidated ReferencesExist
PROPERTY CommitsAreOwn
CHECK_DEADLOCK FALSE
