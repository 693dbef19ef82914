SPECIFICATION FairSpec
\* A merge that is done stops.
CHECK_DEADLOCK FALSE
CONSTANTS
  auth = auth
  scopes = scopes
  ours = ours
  theirs = theirs
  Keys = {auth, scopes}
  Leaves = {ours, theirs}
  Object = Object
  NoParams = NoParams
  Defaults <- MCDefaults
  Params <- MCParams
INVARIANTS TypeOK MergedSoFar MergedByPath
PROPERTY MergeEnds
