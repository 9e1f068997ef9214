SPECIFICATION Spec
CONSTANTS
  get = get
  put = put
  post = post
  Call <- MCCall
  Read <- MCRead
  Own <- MCOwn
  MaxFaults = 3
INVARIANTS WritesRunOnce UnreachableNotRun
PROPERTIES CallEnds Delivers
CHECK_DEADLOCK FALSE
