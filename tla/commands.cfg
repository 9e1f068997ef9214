SPECIFICATION Spec
CONSTANTS
  c1 = c1
  c2 = c2
  Command = {c1, c2}
  Devices <- MCDevices
  Asks <- MCAsks
  MaxRemote = 1
INVARIANTS InOrder PrefixRan Obeyed OffEndsBreeze
PROPERTIES CommandEnds
CHECK_DEADLOCK FALSE
