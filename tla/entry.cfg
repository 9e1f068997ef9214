SPECIFICATION Spec
CONSTANTS
  dev = dev
  grp = grp
  Things = {dev, grp}
  KindOf <- MCKindOf
  OptionalKeys <- MCOptionalKeys
  Levels = {0, 1}
  MaxFaults = 1
  MaxWrites = 1
  MaxChanges = 1
  MaxRevokes = 1
  MaxUnloads = 1
INVARIANTS EndpointsAccounted LoadedDevicesKept EntitiesAnswered
PROPERTIES EndsUpServing TelemetrySettles
CHECK_DEADLOCK FALSE
