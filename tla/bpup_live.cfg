SPECIFICATION Spec
CONSTANTS
  Endpoint = {e1, e2}
  Task = {t1, t2}
  Start = start
  None = none
  BPUP_KEEP_ALIVE_INTERVAL = 3
  BPUP_ALIVE_TIMEOUT = 7
  RECONNECT_MIN_DELAY = 1
  RECONNECT_MAX_DELAY = 6
  MaxFaults = 3
  ConnectMayRaise = FALSE
PROPERTIES ChannelSpec
