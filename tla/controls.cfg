SPECIFICATION Spec
CONSTANTS
  Devices <- MCDevices
  Kelvins <- MCKelvins
  Samples <- MCSamples
  Tenths <- MCTenths
INVARIANTS OfferedIsListed InBridgeRange ShownAsAsked ReplacedButtonsReachable
PROPERTIES EchoSettles EchoKeepsPower Ordered
