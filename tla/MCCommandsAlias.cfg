SPECIFICATION Spec
CONSTANTS
  N = 1
  Exts <- MCExts
  InstExts <- MCInstExts
  Recognized <- MCRecognized
  Claims <- MCClaims
  DriverExts <- MCDriverExts
  Versions = {10, 11, 12, 13}
  GlobalCmds <- MCGlobalCmds
  InstanceCmds <- MCInstanceCmds
  DeviceCmds <- MCDeviceCmds
  OtherCmds = {}
  Since <- MCSince
  From <- MCFrom
  Entry <- MCEntry
  Always <- AlwaysHooked
INVARIANTS
  UnhandledCallsNext
CHECK_DEADLOCK FALSE
