SPECIFICATION Spec
CONSTANTS
  N = 2
  Exts <- MCExts
  Recognized <- MCRecognized
  Claims <- MCClaims
  DriverExts <- MCDriverExts
  Requests <- MCRequests
  HookLists <- MCHookLists
  Garbage = Garbage
INVARIANTS
  DeviceInfoGetsOriginal
