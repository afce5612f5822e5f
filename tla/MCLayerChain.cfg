SPECIFICATION FairSpec
CONSTANTS
  N = 3
  Exts <- MCExts
  Recognized <- MCRecognized
  Claims <- MCClaims
  DriverExts <- MCDriverExts
  Requests <- MCRequests
  HookLists <- MCHookLists
  Garbage = Garbage
INVARIANTS
  NoPanic
  OwnLink
  Nested
  AllOrNothing
  ExtensionsRouted
  InstanceInfoGetsOriginal
  ChainInv
PROPERTIES
  CallsReturn
  ImplementsContract
