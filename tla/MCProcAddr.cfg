SPECIFICATION Spec
CONSTANTS
  N = 3
  Exts <- MCExts
  InstExts = {"surface"}
  Recognized <- MCRecognized
  Claims <- MCClaims
  DriverExts <- MCDriverExts
  Versions = {10, 11}
  GlobalCmds = {"vkCreateInstance"}
  InstanceCmds <- MCInstanceCmds
  DeviceCmds <- MCDeviceCmds
  OtherCmds = {"vkStrange"}
  Since <- MCSince
  From <- MCFrom
  Entry <- MCEntry
  Always = {"vkEnumeratePhysicalDeviceGroups", "vkDestroyDevice"}
INVARIANTS
  NoLayerSkipped
  NeverDeadEnd
  DisabledIsNull
  ProcInv
CHECK_DEADLOCK FALSE
