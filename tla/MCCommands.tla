----------------------------- MODULE MCCommands -----------------------------
(* ProcAddr for every command of the generated tables: one layer over a    *)
(* driver, the features and the wrapper of a command as CommandTables has  *)
(* them, the entry of the wrapper as DispatchTables has it.                *)
EXTENDS ProcAddr, CommandTables, DispatchTables

\* The names that lib.rs:1454 answers, of which the tables list one.
MCGlobalCmds ==
  {"vkGetInstanceProcAddr", "vkEnumerateInstanceExtensionProperties",
   "vkEnumerateInstanceLayerProperties", "vkCreateInstance"}
MCInstanceCmds == DOMAIN InstanceCommandTable \ MCGlobalCmds
MCDeviceCmds == DOMAIN DeviceCommandTable

Commands == InstanceCommandTable @@ DeviceCommandTable
Entries == InstanceEntries @@ DeviceEntries @@ GlobalEntries
Number == "1.0" :> 10 @@ "1.1" :> 11 @@ "1.2" :> 12 @@ "1.3" :> 13
Numbers(features) == {Number[f] : f \in features \cap DOMAIN Number}

MCFeatures == [c \in Cmds |-> IF c \in DOMAIN Commands THEN Commands[c].features ELSE {"1.0"}]
MCSince == [c \in Cmds |-> Numbers(MCFeatures[c])]
MCFrom == [c \in Cmds |-> MCFeatures[c] \ DOMAIN Number]
MCWrapper == [c \in Cmds |-> IF c \in DOMAIN Commands THEN Commands[c].wrapper ELSE c]
MCEntry == [c \in Cmds |->
  LET name == MCWrapper[c]
      table == IF name \in DOMAIN Entries THEN Entries[name] ELSE "1.0"
  IN  [name |-> name, since |-> Numbers({table}), from |-> {table} \ DOMAIN Number]]

\* Instance extensions by the registry of Vulkan; the code does not tell them apart.
MCInstExts ==
  {"EXTAcquireDrmDisplay", "EXTAcquireXlibDisplay", "EXTDebugReport", "EXTDebugUtils",
   "EXTDirectModeDisplay", "EXTDirectfbSurface", "EXTDisplaySurfaceCounter",
   "EXTHeadlessSurface", "EXTMetalSurface", "FUCHSIAImagepipeSurface",
   "GGPStreamDescriptorSurface", "KHRAndroidSurface", "KHRDeviceGroupCreation", "KHRDisplay",
   "KHRExternalFenceCapabilities", "KHRExternalMemoryCapabilities",
   "KHRExternalSemaphoreCapabilities", "KHRGetDisplayProperties2",
   "KHRGetPhysicalDeviceProperties2", "KHRGetSurfaceCapabilities2", "KHRSurface",
   "KHRWaylandSurface", "KHRWin32Surface", "KHRXcbSurface", "KHRXlibSurface",
   "MVKIosSurface", "MVKMacosSurface", "NNViSurface", "NVExternalMemoryCapabilities",
   "QNXScreenSurface"}
MCRecognized == UNION {c.features : c \in {Commands[n] : n \in DOMAIN Commands}} \ DOMAIN Number
MCExts == MCRecognized \ MCInstExts

\* The layer has two extensions, of which the driver lacks one.
MCClaims == [l \in Layers |-> {"EXTDebugMarker", "EXTValidationCache"}]
MCDriverExts == MCExts \ {"EXTDebugMarker", "KHRPerformanceQuery", "NVOpticalFlow"}

\* The generated tables agree on the command: it is of an instance or of a device
\* in both; its wrapper calls the next layer by the name of a command that is
\* listed, with that wrapper as its own, for the version or extension whose table
\* has the entry; and no command of lib.rs is left to a wrapper.
TablesAgree ==
  /\ DOMAIN InstanceCommandTable \cap DOMAIN DeviceCommandTable = {}
  /\ AlwaysHooked \cap DOMAIN (InstanceEntries @@ DeviceEntries) = {}
  /\ cmd \in DOMAIN Commands =>
       LET w == Commands[cmd].wrapper IN
       /\ w \in DOMAIN InstanceEntries => cmd \in DOMAIN InstanceCommandTable
       /\ w \in DOMAIN DeviceEntries => cmd \in DOMAIN DeviceCommandTable
       /\ w \in DOMAIN Commands /\ Commands[w].wrapper = w
       /\ w \in DOMAIN Entries /\ Entries[w] \in Commands[w].features
       /\ cmd \in AlwaysHooked <=> w \in DOMAIN GlobalEntries
=============================================================================
