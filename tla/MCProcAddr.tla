----------------------------- MODULE MCProcAddr -----------------------------
(* ProcAddr with three layers, for TLC: commands of a core version, of an  *)
(* extension or of two, hooked always or by choice. Layer 2 has the        *)
(* extension "layer" and layers 2 and 3 have "shared", as the driver has;  *)
(* "strange" is an extension of the driver no layer recognizes. One        *)
(* command has the wrapper of a core command, one is of a physical device, *)
(* and one is a device command of an extension of the instance.            *)
EXTENDS ProcAddrInv

MCExts == {"layer", "shared", "driver", "strange"}
MCRecognized == {"layer", "shared", "driver", "surface"}
MCClaims ==
  [l \in Layers |-> CASE l = 2 -> {"layer", "shared"} [] l = 3 -> {"shared"} [] OTHER -> {}]
MCDriverExts == {"shared", "driver", "strange"}
MCInstanceCmds == {"vkDestroySurfaceKHR", "vkEnumeratePhysicalDeviceGroups", "vkPhysicalDevice"}
MCDeviceCmds ==
  {"vkCmdDraw", "vkTrimCommandPool", "vkTrimCommandPoolKHR", "vkDestroyDevice", "vkLayer",
   "vkShared", "vkDriver", "vkCmdLabel"}

MCSince == [c \in Cmds |->
  CASE c \in {"vkCreateInstance", "vkDestroyDevice", "vkCmdDraw"} -> {10}
    [] c \in {"vkEnumeratePhysicalDeviceGroups", "vkTrimCommandPool"} -> {11}
    [] OTHER -> {}]
MCFrom == [c \in Cmds |->
  CASE c \in {"vkDestroySurfaceKHR", "vkCmdLabel"} -> {"surface"}
    [] c = "vkLayer" -> {"layer"}
    [] c \in {"vkShared", "vkPhysicalDevice"} -> {"shared", "driver"}
    [] c \in {"vkDriver", "vkTrimCommandPoolKHR"} -> {"driver"}
    [] c = "vkStrange" -> {"strange"}
    [] OTHER -> {}]
MCEntry == [c \in Cmds |->
  LET name == IF c = "vkTrimCommandPoolKHR" THEN "vkTrimCommandPool" ELSE c
  IN  [name |-> name, since |-> MCSince[name], from |-> MCFrom[name]]]
=============================================================================
