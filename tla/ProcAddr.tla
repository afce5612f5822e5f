------------------------------ MODULE ProcAddr ------------------------------
(***************************************************************************)
(* vkGetInstanceProcAddr and vkGetDeviceProcAddr through a chain of layers *)
(* that are all built on Global<T>, the dispatch tables that are loaded    *)
(* with them, and a call through a pointer they gave.                      *)
(*                                                                         *)
(* Layer 1 is the one the application calls, layer N calls the driver. A   *)
(* function pointer is the layer that has the function, Driver, or Null.   *)
(* Commands do not depend on each other, so a behaviour follows one of     *)
(* them, by its name and by the name of the entry its wrapper calls: a     *)
(* command that was promoted has several names and one wrapper. The chain  *)
(* serves one instance, then one device on it; a layer takes part with its *)
(* CreateDevice not intercepted (LayerChain has that), and its hooks       *)
(* decline every query and every call but those of an extension it has for *)
(* itself.                                                                 *)
(***************************************************************************)
EXTENDS Naturals

CONSTANTS
  N,             \* the number of layers
  Exts,          \* device extensions
  InstExts,      \* instance extensions
  Recognized,    \* the extensions the enum Extension has
  Claims,        \* LayerManifest::device_extensions of each layer
  DriverExts,    \* device extensions of the driver
  Versions,      \* core API versions, in their order
  GlobalCmds,    \* names answered before all else
  InstanceCmds,  \* names in create_instance_commands
  DeviceCmds,    \* names in create_device_commands
  OtherCmds,     \* device commands of the driver no layer knows
  Since,         \* the core versions that have each command
  From,          \* the extensions that have each command
  Entry,         \* what the wrapper of each command calls: the name of the
                 \* entry, and the version or extension of its dispatch table
  Always         \* commands that are hooked whatever the layer asks for

Layers == 1..N
Driver == N + 1
Null == 0
Cmds == GlobalCmds \cup InstanceCmds \cup DeviceCmds \cup OtherCmds

\* The layers whose extension a command is of.
Owners(c) == {l \in Layers : From[c] \cap Claims[l] # {}}

ASSUME ProcAddrAssumption ==
  /\ N \in Nat \ {0}
  /\ Versions \subseteq Nat
  /\ Recognized \subseteq Exts \cup InstExts
  /\ Claims \in [Layers -> SUBSET (Recognized \cap Exts)]
  /\ DriverExts \subseteq Exts
  /\ Since \in [Cmds -> SUBSET Versions]
  /\ From \in [Cmds -> SUBSET (Exts \cup InstExts)]
  /\ \A c \in InstanceCmds \cup DeviceCmds : From[c] \subseteq Recognized
  /\ \A c \in OtherCmds : From[c] \subseteq Exts \ Recognized
  /\ Entry \in [Cmds -> [name : Cmds, since : SUBSET Versions, from : SUBSET (Exts \cup InstExts)]]
  /\ \A S \in {GlobalCmds, InstanceCmds, DeviceCmds, OtherCmds}, c \in Cmds :
       /\ c \in S => Entry[c].name \in S
       /\ Entry[Entry[c].name] = Entry[c]
  /\ InstanceCmds \cap (DeviceCmds \cup OtherCmds) = {}
  /\ GlobalCmds \cap (InstanceCmds \cup DeviceCmds) = {}
  /\ \A c \in Cmds :
       /\ Entry[c].since \subseteq Since[Entry[c].name]
       /\ Entry[c].from \subseteq From[Entry[c].name]
       /\ c \in Always => Entry[c].name \in Always

\* The wrapper that several commands share is that of a core command or, for
\* commands of a device, of an extension of the device.
ASSUME AliasAssumption ==
  \A c \in Cmds : LET e == Entry[c].name IN
    e # c => From[e] \cap InstExts = {} /\ (c \in InstanceCmds => From[e] = {})

VARIABLES
  cmd,        \* the command that is followed
  api,        \* the API version of the instance
  pdApi,      \* the API version of the physical device
  instExts,   \* the extensions the instance was created with
  devExts,    \* the extensions the application asks of the device
  instHooks,  \* layers that have cmd in hooked_instance_commands
  anyHooks,   \* layers that have it in hooked_device_commands(.., None)
  devHooks,   \* layers that have it in hooked_device_commands(.., Some(..))
  instUp,     \* layers that registered the instance
  devUp,      \* layers that registered the device
  instNext,   \* the answer of the layer below to vkGetInstanceProcAddr, which
              \* the instance's table has, for cmd and the entry of its wrapper
  devNext,    \* its answer to vkGetDeviceProcAddr, in the device's table
  phase,      \* "instance", "idle", "device", or "call"
  route,      \* which of the two commands gave the pointer
  ptr,        \* the pointer the application has
  at,         \* the layer a call is in
  visited     \* the layers it went through

config == <<cmd, api, pdApi, instExts>>
hooks == <<instHooks, anyHooks, devHooks>>
tables == <<instUp, devUp, instNext, devNext>>
asked == <<route, ptr>>
walk == <<at, visited>>
vars == <<config, devExts, hooks, tables, phase, asked, walk>>

Names == {cmd, Entry[cmd].name}

\* Whatever does not have the command under one of its names makes no difference.
Relevant == UNION {From[c] : c \in Names}
Milestones ==
  (UNION {Since[c] : c \in Names}) \cup {v \in Versions : \A w \in Versions : v <= w}

TypeOK ==
  /\ cmd \in Cmds
  /\ api \in Versions /\ pdApi \in Versions
  /\ instExts \in SUBSET InstExts /\ devExts \in SUBSET Exts
  /\ instHooks \in SUBSET Layers /\ anyHooks \in SUBSET Layers
  /\ devHooks \in SUBSET anyHooks
  /\ instUp \in SUBSET Layers /\ devUp \in SUBSET instUp
  /\ instNext \in [Names -> [Layers -> 0..Driver]]
  /\ devNext \in [Names -> [Layers -> 0..Driver]]
  /\ phase \in {"instance", "idle", "device", "call"}
  /\ route \in {"none", "instance", "device"}
  /\ ptr \in 0..Driver
  /\ at \in 0..Driver
  /\ visited \in SUBSET Layers

Init ==
  /\ cmd \in Cmds
  /\ api \in Milestones /\ pdApi \in Milestones
  /\ instExts \in SUBSET (InstExts \cap Relevant)
  /\ devExts = {}
  /\ instHooks = {} /\ anyHooks = {} /\ devHooks = {}
  /\ instUp = {} /\ devUp = {}
  /\ instNext = [c \in Names |-> [l \in Layers |-> Null]]
  /\ devNext = [c \in Names |-> [l \in Layers |-> Null]]
  /\ phase = "instance"
  /\ route = "none" /\ ptr = Null
  /\ at = Null /\ visited = {}

-----------------------------------------------------------------------------
(* What is enabled where.                                                  *)

\* is_command_enabled: one feature of the command is enough.
IsCommandEnabled(c, version, extensions) ==
  \/ \E v \in Since[c] : v <= version
  \/ From[c] \cap extensions # {}

\* api_version of DeviceInfoWrapper.
DeviceApi == IF pdApi < api THEN pdApi ELSE api

\* ppEnabledExtensionNames as a layer or the driver gets it: each layer above
\* kept what its manifest has.
AskedOf(l) == {e \in devExts : \A k \in Layers : k < l => e \notin Claims[k]}

\* Mutant: the list that is passed on.
EnabledIsPassedOn(l) == AskedOf(l + 1) \cap Recognized

\* enabled_extensions of DeviceInfoWrapper: the list the layer was given.
EnabledExtensions(l) == AskedOf(l) \cap Recognized

-----------------------------------------------------------------------------
(* The two commands. The pointer the layer below gives is asked for again  *)
(* in the code; it is the one that was put in the dispatch table.          *)

\* A physical device has extensions of the device too, before there is one.
DriverInstanceProc(c) ==
  IF \/ c \in InstanceCmds /\ IsCommandEnabled(c, api, instExts \cup DriverExts)
     \/ c \in DeviceCmds \cup OtherCmds /\ IsCommandEnabled(c, pdApi, instExts \cup DriverExts)
    THEN Driver ELSE Null

DriverDeviceProc(c) ==
  IF /\ c \in DeviceCmds \cup OtherCmds
     /\ IsCommandEnabled(c, DeviceApi, AskedOf(Driver) \cup instExts)
    THEN Driver ELSE Null

\* Mutant: a device command counts as available only when the layer has it.
LocalIfOwn(c, l) ==
  \/ c \in GlobalCmds
  \/ l \in instUp /\ c \in InstanceCmds /\ (l \in instHooks \/ c \in Always)
       /\ IsCommandEnabled(c, api, instExts \cap Recognized)
  \/ l \in instUp /\ c \in DeviceCmds /\ (l \in anyHooks \/ c \in Always)
       /\ IsCommandEnabled(c, api, Claims[l])

\* When get_instance_proc_addr answers with the layer's own function. A device
\* command is available if the layer has it, or if one below does.
LocalInstanceProc(c, l) ==
  \/ c \in GlobalCmds
  \/ l \in instUp /\ c \in InstanceCmds /\ (l \in instHooks \/ c \in Always)
       /\ IsCommandEnabled(c, api, instExts \cap Recognized)
  \/ l \in instUp /\ c \in DeviceCmds /\ (l \in anyHooks \/ c \in Always)
       /\ (IsCommandEnabled(c, api, Claims[l]) \/ instNext[c][l] # Null)

\* An instance the layer does not know has no other commands.
GetInstanceProcAddr(c, l) ==
  IF l = Driver THEN DriverInstanceProc(c)
  ELSE IF LocalInstanceProc(c, l) THEN l
  ELSE IF l \in instUp THEN instNext[c][l] ELSE Null

\* Mutant: what is hooked is answered, enabled or not.
LocalDeviceIfHooked(c, l) ==
  /\ l \in devUp
  /\ c \in DeviceCmds
  /\ l \in devHooks \/ c \in Always

\* When get_device_proc_addr does.
LocalDeviceProc(c, l) ==
  /\ l \in devUp
  /\ c \in DeviceCmds
  /\ IsCommandEnabled(c, DeviceApi, EnabledExtensions(l))
  /\ l \in devHooks \/ c \in Always

GetDeviceProcAddr(c, l) ==
  IF l = Driver THEN DriverDeviceProc(c)
  ELSE IF LocalDeviceProc(c, l) THEN l
  ELSE IF l \in devUp THEN devNext[c][l] ELSE Null

-----------------------------------------------------------------------------
(* The chain is built from the driver up.                                  *)

\* Whether the layer lists the command, as the set of it or of none.
HookedInstanceCommands(l) == SUBSET {l}

\* It lists the commands of its own extensions. What it lists for a device it
\* also lists without one: Layer::hooked_device_commands asks that of it.
HookedDeviceCommands(l, possible) ==
  {H \in SUBSET (possible \cap {l}) : l \in Owners(cmd) => H = {l}}

\* The end of create_instance in a layer.
LoadInstance(l) ==
  /\ phase = "instance"
  /\ instUp = (l + 1)..N
  /\ instUp' = instUp \cup {l}
  /\ instNext' = [c \in Names |-> [instNext[c] EXCEPT ![l] = GetInstanceProcAddr(c, l + 1)]]
  /\ \E H \in HookedInstanceCommands(l) : instHooks' = instHooks \cup H
  /\ \E H \in HookedDeviceCommands(l, Layers) : anyHooks' = anyHooks \cup H
  /\ phase' = IF l = 1 THEN "idle" ELSE "instance"
  /\ UNCHANGED <<config, devExts, devHooks, devUp, devNext, asked, walk>>

\* Mutant: a device on an instance that a layer has not registered yet.
CreateDeviceEarly ==
  /\ phase \in {"instance", "idle"}
  /\ devUp = {}
  /\ \E E \in SUBSET (Exts \cap Relevant) :
       /\ devExts' = E
       /\ \A e \in E : e \in DriverExts \/ \E l \in Layers : e \in Claims[l]
  /\ phase' = "device"
  /\ UNCHANGED <<config, hooks, tables, asked, walk>>

\* The driver refuses what it does not have.
CreateDevice ==
  /\ phase = "idle"
  /\ devUp = {}
  /\ \E E \in SUBSET (Exts \cap Relevant) :
       /\ devExts' = E
       /\ \A e \in E : e \in DriverExts \/ \E l \in Layers : e \in Claims[l]
  /\ phase' = "device"
  /\ UNCHANGED <<config, hooks, tables, asked, walk>>

\* The end of create_device.
LoadDevice(l) ==
  /\ phase = "device"
  /\ devUp = (l + 1)..N
  /\ devUp' = devUp \cup {l}
  /\ devNext' = [c \in Names |-> [devNext[c] EXCEPT ![l] = GetDeviceProcAddr(c, l + 1)]]
  /\ \E H \in HookedDeviceCommands(l, anyHooks) : devHooks' = devHooks \cup H
  /\ phase' = IF l = 1 THEN "idle" ELSE "device"
  /\ UNCHANGED <<config, devExts, instHooks, anyHooks, instUp, instNext, asked, walk>>

-----------------------------------------------------------------------------
(* The application asks for a pointer, and calls through it.               *)

AskInstance ==
  /\ phase = "idle"
  /\ route' = "instance"
  /\ ptr' = GetInstanceProcAddr(cmd, 1)
  /\ UNCHANGED <<config, devExts, hooks, tables, phase, walk>>

AskDevice ==
  /\ phase = "idle"
  /\ devUp = Layers
  /\ route' = "device"
  /\ ptr' = GetDeviceProcAddr(cmd, 1)
  /\ UNCHANGED <<config, devExts, hooks, tables, phase, walk>>

\* The extensions that some layer or the driver has for the device.
Supported == DriverExts \cup UNION {Claims[l] : l \in Layers}

\* Valid usage: the version or an extension the application enabled has it, or,
\* for a command of the physical device, an extension that device supports.
Usable ==
  IF cmd \in InstanceCmds THEN IsCommandEnabled(cmd, api, instExts \cup Supported)
  ELSE /\ devUp = Layers /\ cmd \notin GlobalCmds
       /\ IsCommandEnabled(cmd, DeviceApi, devExts \cup instExts)

Call ==
  /\ phase = "idle"
  /\ Usable
  /\ ptr # Null
  /\ at' = ptr
  /\ visited' = {}
  /\ phase' = "call"
  /\ UNCHANGED <<config, devExts, hooks, tables, asked>>

\* A wrapper: the hook handles the call if the extension is the layer's own and
\* no layer above has it; else it declines, and the table has the next one. An
\* entry the layer below did not answer ends the process: there is no next step.
Serve ==
  /\ phase = "call"
  /\ at \in Layers
  /\ visited' = visited \cup {at}
  /\ IF at \in Owners(cmd) /\ cmd \in DeviceCmds
          /\ From[cmd] \cap AskedOf(at) \cap Claims[at] # {}
       THEN at' = Null /\ phase' = "idle"
       ELSE /\ at' = IF cmd \in InstanceCmds THEN instNext[Entry[cmd].name][at]
                     ELSE devNext[Entry[cmd].name][at]
            /\ UNCHANGED phase
  /\ UNCHANGED <<config, devExts, hooks, tables, asked>>

DriverServes ==
  /\ phase = "call"
  /\ at = Driver
  /\ at' = Null
  /\ phase' = "idle"
  /\ UNCHANGED <<config, devExts, hooks, tables, asked, visited>>

Next ==
  \/ \E l \in Layers : LoadInstance(l) \/ LoadDevice(l)
  \/ CreateDevice \/ AskInstance \/ AskDevice \/ Call \/ Serve \/ DriverServes

Spec == Init /\ [][Next]_vars

-----------------------------------------------------------------------------
(* What is correct.                                                        *)

\* The call is of a command that is enabled where it belongs: an extension of the
\* instance for a command of the instance or of a physical device, one of the
\* device for a command of the device.
EnabledInPlace ==
  IF cmd \in InstanceCmds THEN IsCommandEnabled(cmd, api, instExts \cap InstExts)
  ELSE IsCommandEnabled(cmd, DeviceApi, devExts)

\* The next layer has the version or the extension whose table the wrapper uses.
TableEnabled ==
  IF cmd \in InstanceCmds
    THEN (\E v \in Entry[cmd].since : v <= api) \/ Entry[cmd].from \cap (instExts \cup DriverExts) # {}
    ELSE \/ \E v \in Entry[cmd].since : v <= DeviceApi
         \/ Entry[cmd].from \cap (AskedOf(Driver) \cup instExts) # {}

\* Whether a layer has to see a call: it hooks the command on this instance or
\* device, and what enables it was asked of this layer too.
Intercepts(l) ==
  IF cmd \in InstanceCmds
    THEN /\ l \in instHooks \/ cmd \in Always
         /\ IsCommandEnabled(cmd, api, instExts)
    ELSE /\ cmd \in DeviceCmds
         /\ l \in devHooks \/ cmd \in Always
         /\ IsCommandEnabled(cmd, DeviceApi, AskedOf(l))

\* A call that is below a layer went through it if it had to, whichever command
\* the pointer is from, and were it asked for before the device existed.
NoLayerSkipped ==
  phase = "call" /\ at # Null =>
    \A l \in Layers : l < at /\ Intercepts(l) => l \in visited

\* A command the application may use has a pointer, and a call through it finds
\* one in every table on its way until a layer or the driver serves it.
NeverDeadEnd ==
  /\ phase = "call" /\ TableEnabled => at # Null
  /\ route = "device" /\ Usable /\ EnabledInPlace /\ cmd \notin InstanceCmds => ptr # Null
  /\ route = "instance" /\ Usable /\ EnabledInPlace => ptr # Null

\* LLP_LAYER_18: a command that is not enabled is not answered, so that the
\* application can tell.
DisabledIsNull ==
  /\ route = "device" /\ ~ IsCommandEnabled(cmd, DeviceApi, devExts \cup instExts) => ptr = Null
  /\ route = "instance" /\ cmd \in InstanceCmds /\ ~ Usable => ptr = Null
  /\ route = "instance" /\ cmd \in DeviceCmds
       /\ (\A v \in Since[cmd] : v > api /\ v > pdApi)
       /\ Owners(cmd) = {} /\ From[cmd] \cap (DriverExts \cup instExts) = {} => ptr = Null

\* The doc of LayerResult: "if LayerResult::Unhandled is returned, the layer
\* framework will call into the next layer call chain with the original
\* parameters".
UnhandledCallsNext == phase = "call" => at # Null

\* The docs of the two commands: "the layer implementation doesn't have to take
\* care of whether the command is enabled", and "only needs to use the interfaces
\* to express the intent".
IntentIsEnough ==
  phase = "call" /\ at # Null =>
    \A l \in IF cmd \in InstanceCmds THEN instHooks ELSE devHooks :
      l < at => l \in visited
=============================================================================
