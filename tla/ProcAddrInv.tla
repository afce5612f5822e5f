---------------------------- MODULE ProcAddrInv -----------------------------
(* The inductive invariant of ProcAddr: what the dispatch tables of each   *)
(* layer lead to, and why its properties hold.                             *)
EXTENDS ProcAddr

\* Layers with a function of their own for a command.
LocalInstance(c) == {l \in Layers : LocalInstanceProc(c, l)}
LocalDevice(c) == {l \in Layers : LocalDeviceProc(c, l)}

\* The first member of L below layer l, or what the driver has if there is none.
FirstBelow(a, l, L, driver) ==
  \/ a \in L /\ l < a /\ \A k \in (l + 1)..(a - 1) : k \notin L
  \/ a = driver /\ \A k \in (l + 1)..N : k \notin L

\* Each layer is loaded after those below it, the instance before the device.
LoadOK ==
  /\ \E l \in 1..Driver : instUp = l..N
  /\ \E l \in 1..Driver : devUp = l..N
  /\ phase = "instance" => devUp = {}
  /\ phase # "instance" => instUp = Layers
  /\ phase = "call" /\ cmd \notin InstanceCmds => devUp = Layers /\ cmd \notin GlobalCmds

\* A table leads to the first layer below with a function of its own, which is
\* the one it had when the table was loaded.
TablesOK ==
  \A c \in Names :
    /\ \A l \in instUp :
         FirstBelow(instNext[c][l], l, LocalInstance(c), DriverInstanceProc(c))
    /\ \A l \in devUp :
         FirstBelow(devNext[c][l], l, LocalDevice(c), DriverDeviceProc(c))

\* A pointer the application has is the one it would be given now.
PointerOK ==
  /\ route = "none" => ptr = Null
  /\ route = "instance" => phase # "instance" /\ ptr = GetInstanceProcAddr(cmd, 1)
  /\ route = "device" => devUp = Layers /\ ptr = GetDeviceProcAddr(cmd, 1)

\* A layer lists the commands of its extensions, and the application asked for
\* extensions that somebody has.
ExtensionsOK ==
  /\ Owners(cmd) \cap instUp \subseteq anyHooks
  /\ Owners(cmd) \cap devUp \subseteq devHooks
  /\ devExts \subseteq Supported

\* No layer or driver has a feature of the device command.
Unavailable ==
  /\ cmd \in DeviceCmds
  /\ \A v \in Since[cmd] : v > api /\ v > pdApi
  /\ Owners(cmd) = {} /\ From[cmd] \cap (DriverExts \cup instExts) = {}

UnavailableOK == Unavailable => \A l \in Layers : instNext[cmd][l] = Null

\* A call finds no entry only if the feature of the entry's table is not enabled.
WalkOK == phase = "call" /\ TableEnabled => at # Null

\* A pointer and every table lead to the next layer that intercepts the command,
\* from the time the table is loaded and until the call is served.
ProcInv ==
  /\ TypeOK /\ LoadOK /\ TablesOK /\ PointerOK /\ ExtensionsOK /\ UnavailableOK
  /\ WalkOK /\ NoLayerSkipped
=============================================================================
