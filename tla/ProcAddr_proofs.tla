--------------------------- MODULE ProcAddr_proofs ---------------------------
(* The invariant of ProcAddrInv is inductive, and what ProcAddr promises   *)
(* of pointers and of calls through them follows from it, for any number   *)
(* of layers, any commands, extensions and versions, and any tables that   *)
(* agree as the assumptions have it.                                       *)
(*                                                                         *)
(* A table that is loaded leads to the first layer below that has a        *)
(* function of its own, so that no induction along the chain is needed:    *)
(* that of the steps that load the tables, from the driver up, is enough.  *)
EXTENDS ProcAddrInv, WellFoundedInduction, TLAPS

-----------------------------------------------------------------------------
(* The operators.                                                          *)

\* The names a behaviour follows are commands of the same kind.
LEMMA NamesFacts ==
  ASSUME cmd \in Cmds
  PROVE  /\ Names \subseteq Cmds /\ cmd \in Names /\ Entry[cmd].name \in Names
         /\ \A c \in Names :
              /\ cmd \in InstanceCmds =>
                   c \in InstanceCmds /\ c \notin GlobalCmds \cup DeviceCmds \cup OtherCmds
              /\ cmd \in DeviceCmds => c \in DeviceCmds /\ c \notin InstanceCmds \cup GlobalCmds
              /\ cmd \in OtherCmds => c \in OtherCmds
              /\ cmd \in Always => c \in Always
<1>1. Entry[cmd].name \in Cmds
  BY ProcAddrAssumption
<1>2. Names \subseteq Cmds /\ cmd \in Names /\ Entry[cmd].name \in Names
  BY <1>1 DEF Names
<1>3. /\ cmd \in InstanceCmds => Entry[cmd].name \in InstanceCmds
      /\ cmd \in DeviceCmds => Entry[cmd].name \in DeviceCmds
      /\ cmd \in OtherCmds => Entry[cmd].name \in OtherCmds
      /\ cmd \in Always => Entry[cmd].name \in Always
  BY ProcAddrAssumption
<1>4. /\ InstanceCmds \cap (DeviceCmds \cup OtherCmds) = {}
      /\ GlobalCmds \cap (InstanceCmds \cup DeviceCmds) = {}
  BY ProcAddrAssumption
<1> QED
  BY <1>2, <1>3, <1>4 DEF Names

\* What a command is of: versions, and extensions that a layer recognizes if it
\* lists the command.
LEMMA FeatureFacts ==
  ASSUME NEW c \in Cmds
  PROVE  /\ Since[c] \subseteq Versions /\ Versions \subseteq Nat
         /\ From[c] \subseteq Exts \cup InstExts
         /\ c \in InstanceCmds \cup DeviceCmds => From[c] \subseteq Recognized
         /\ c \in OtherCmds => From[c] \cap Recognized = {}
BY ProcAddrAssumption

\* What an extension list enables, a longer one and a later version do too.
LEMMA EnabledMonotonic ==
  ASSUME NEW c \in Cmds, NEW v \in Nat, NEW w \in Nat, v <= w, NEW E, NEW F,
         From[c] \cap E \subseteq F, IsCommandEnabled(c, v, E)
  PROVE  IsCommandEnabled(c, w, F)
<1>1. Since[c] \subseteq Nat
  BY FeatureFacts
<1> QED
  BY <1>1 DEF IsCommandEnabled

\* The list of a device shrinks on its way down.
LEMMA AskedShrinks ==
  ASSUME NEW k \in 1..Driver, NEW l \in 1..Driver, k <= l
  PROVE  AskedOf(l) \subseteq AskedOf(k) /\ AskedOf(l) \subseteq devExts
BY ProcAddrAssumption DEF AskedOf, Layers, Driver

-----------------------------------------------------------------------------
(* The first layer below that has a function of its own.                   *)

\* Going on from a layer that has none.
LEMMA FirstFromAbove ==
  ASSUME NEW L \in SUBSET Layers, NEW l \in Layers, l \notin L, NEW a, NEW d,
         FirstBelow(a, l, L, d)
  PROVE  FirstBelow(a, l - 1, L, d)
<1>1. l \in 1..N /\ l \in Int /\ N \in Nat
  BY ProcAddrAssumption DEF Layers
<1>2. CASE a \in L /\ l < a /\ \A k \in (l + 1)..(a - 1) : k \notin L
  <2>1. a \in Int
    BY <1>2 DEF Layers
  <2>2. \A k \in l..(a - 1) : k = l \/ k \in (l + 1)..(a - 1)
    BY <1>1, <2>1
  <2>3. \A k \in (l - 1 + 1)..(a - 1) : k \notin L
    BY <1>1, <1>2, <2>1, <2>2
  <2> QED
    BY <1>1, <1>2, <2>1, <2>3 DEF FirstBelow
<1>3. CASE a = d /\ \A k \in (l + 1)..N : k \notin L
  <2>1. \A k \in (l - 1 + 1)..N : k \notin L
    BY <1>1, <1>3
  <2> QED
    BY <1>3, <2>1 DEF FirstBelow
<1> QED
  BY <1>2, <1>3 DEF FirstBelow

\* Only the layers below matter.
LEMMA FirstDependsOnBelow ==
  ASSUME NEW L \in SUBSET Layers, NEW M \in SUBSET Layers, NEW l \in Nat, NEW a, NEW d,
         \A k \in (l + 1)..N : k \in L <=> k \in M,
         FirstBelow(a, l, L, d)
  PROVE  FirstBelow(a, l, M, d)
<1>1. N \in Nat /\ Layers = 1..N
  BY ProcAddrAssumption DEF Layers
<1>2. CASE a \in L /\ l < a /\ \A k \in (l + 1)..(a - 1) : k \notin L
  <2>1. a \in 1..N
    BY <1>1, <1>2
  <2>2. a \in M /\ \A k \in (l + 1)..(a - 1) : k \notin M
    BY <1>1, <1>2, <2>1
  <2> QED
    BY <1>2, <2>2 DEF FirstBelow
<1>3. CASE a = d /\ \A k \in (l + 1)..N : k \notin L
  BY <1>3 DEF FirstBelow
<1> QED
  BY <1>2, <1>3 DEF FirstBelow

\* The driver answers or not.
LEMMA DriverFacts ==
  ASSUME NEW c
  PROVE  DriverInstanceProc(c) \in {Driver, Null} /\ DriverDeviceProc(c) \in {Driver, Null}
BY DEF DriverInstanceProc, DriverDeviceProc

\* What a layer answers leads as its table does.
LEMMA AnswerIsFirst ==
  ASSUME ProcInv, NEW c \in Names, NEW l \in Layers
  PROVE  /\ l \in instUp =>
              FirstBelow(GetInstanceProcAddr(c, l), l - 1, LocalInstance(c), DriverInstanceProc(c))
         /\ l \in devUp =>
              FirstBelow(GetDeviceProcAddr(c, l), l - 1, LocalDevice(c), DriverDeviceProc(c))
<1>1. l \in Int /\ l # Driver /\ N \in Nat /\ Layers = 1..N
  BY ProcAddrAssumption DEF Layers, Driver
<1>2. LocalInstance(c) \in SUBSET Layers /\ LocalDevice(c) \in SUBSET Layers
  BY DEF LocalInstance, LocalDevice
<1>3. ASSUME l \in instUp
      PROVE  FirstBelow(GetInstanceProcAddr(c, l), l - 1, LocalInstance(c), DriverInstanceProc(c))
  <2>1. CASE LocalInstanceProc(c, l)
    <3>1. GetInstanceProcAddr(c, l) = l /\ l \in LocalInstance(c)
      BY <1>1, <2>1 DEF GetInstanceProcAddr, LocalInstance
    <3>2. l - 1 < l /\ (l - 1 + 1)..(l - 1) = {}
      BY <1>1
    <3> QED
      BY <3>1, <3>2 DEF FirstBelow
  <2>2. CASE ~ LocalInstanceProc(c, l)
    <3>1. GetInstanceProcAddr(c, l) = instNext[c][l] /\ l \notin LocalInstance(c)
      BY <1>1, <1>3, <2>2 DEF GetInstanceProcAddr, LocalInstance
    <3>2. FirstBelow(instNext[c][l], l, LocalInstance(c), DriverInstanceProc(c))
      BY <1>3 DEF ProcInv, TablesOK
    <3> QED
      BY <1>2, <3>1, <3>2, FirstFromAbove
  <2> QED
    BY <2>1, <2>2
<1>4. ASSUME l \in devUp
      PROVE  FirstBelow(GetDeviceProcAddr(c, l), l - 1, LocalDevice(c), DriverDeviceProc(c))
  <2>1. CASE LocalDeviceProc(c, l)
    <3>1. GetDeviceProcAddr(c, l) = l /\ l \in LocalDevice(c)
      BY <1>1, <2>1 DEF GetDeviceProcAddr, LocalDevice
    <3>2. l - 1 < l /\ (l - 1 + 1)..(l - 1) = {}
      BY <1>1
    <3> QED
      BY <3>1, <3>2 DEF FirstBelow
  <2>2. CASE ~ LocalDeviceProc(c, l)
    <3>1. GetDeviceProcAddr(c, l) = devNext[c][l] /\ l \notin LocalDevice(c)
      BY <1>1, <1>4, <2>2 DEF GetDeviceProcAddr, LocalDevice
    <3>2. FirstBelow(devNext[c][l], l, LocalDevice(c), DriverDeviceProc(c))
      BY <1>4 DEF ProcInv, TablesOK
    <3> QED
      BY <1>2, <3>1, <3>2, FirstFromAbove
  <2> QED
    BY <2>1, <2>2
<1> QED
  BY <1>3, <1>4

\* The driver's answer leads to the driver from the last layer.
LEMMA DriverIsFirst ==
  ASSUME NEW c, NEW L, NEW M
  PROVE  /\ FirstBelow(GetInstanceProcAddr(c, Driver), N, L, DriverInstanceProc(c))
         /\ FirstBelow(GetDeviceProcAddr(c, Driver), N, M, DriverDeviceProc(c))
<1>1. (N + 1)..N = {}
  BY ProcAddrAssumption
<1> QED
  BY <1>1 DEF FirstBelow, GetInstanceProcAddr, GetDeviceProcAddr

\* Whatever it is, the answer is a layer, the driver or Null.
LEMMA AnswerType ==
  ASSUME TypeOK, NEW c \in Names, NEW l \in 1..Driver
  PROVE  GetInstanceProcAddr(c, l) \in 0..Driver /\ GetDeviceProcAddr(c, l) \in 0..Driver
<1>1. N \in Nat /\ Driver = N + 1 /\ Null = 0 /\ Layers = 1..N
  BY ProcAddrAssumption DEF Driver, Null, Layers
<1>2. l # Driver => instNext[c][l] \in 0..Driver /\ devNext[c][l] \in 0..Driver
  BY <1>1 DEF TypeOK
<1> QED
  BY <1>1, <1>2, DriverFacts DEF GetInstanceProcAddr, GetDeviceProcAddr

-----------------------------------------------------------------------------
(* Steps that leave the tables alone.                                      *)

\* What a layer has for an instance depends on its own table and hooks.
LEMMA SameLocalInstance ==
  ASSUME UNCHANGED <<api, instExts>>, NEW c, NEW l,
         l \in instUp' <=> l \in instUp, l \in instHooks' <=> l \in instHooks,
         l \in anyHooks' <=> l \in anyHooks, instNext'[c][l] = instNext[c][l]
  PROVE  LocalInstanceProc(c, l)' <=> LocalInstanceProc(c, l)
BY DEF LocalInstanceProc

\* What it has for a device, on its hooks and on the extensions of the device.
LEMMA SameLocalDevice ==
  ASSUME UNCHANGED <<api, pdApi, devExts>>, NEW c, NEW l,
         l \in devUp' <=> l \in devUp, l \in devHooks' <=> l \in devHooks
  PROVE  LocalDeviceProc(c, l)' <=> LocalDeviceProc(c, l)
<1>1. DeviceApi' = DeviceApi /\ EnabledExtensions(l)' = EnabledExtensions(l)
  BY DEF DeviceApi, EnabledExtensions, AskedOf
<1> QED
  BY <1>1 DEF LocalDeviceProc

\* The driver's answers depend on what was created.
LEMMA SameDriver ==
  ASSUME UNCHANGED <<api, pdApi, instExts>>, NEW c
  PROVE  /\ DriverInstanceProc(c)' = DriverInstanceProc(c)
         /\ devExts' = devExts => DriverDeviceProc(c)' = DriverDeviceProc(c)
<1>1. DeviceApi' = DeviceApi /\ (devExts' = devExts => AskedOf(Driver)' = AskedOf(Driver))
  BY DEF DeviceApi, AskedOf
<1>2. DriverInstanceProc(c)' = DriverInstanceProc(c)
  BY DEF DriverInstanceProc
<1>3. devExts' = devExts => DriverDeviceProc(c)' = DriverDeviceProc(c)
  BY <1>1 DEF DriverDeviceProc
<1> QED
  BY <1>2, <1>3

\* While the tables of the instance stay, so does all that is read from them.
LEMMA SameInstance ==
  ASSUME UNCHANGED <<config, instUp, instHooks, anyHooks, instNext>>, NEW c
  PROVE  /\ LocalInstance(c)' = LocalInstance(c)
         /\ DriverInstanceProc(c)' = DriverInstanceProc(c)
         /\ \A l \in 1..Driver : GetInstanceProcAddr(c, l)' = GetInstanceProcAddr(c, l)
<1>1. UNCHANGED <<cmd, api, pdApi, instExts>>
  BY DEF config
<1>2. \A l \in 1..Driver : LocalInstanceProc(c, l)' <=> LocalInstanceProc(c, l)
  BY <1>1, SameLocalInstance
<1>3. LocalInstance(c)' = LocalInstance(c)
  <2>1. \A l \in Layers : l \in 1..Driver
    BY ProcAddrAssumption DEF Layers, Driver
  <2> QED
    BY <1>2, <2>1 DEF LocalInstance
<1>4. DriverInstanceProc(c)' = DriverInstanceProc(c)
  BY <1>1, SameDriver
<1>5. ASSUME NEW l \in 1..Driver
      PROVE  GetInstanceProcAddr(c, l)' = GetInstanceProcAddr(c, l)
  BY <1>2, <1>4 DEF GetInstanceProcAddr
<1> QED
  BY <1>3, <1>4, <1>5

\* And so for those of the device.
LEMMA SameDevice ==
  ASSUME UNCHANGED <<config, devExts, devUp, devHooks, devNext>>, NEW c
  PROVE  /\ LocalDevice(c)' = LocalDevice(c)
         /\ DriverDeviceProc(c)' = DriverDeviceProc(c)
         /\ \A l \in 1..Driver : GetDeviceProcAddr(c, l)' = GetDeviceProcAddr(c, l)
<1>1. UNCHANGED <<cmd, api, pdApi, instExts>>
  BY DEF config
<1>2. \A l \in 1..Driver : LocalDeviceProc(c, l)' <=> LocalDeviceProc(c, l)
  BY <1>1, SameLocalDevice
<1>3. LocalDevice(c)' = LocalDevice(c)
  <2>1. \A l \in Layers : l \in 1..Driver
    BY ProcAddrAssumption DEF Layers, Driver
  <2> QED
    BY <1>2, <2>1 DEF LocalDevice
<1>4. DriverDeviceProc(c)' = DriverDeviceProc(c)
  BY <1>1, SameDriver
<1>5. ASSUME NEW l \in 1..Driver
      PROVE  GetDeviceProcAddr(c, l)' = GetDeviceProcAddr(c, l)
  BY <1>2, <1>4 DEF GetDeviceProcAddr
<1> QED
  BY <1>3, <1>4, <1>5

\* What the properties ask of a command does not change while a device exists.
LEMMA SameFeatures ==
  ASSUME UNCHANGED <<config, devExts>>
  PROVE  /\ Names' = Names /\ TableEnabled' = TableEnabled
         /\ Unavailable' = Unavailable /\ DeviceApi' = DeviceApi
         /\ \A l : AskedOf(l)' = AskedOf(l)
<1>1. UNCHANGED <<cmd, api, pdApi, instExts>>
  BY DEF config
<1>2. DeviceApi' = DeviceApi /\ AskedOf(Driver)' = AskedOf(Driver) /\ \A l : AskedOf(l)' = AskedOf(l)
  BY <1>1 DEF DeviceApi, AskedOf
<1>3. TableEnabled' = TableEnabled
  BY <1>1, <1>2 DEF TableEnabled
<1>4. Names' = Names /\ Unavailable' = Unavailable
  BY <1>1 DEF Names, Unavailable
<1> QED
  BY <1>2, <1>3, <1>4

\* Whether a layer intercepts the command, neither.
LEMMA SameIntercepts ==
  ASSUME UNCHANGED <<config, devExts, instHooks, devHooks>>, NEW l
  PROVE  Intercepts(l)' <=> Intercepts(l)
<1>1. UNCHANGED <<cmd, api, instExts>>
  BY DEF config
<1>2. DeviceApi' = DeviceApi /\ AskedOf(l)' = AskedOf(l)
  BY SameFeatures
<1> QED
  BY <1>1, <1>2 DEF Intercepts

\* A step that is not about the tables keeps what the invariant says of them.
LEMMA KeptTables ==
  ASSUME ProcInv, UNCHANGED <<config, devExts, hooks, tables>>
  PROVE  TablesOK' /\ ExtensionsOK' /\ UnavailableOK'
<1>1. UNCHANGED <<cmd, api, pdApi, instExts, instHooks, anyHooks, devHooks,
                  instUp, devUp, instNext, devNext, devExts>>
  BY DEF config, hooks, tables
<1>2. Names' = Names /\ Unavailable' = Unavailable
  BY SameFeatures
<1>t. TablesOK'
  <2>1. ASSUME NEW c \in Names
        PROVE  /\ LocalInstance(c)' = LocalInstance(c) /\ LocalDevice(c)' = LocalDevice(c)
               /\ DriverInstanceProc(c)' = DriverInstanceProc(c)
               /\ DriverDeviceProc(c)' = DriverDeviceProc(c)
    BY <1>1, SameInstance, SameDevice
  <2>2. ASSUME NEW c \in Names, NEW l \in instUp
        PROVE  FirstBelow(instNext[c][l], l, LocalInstance(c), DriverInstanceProc(c))'
    BY <1>1, <2>1 DEF ProcInv, TablesOK, FirstBelow
  <2>3. ASSUME NEW c \in Names, NEW l \in devUp
        PROVE  FirstBelow(devNext[c][l], l, LocalDevice(c), DriverDeviceProc(c))'
    BY <1>1, <2>1 DEF ProcInv, TablesOK, FirstBelow
  <2> QED
    BY <1>1, <1>2, <2>2, <2>3 DEF TablesOK
<1>e. ExtensionsOK'
  BY <1>1 DEF ProcInv, ExtensionsOK
<1>u. UnavailableOK'
  BY <1>1, <1>2 DEF ProcInv, UnavailableOK
<1> QED
  BY <1>t, <1>e, <1>u

-----------------------------------------------------------------------------
(* No layer is gone round.                                                 *)

\* A table or a pointer for a command of an instance leads to the next layer
\* that intercepts it, were it under the name of the wrapper's entry.
LEMMA InstanceSkipsNone ==
  ASSUME ProcInv, instUp = Layers, cmd \in InstanceCmds,
         NEW c \in Names, NEW l \in 0..N, NEW a, a # Null,
         FirstBelow(a, l, LocalInstance(c), DriverInstanceProc(c)),
         NEW k \in Layers, l < k, k < a
  PROVE  ~ Intercepts(k)
<1>1. LocalInstance(c) \in SUBSET Layers /\ l \in Nat /\ k \in (l + 1)..N /\ k \in 1..N
      /\ N \in Nat
  BY ProcAddrAssumption DEF LocalInstance, Layers
<1>2. /\ k \notin LocalInstance(c)
      /\ a # Driver => a \in LocalInstance(c)
      /\ a = Driver => DriverInstanceProc(c) = Driver
  <2>1. CASE a \in LocalInstance(c) /\ l < a /\ \A j \in (l + 1)..(a - 1) : j \notin LocalInstance(c)
    <3>1. a \in 1..N /\ a # Driver /\ k \in (l + 1)..(a - 1)
      BY <1>1, <2>1 DEF Layers, Driver
    <3> QED
      BY <1>1, <2>1, <3>1 DEF Driver
  <2>2. CASE a = DriverInstanceProc(c) /\ \A j \in (l + 1)..N : j \notin LocalInstance(c)
    <3>1. DriverInstanceProc(c) \in {Driver, Null} /\ k \in (l + 1)..N
      BY <1>1, DriverFacts
    <3> QED
      BY <1>1, <2>2, <3>1 DEF Driver
  <2> QED
    BY <2>1, <2>2 DEF FirstBelow
<1>3. /\ cmd \in Cmds /\ api \in Nat /\ instExts \subseteq InstExts
  BY ProcAddrAssumption DEF ProcInv, TypeOK
<1>4. /\ c \in Cmds /\ c \in InstanceCmds /\ c \notin GlobalCmds \cup DeviceCmds \cup OtherCmds
      /\ cmd \in Always => c \in Always
  BY <1>3, NamesFacts
<1>5. SUFFICES ASSUME Intercepts(k) PROVE FALSE
  OBVIOUS
<1>6. k \in instHooks \/ c \in Always
  BY <1>4, <1>5 DEF Intercepts
<1>7. ~ IsCommandEnabled(c, api, instExts \cap Recognized)
  BY <1>2, <1>4, <1>6 DEF LocalInstance, LocalInstanceProc
<1>8. From[c] \subseteq Recognized
  BY <1>4, FeatureFacts
<1>9. CASE c = cmd
  <2>1. IsCommandEnabled(c, api, instExts)
    BY <1>5, <1>9 DEF Intercepts
  <2> QED
    BY <1>7, <1>8, <2>1 DEF IsCommandEnabled
<1>10. CASE c # cmd
  <2>1. From[c] = {}
    BY <1>3, <1>10, AliasAssumption DEF Names
  <2>2. \A v \in Since[c] : ~ (v <= api)
    BY <1>7 DEF IsCommandEnabled
  <2>3. ~ \E E : IsCommandEnabled(c, api, E)
    BY <2>1, <2>2 DEF IsCommandEnabled
  <2>4. CASE a # Driver
    BY <1>2, <1>4, <2>3, <2>4 DEF LocalInstance, LocalInstanceProc
  <2>5. CASE a = Driver
    BY <1>2, <1>4, <2>3, <2>5, ProcAddrAssumption DEF DriverInstanceProc, Driver, Null
  <2> QED
    BY <2>4, <2>5
<1> QED
  BY <1>9, <1>10

\* And so it does for a command of a device.
LEMMA DeviceSkipsNone ==
  ASSUME ProcInv, devUp = Layers, cmd \notin InstanceCmds,
         NEW c \in Names, NEW l \in 0..N, NEW a, a # Null,
         FirstBelow(a, l, LocalDevice(c), DriverDeviceProc(c)),
         NEW k \in Layers, l < k, k < a
  PROVE  ~ Intercepts(k)
<1>1. LocalDevice(c) \in SUBSET Layers /\ l \in Nat /\ k \in (l + 1)..N /\ k \in 1..N
      /\ N \in Nat /\ Driver = N + 1
  BY ProcAddrAssumption DEF LocalDevice, Layers, Driver
<1>2. /\ k \notin LocalDevice(c)
      /\ a # Driver => a \in LocalDevice(c)
      /\ a = Driver => DriverDeviceProc(c) = Driver
      /\ a \in 0..Driver
  <2>1. CASE a \in LocalDevice(c) /\ l < a /\ \A j \in (l + 1)..(a - 1) : j \notin LocalDevice(c)
    <3>1. a \in 1..N /\ a # Driver /\ k \in (l + 1)..(a - 1)
      BY <1>1, <2>1 DEF Layers, Driver
    <3> QED
      BY <1>1, <2>1, <3>1 DEF Driver
  <2>2. CASE a = DriverDeviceProc(c) /\ \A j \in (l + 1)..N : j \notin LocalDevice(c)
    <3>1. DriverDeviceProc(c) \in {Driver, Null} /\ k \in (l + 1)..N
      BY <1>1, DriverFacts
    <3> QED
      BY <1>1, <2>2, <3>1 DEF Driver
  <2> QED
    BY <2>1, <2>2 DEF FirstBelow
<1>3. /\ cmd \in Cmds /\ instExts \subseteq InstExts
  BY DEF ProcInv, TypeOK
<1>4. SUFFICES ASSUME Intercepts(k) PROVE FALSE
  OBVIOUS
<1>5. c \in Cmds /\ c \in DeviceCmds /\ (cmd \in Always => c \in Always)
  BY <1>3, <1>4, NamesFacts DEF Intercepts
<1>6. From[c] \subseteq Recognized
  BY <1>5, FeatureFacts
<1>7. ~ IsCommandEnabled(c, DeviceApi, AskedOf(k) \cap Recognized)
  BY <1>2, <1>4, <1>5 DEF Intercepts, LocalDevice, LocalDeviceProc, EnabledExtensions
<1>8. ~ IsCommandEnabled(c, DeviceApi, AskedOf(k))
  BY <1>6, <1>7 DEF IsCommandEnabled
<1>9. CASE c = cmd
  BY <1>4, <1>8, <1>9 DEF Intercepts
<1>10. CASE c # cmd
  <2>1. From[c] \cap InstExts = {}
    BY <1>3, <1>10, AliasAssumption DEF Names
  <2>2. a \in 1..Driver /\ k \in 1..Driver /\ k <= a
    BY <1>1, <1>2
  <2>3. AskedOf(a) \subseteq AskedOf(k)
    BY <2>2, AskedShrinks
  <2>4. CASE a # Driver
    <3>1. IsCommandEnabled(c, DeviceApi, AskedOf(a) \cap Recognized)
      BY <1>2, <2>4 DEF LocalDevice, LocalDeviceProc, EnabledExtensions
    <3> QED
      BY <1>8, <2>3, <3>1 DEF IsCommandEnabled
  <2>5. CASE a = Driver
    <3>1. IsCommandEnabled(c, DeviceApi, AskedOf(Driver) \cup instExts)
      BY <1>1, <1>2, <2>5 DEF DriverDeviceProc, Null
    <3> QED
      BY <1>3, <1>8, <2>1, <2>3, <2>5, <3>1 DEF IsCommandEnabled
  <2> QED
    BY <2>4, <2>5
<1> QED
  BY <1>9, <1>10

\* A pointer to a device command from vkGetInstanceProcAddr passes over no layer
\* that lists the command: one that has something below answers itself.
LEMMA InstancePointerSkipsNone ==
  ASSUME ProcInv, instUp = Layers, cmd \in DeviceCmds, cmd \notin InstanceCmds,
         NEW a, a # Null,
         FirstBelow(a, 0, LocalInstance(cmd), DriverInstanceProc(cmd)),
         NEW k \in Layers, k < a
  PROVE  ~ Intercepts(k)
<1>1. LocalInstance(cmd) \in SUBSET Layers /\ k \in 1..N /\ k \in Nat /\ N \in Nat
      /\ Driver = N + 1 /\ Null = 0
  BY ProcAddrAssumption DEF LocalInstance, Layers, Driver, Null
<1>2. /\ k \notin LocalInstance(cmd) /\ a \in 0..Driver
      /\ a # Driver => a \in LocalInstance(cmd)
      /\ a = Driver => DriverInstanceProc(cmd) = Driver
  <2>1. CASE a \in LocalInstance(cmd) /\ 0 < a /\ \A j \in (0 + 1)..(a - 1) : j \notin LocalInstance(cmd)
    <3>1. a \in 1..N /\ a # Driver /\ k \in (0 + 1)..(a - 1)
      BY <1>1, <2>1 DEF Layers, Driver
    <3> QED
      BY <1>1, <2>1, <3>1 DEF Driver
  <2>2. CASE a = DriverInstanceProc(cmd) /\ \A j \in (0 + 1)..N : j \notin LocalInstance(cmd)
    <3>1. DriverInstanceProc(cmd) \in {Driver, Null} /\ k \in (0 + 1)..N
      BY <1>1, DriverFacts
    <3> QED
      BY <1>1, <2>2, <3>1 DEF Driver
  <2> QED
    BY <2>1, <2>2 DEF FirstBelow
<1>3. cmd \in Names /\ devHooks \subseteq anyHooks
  BY NamesFacts DEF ProcInv, TypeOK
<1>4. FirstBelow(instNext[cmd][k], k, LocalInstance(cmd), DriverInstanceProc(cmd))
  BY <1>3 DEF ProcInv, TablesOK
<1>5. instNext[cmd][k] # Null
  <2>1. SUFFICES ASSUME instNext[cmd][k] = Null PROVE FALSE
    OBVIOUS
  <2>2. DriverInstanceProc(cmd) = Null /\ \A j \in (k + 1)..N : j \notin LocalInstance(cmd)
    BY <1>1, <1>4, <2>1 DEF FirstBelow, Layers
  <2>3. a \in LocalInstance(cmd)
    BY <1>1, <1>2, <2>2
  <2>4. a \in (k + 1)..N
    BY <1>1, <2>3 DEF Layers
  <2> QED
    BY <2>2, <2>3, <2>4
<1>6. ~ (k \in anyHooks \/ cmd \in Always)
  BY <1>2, <1>5 DEF LocalInstance, LocalInstanceProc
<1> QED
  BY <1>3, <1>6 DEF Intercepts

-----------------------------------------------------------------------------
(* Queries and calls.                                                      *)

\* The pointers that would be given now stay while the tables do.
LEMMA SamePointers ==
  /\ UNCHANGED <<config, instUp, instHooks, anyHooks, instNext>> =>
       GetInstanceProcAddr(cmd, 1)' = GetInstanceProcAddr(cmd, 1)
  /\ UNCHANGED <<config, devExts, devUp, devHooks, devNext>> =>
       GetDeviceProcAddr(cmd, 1)' = GetDeviceProcAddr(cmd, 1)
<1>1. ASSUME UNCHANGED <<config, instUp, instHooks, anyHooks, instNext>>
      PROVE  GetInstanceProcAddr(cmd, 1)' = GetInstanceProcAddr(cmd, 1)
  <2>1. UNCHANGED <<cmd, api, pdApi, instExts>>
    BY <1>1 DEF config
  <2>2. LocalInstanceProc(cmd, 1)' <=> LocalInstanceProc(cmd, 1)
    BY <1>1, <2>1 DEF LocalInstanceProc
  <2>3. DriverInstanceProc(cmd)' = DriverInstanceProc(cmd)
    BY <2>1 DEF DriverInstanceProc
  <2> QED
    BY <1>1, <2>1, <2>2, <2>3 DEF GetInstanceProcAddr
<1>2. ASSUME UNCHANGED <<config, devExts, devUp, devHooks, devNext>>
      PROVE  GetDeviceProcAddr(cmd, 1)' = GetDeviceProcAddr(cmd, 1)
  <2>1. UNCHANGED <<cmd, api, pdApi, instExts>>
    BY <1>2 DEF config
  <2>2. /\ DeviceApi' = DeviceApi /\ EnabledExtensions(1)' = EnabledExtensions(1)
        /\ AskedOf(Driver)' = AskedOf(Driver)
    BY <1>2, <2>1 DEF DeviceApi, EnabledExtensions, AskedOf
  <2>3. LocalDeviceProc(cmd, 1)' <=> LocalDeviceProc(cmd, 1)
    BY <1>2, <2>1, <2>2 DEF LocalDeviceProc
  <2>4. DriverDeviceProc(cmd)' = DriverDeviceProc(cmd)
    BY <2>1, <2>2 DEF DriverDeviceProc
  <2> QED
    BY <1>2, <2>1, <2>3, <2>4 DEF GetDeviceProcAddr
<1> QED
  BY <1>1, <1>2

\* A step of a call, or one that does not move at all.
LEMMA WalkStep ==
  ASSUME ProcInv, UNCHANGED <<config, devExts, hooks, tables, asked>>,
         phase' = phase \/ (phase \in {"idle", "call"} /\ phase' \in {"idle", "call"}),
         at' \in 0..Driver, visited' \in SUBSET Layers,
         phase' = "call" /\ cmd \notin InstanceCmds => devUp = Layers /\ cmd \notin GlobalCmds,
         phase' = "call" /\ TableEnabled => at' # Null,
         phase' = "call" /\ at' # Null =>
           \A l \in Layers : l < at' /\ Intercepts(l) => l \in visited'
  PROVE  ProcInv'
<1>1. UNCHANGED <<cmd, api, pdApi, instExts, instHooks, anyHooks, devHooks,
                  instUp, devUp, instNext, devNext, devExts, route, ptr>>
  BY DEF config, hooks, tables, asked
<1>2. TablesOK' /\ ExtensionsOK' /\ UnavailableOK'
  BY KeptTables
<1>t. TypeOK'
  <2>1. phase' \in {"instance", "idle", "device", "call"}
    BY DEF ProcInv, TypeOK
  <2> QED
    BY <1>1, <2>1 DEF ProcInv, TypeOK, Names
<1>l. LoadOK'
  BY <1>1 DEF ProcInv, LoadOK
<1>p. PointerOK'
  <2>1. GetInstanceProcAddr(cmd, 1)' = GetInstanceProcAddr(cmd, 1)
    BY <1>1, SamePointers
  <2>2. GetDeviceProcAddr(cmd, 1)' = GetDeviceProcAddr(cmd, 1)
    BY <1>1, SamePointers
  <2> QED
    BY <1>1, <2>1, <2>2 DEF ProcInv, PointerOK
<1>w. WalkOK'
  BY <1>1, SameFeatures DEF WalkOK
<1>n. NoLayerSkipped'
  <2>1. \A l \in Layers : Intercepts(l)' <=> Intercepts(l)
    BY <1>1, SameIntercepts
  <2> QED
    BY <2>1 DEF NoLayerSkipped
<1> QED
  BY <1>2, <1>t, <1>l, <1>p, <1>w, <1>n DEF ProcInv

\* A pointer is given.
LEMMA AskInv == ASSUME ProcInv, AskInstance \/ AskDevice PROVE ProcInv'
<1>1. /\ phase = "idle" /\ phase' = "idle"
      /\ UNCHANGED <<config, devExts, hooks, tables, at, visited>>
      /\ \/ route' = "instance" /\ ptr' = GetInstanceProcAddr(cmd, 1)
         \/ route' = "device" /\ ptr' = GetDeviceProcAddr(cmd, 1) /\ devUp = Layers
  BY DEF AskInstance, AskDevice, walk
<1>2. UNCHANGED <<cmd, api, pdApi, instExts, instHooks, anyHooks, devHooks,
                  instUp, devUp, instNext, devNext>>
  BY <1>1 DEF config, hooks, tables
<1>3. TablesOK' /\ ExtensionsOK' /\ UnavailableOK'
  BY <1>1, KeptTables
<1>t. TypeOK'
  <2>1. 1 \in 1..Driver /\ cmd \in Names
    BY ProcAddrAssumption DEF Driver, Names
  <2>2. ptr' \in 0..Driver
    BY <1>1, <2>1, AnswerType DEF ProcInv
  <2>3. route' \in {"none", "instance", "device"}
    BY <1>1
  <2> QED
    BY <1>1, <1>2, <2>2, <2>3 DEF ProcInv, TypeOK, Names
<1>l. LoadOK'
  BY <1>1, <1>2 DEF ProcInv, LoadOK
<1>p. PointerOK'
  <2>1. GetInstanceProcAddr(cmd, 1)' = GetInstanceProcAddr(cmd, 1)
    BY <1>1, <1>2, SamePointers
  <2>2. GetDeviceProcAddr(cmd, 1)' = GetDeviceProcAddr(cmd, 1)
    BY <1>1, <1>2, SamePointers
  <2> QED
    BY <1>1, <1>2, <2>1, <2>2 DEF ProcInv, PointerOK
<1> QED
  BY <1>1, <1>3, <1>t, <1>l, <1>p DEF ProcInv, WalkOK, NoLayerSkipped

\* A call through a pointer skips no layer on its way to where it leads.
LEMMA CallInv == ASSUME ProcInv, Call PROVE ProcInv'
<1>1. /\ phase = "idle" /\ Usable /\ ptr # Null /\ at' = ptr /\ visited' = {}
      /\ phase' = "call"
      /\ UNCHANGED <<config, devExts, hooks, tables, asked>>
  BY DEF Call
<1>2. /\ instUp = Layers
      /\ cmd \notin InstanceCmds => devUp = Layers /\ cmd \notin GlobalCmds
      /\ cmd \in Cmds /\ cmd \in Names /\ ptr \in 0..Driver
  BY <1>1 DEF ProcInv, LoadOK, TypeOK, Usable, Names
<1>3. N \in Nat \ {0} /\ 1 \in Layers /\ 1 - 1 = 0 /\ 0 \in 0..N /\ Layers = 1..N
  BY ProcAddrAssumption DEF Layers
<1>4. ASSUME NEW k \in Layers, k < ptr
      PROVE  ~ Intercepts(k)
  <2>0. 0 < k
    BY <1>3
  <2>1. CASE route = "instance"
    <3>1. FirstBelow(ptr, 0, LocalInstance(cmd), DriverInstanceProc(cmd))
      BY <1>2, <1>3, <2>1, AnswerIsFirst DEF ProcInv, PointerOK
    <3>2. CASE cmd \in InstanceCmds
      BY <1>1, <1>2, <1>3, <1>4, <2>0, <3>1, <3>2, InstanceSkipsNone
    <3>3. CASE cmd \notin InstanceCmds /\ cmd \in DeviceCmds
      BY <1>1, <1>2, <1>4, <3>1, <3>3, InstancePointerSkipsNone
    <3>4. CASE cmd \notin InstanceCmds /\ cmd \notin DeviceCmds
      BY <3>4 DEF Intercepts
    <3> QED
      BY <3>2, <3>3, <3>4
  <2>2. CASE route = "device"
    <3>1. devUp = Layers /\ FirstBelow(ptr, 0, LocalDevice(cmd), DriverDeviceProc(cmd))
      BY <1>2, <1>3, <2>2, AnswerIsFirst DEF ProcInv, PointerOK
    <3>2. cmd \notin InstanceCmds
      <4>1. SUFFICES ASSUME cmd \in InstanceCmds PROVE FALSE
        OBVIOUS
      <4>2. cmd \notin DeviceCmds \cup OtherCmds
        BY <1>2, <4>1, NamesFacts
      <4>3. LocalDevice(cmd) = {} /\ DriverDeviceProc(cmd) = Null
        BY <4>2 DEF LocalDevice, LocalDeviceProc, DriverDeviceProc
      <4> QED
        BY <1>1, <3>1, <4>3 DEF FirstBelow
    <3> QED
      BY <1>1, <1>2, <1>3, <1>4, <2>0, <3>1, <3>2, DeviceSkipsNone
  <2>3. CASE route \notin {"instance", "device"}
    BY <1>1, <2>3 DEF ProcInv, PointerOK, TypeOK
  <2> QED
    BY <2>1, <2>2, <2>3
<1> QED
  BY <1>1, <1>2, <1>4, WalkStep

\* The wrapper of a layer passes a call on to the next one that intercepts it,
\* and finds an entry if the feature of the entry's table is enabled.
LEMMA ServeInv == ASSUME ProcInv, Serve PROVE ProcInv'
<1>1. /\ phase = "call" /\ at \in Layers /\ visited' = visited \cup {at}
      /\ UNCHANGED <<config, devExts, hooks, tables, asked>>
  BY DEF Serve
<1>2. /\ instUp = Layers
      /\ cmd \notin InstanceCmds => devUp = Layers /\ cmd \notin GlobalCmds
      /\ cmd \in Cmds /\ visited' \in SUBSET Layers
      /\ instNext \in [Names -> [Layers -> 0..Driver]]
      /\ devNext \in [Names -> [Layers -> 0..Driver]]
  BY <1>1 DEF ProcInv, LoadOK, TypeOK
<1>3. /\ N \in Nat \ {0} /\ Layers = 1..N /\ Driver = N + 1 /\ Null = 0
      /\ at \in 0..N /\ at # Null
  BY <1>1, ProcAddrAssumption DEF Layers, Driver, Null
<1>4. \A l \in Layers : l < at /\ Intercepts(l) => l \in visited
  BY <1>1, <1>3 DEF ProcInv, NoLayerSkipped
<1>5. CASE phase' = "idle" /\ at' = Null
  BY <1>1, <1>2, <1>3, <1>5, WalkStep
<1>6. PICK e \in Names : e = Entry[cmd].name
  BY <1>2, NamesFacts
<1>7. ASSUME phase' = phase,
             at' = IF cmd \in InstanceCmds THEN instNext[e][at] ELSE devNext[e][at]
      PROVE  ProcInv'
  <2>1. at' \in 0..Driver
    BY <1>1, <1>2, <1>6, <1>7
  <2>2. /\ cmd \in InstanceCmds =>
              FirstBelow(instNext[e][at], at, LocalInstance(e), DriverInstanceProc(e))
        /\ cmd \notin InstanceCmds =>
              FirstBelow(devNext[e][at], at, LocalDevice(e), DriverDeviceProc(e))
    BY <1>1, <1>2, <1>6 DEF ProcInv, TablesOK
  <2>3. ASSUME at' # Null, NEW k \in Layers, at < k, k < at'
        PROVE  ~ Intercepts(k)
    <3>1. PICK a : a = at'
      OBVIOUS
    <3>2. PICK l \in 0..N : l = at
      BY <1>3
    <3>3. CASE cmd \in InstanceCmds
      BY <1>2, <1>7, <2>2, <2>3, <3>1, <3>2, <3>3, InstanceSkipsNone
    <3>4. CASE cmd \notin InstanceCmds
      BY <1>2, <1>7, <2>2, <2>3, <3>1, <3>2, <3>4, DeviceSkipsNone
    <3> QED
      BY <3>3, <3>4
  <2>4. ASSUME at' # Null, NEW k \in Layers, k < at', Intercepts(k)
        PROVE  k \in visited'
    <3>1. k < at \/ k = at \/ at < k
      BY <1>3
    <3> QED
      BY <1>1, <1>4, <2>3, <2>4, <3>1
  <2>5. TableEnabled => at' # Null
    <3>1. SUFFICES ASSUME TableEnabled, at' = Null PROVE FALSE
      OBVIOUS
    <3>2. /\ Entry[cmd].since \subseteq Since[e] /\ Entry[cmd].from \subseteq From[e]
      BY <1>2, <1>6, ProcAddrAssumption
    <3>3. CASE cmd \in InstanceCmds
      <4>1. e \in InstanceCmds /\ IsCommandEnabled(e, api, instExts \cup DriverExts)
        BY <1>2, <1>6, <3>1, <3>2, <3>3, NamesFacts DEF TableEnabled, IsCommandEnabled
      <4>2. DriverInstanceProc(e) = Driver
        BY <4>1 DEF DriverInstanceProc
      <4> QED
        BY <1>3, <1>7, <2>2, <3>1, <3>3, <4>2 DEF FirstBelow, LocalInstance
    <3>4. CASE cmd \notin InstanceCmds
      <4>1. e \in DeviceCmds \cup OtherCmds
        BY <1>2, <1>6, <3>4, NamesFacts DEF Cmds
      <4>2. IsCommandEnabled(e, DeviceApi, AskedOf(Driver) \cup instExts)
        BY <3>1, <3>2, <3>4 DEF TableEnabled, IsCommandEnabled
      <4>3. DriverDeviceProc(e) = Driver
        BY <4>1, <4>2 DEF DriverDeviceProc
      <4> QED
        BY <1>3, <1>7, <2>2, <3>1, <3>4, <4>3 DEF FirstBelow, LocalDevice
    <3> QED
      BY <3>3, <3>4
  <2> QED
    BY <1>1, <1>2, <1>7, <2>1, <2>4, <2>5, WalkStep
<1>8. \/ phase' = "idle" /\ at' = Null
      \/ /\ phase' = phase
         /\ at' = IF cmd \in InstanceCmds THEN instNext[e][at] ELSE devNext[e][at]
  BY <1>6 DEF Serve
<1> QED
  BY <1>5, <1>7, <1>8

\* The driver serves what reaches it.
LEMMA DriverServesInv == ASSUME ProcInv, DriverServes PROVE ProcInv'
<1>1. /\ phase = "call" /\ phase' = "idle" /\ at' = Null /\ visited' = visited
      /\ UNCHANGED <<config, devExts, hooks, tables, asked>>
  BY DEF DriverServes
<1>2. at' \in 0..Driver /\ visited' \in SUBSET Layers
  BY <1>1, ProcAddrAssumption DEF ProcInv, TypeOK, Driver, Null
<1> QED
  BY <1>1, <1>2, WalkStep

-----------------------------------------------------------------------------
(* The chain is built.                                                     *)

\* The tables of an instance are loaded in a layer: they lead as the answers of
\* the layer below do, whose own tables are loaded already.
LEMMA LoadInstanceInv == ASSUME ProcInv, NEW l \in Layers, LoadInstance(l) PROVE ProcInv'
<1>1. /\ phase = "instance" /\ instUp = (l + 1)..N /\ instUp' = instUp \cup {l}
      /\ instNext' = [c \in Names |-> [instNext[c] EXCEPT ![l] = GetInstanceProcAddr(c, l + 1)]]
      /\ phase' = IF l = 1 THEN "idle" ELSE "instance"
      /\ UNCHANGED <<config, devExts, devHooks, devUp, devNext, asked, walk>>
  BY DEF LoadInstance
<1>2. PICK H \in SUBSET {l} : instHooks' = instHooks \cup H
  BY DEF LoadInstance, HookedInstanceCommands
<1>3. PICK G \in SUBSET {l} : anyHooks' = anyHooks \cup G /\ (l \in Owners(cmd) => G = {l})
  BY DEF LoadInstance, HookedDeviceCommands
<1>4. /\ UNCHANGED <<cmd, api, pdApi, instExts, route, ptr, at, visited>>
      /\ devUp = {} /\ devUp' = {}
  BY <1>1 DEF ProcInv, LoadOK, config, asked, walk
<1>5. /\ N \in Nat \ {0} /\ Layers = 1..N /\ Driver = N + 1 /\ l \in 1..N /\ l \in Int
      /\ Null = 0 /\ l \notin instUp
  BY <1>1, ProcAddrAssumption DEF Layers, Driver, Null
<1>6. instUp' = l..N /\ (l = 1 => instUp' = Layers)
  BY <1>1, <1>5
<1>7. ASSUME NEW c \in Names
      PROVE  /\ GetInstanceProcAddr(c, l + 1) \in 0..Driver
             /\ instNext'[c] = [instNext[c] EXCEPT ![l] = GetInstanceProcAddr(c, l + 1)]
             /\ instNext[c] \in [Layers -> 0..Driver]
             /\ instNext'[c][l] = GetInstanceProcAddr(c, l + 1)
             /\ \A k \in Layers : k # l => instNext'[c][k] = instNext[c][k]
  <2>1. l + 1 \in 1..Driver
    BY <1>5
  <2>2. GetInstanceProcAddr(c, l + 1) \in 0..Driver
    BY <2>1, AnswerType DEF ProcInv
  <2>3. instNext[c] \in [Layers -> 0..Driver]
    BY DEF ProcInv, TypeOK
  <2> QED
    BY <1>1, <2>2, <2>3
<1>8. Names' = Names /\ Unavailable' = Unavailable
  BY <1>1, SameFeatures
<1>t. TypeOK'
  <2>1. instNext' \in [Names -> [Layers -> 0..Driver]]
    BY <1>1, <1>7
  <2>2. /\ instHooks' \in SUBSET Layers /\ anyHooks' \in SUBSET Layers
        /\ devHooks' \in SUBSET anyHooks'
        /\ instUp' \in SUBSET Layers /\ devUp' \in SUBSET instUp'
        /\ phase' \in {"instance", "idle", "device", "call"}
    BY <1>1, <1>2, <1>3, <1>4 DEF ProcInv, TypeOK
  <2> QED
    BY <1>1, <1>4, <1>8, <2>1, <2>2 DEF ProcInv, TypeOK
<1>l. LoadOK'
  <2>1. /\ \E k \in 1..Driver : instUp' = k..N
        /\ \E k \in 1..Driver : devUp' = k..N
    <3>1. {} = Driver..N /\ Driver \in 1..Driver /\ l \in 1..Driver
      BY <1>5
    <3> QED
      BY <1>4, <1>6, <3>1
  <2> QED
    BY <1>1, <1>4, <1>6, <2>1 DEF LoadOK
<1>s. ASSUME NEW c \in Names
      PROVE  /\ LocalInstance(c) \in SUBSET Layers /\ LocalInstance(c)' \in SUBSET Layers
             /\ \A k \in (l + 1)..N : k \in LocalInstance(c) <=> k \in LocalInstance(c)'
             /\ DriverInstanceProc(c)' = DriverInstanceProc(c)
  <2>1. ASSUME NEW k \in (l + 1)..N
        PROVE  LocalInstanceProc(c, k)' <=> LocalInstanceProc(c, k)
    <3>1. k \in Layers /\ k # l
      BY <1>5
    <3>2. /\ k \in instUp' <=> k \in instUp
          /\ k \in instHooks' <=> k \in instHooks
          /\ k \in anyHooks' <=> k \in anyHooks
      BY <1>1, <1>2, <1>3, <3>1
    <3>3. instNext'[c][k] = instNext[c][k]
      BY <1>7, <3>1
    <3> QED
      BY <1>4, <3>2, <3>3, SameLocalInstance
  <2>2. DriverInstanceProc(c)' = DriverInstanceProc(c)
    BY <1>4, SameDriver
  <2>3. \A k \in (l + 1)..N : k \in Layers
    BY <1>5
  <2>4. LocalInstance(c) \in SUBSET Layers /\ LocalInstance(c)' \in SUBSET Layers
    BY DEF LocalInstance
  <2> QED
    BY <2>1, <2>2, <2>3, <2>4 DEF LocalInstance
<1>a. TablesOK'
  <2>1. ASSUME NEW c \in Names, NEW k \in instUp'
        PROVE  FirstBelow(instNext[c][k], k, LocalInstance(c), DriverInstanceProc(c))'
    <3>1. k \in Nat /\ k \in Layers /\ l <= k /\ (k # l => k \in instUp)
      BY <1>1, <1>5, <1>6
    <3>2. PICK a, L, M, d :
            /\ a = instNext'[c][k] /\ d = DriverInstanceProc(c)
            /\ L = LocalInstance(c) /\ M = LocalInstance(c)'
      OBVIOUS
    <3>3. FirstBelow(a, k, L, d)
      <4>1. CASE k = l
        <5>1. CASE l = N
          <6>1. FirstBelow(GetInstanceProcAddr(c, Driver), N, LocalInstance(c), DriverInstanceProc(c))
            BY DriverIsFirst
          <6>2. l + 1 = Driver
            BY <1>5, <5>1
          <6> QED
            BY <1>7, <3>2, <4>1, <5>1, <6>1, <6>2
        <5>2. CASE l # N
          <6>1. PICK m \in Layers : m = l + 1 /\ m \in instUp
            BY <1>1, <1>5, <5>2
          <6>2. FirstBelow(GetInstanceProcAddr(c, m), m - 1, LocalInstance(c), DriverInstanceProc(c))
            BY <6>1, AnswerIsFirst
          <6>3. m - 1 = l
            BY <1>5, <6>1
          <6> QED
            BY <1>7, <3>2, <4>1, <6>1, <6>2, <6>3
        <5> QED
          BY <5>1, <5>2
      <4>2. CASE k # l
        BY <1>7, <3>1, <3>2, <4>2 DEF ProcInv, TablesOK
      <4> QED
        BY <4>1, <4>2
    <3>4. L \in SUBSET Layers /\ M \in SUBSET Layers /\ \A j \in (k + 1)..N : j \in L <=> j \in M
      BY <1>5, <1>s, <3>1, <3>2
    <3>5. FirstBelow(a, k, M, d)
      BY <3>1, <3>3, <3>4, FirstDependsOnBelow
    <3> QED
      BY <1>s, <3>2, <3>5 DEF FirstBelow
  <2> QED
    BY <1>4, <1>8, <2>1 DEF TablesOK
<1>p. PointerOK'
  BY <1>1, <1>4, <1>5 DEF ProcInv, PointerOK, TypeOK
<1>e. ExtensionsOK'
  <2>1. Owners(cmd) \cap instUp' \subseteq anyHooks'
    BY <1>1, <1>3 DEF ProcInv, ExtensionsOK
  <2> QED
    BY <1>1, <1>4, <2>1 DEF ProcInv, ExtensionsOK
<1>u. UnavailableOK'
  <2>1. SUFFICES ASSUME Unavailable, NEW k \in Layers PROVE instNext'[cmd][k] = Null
    BY <1>4, <1>8 DEF UnavailableOK
  <2>2. cmd \in Names
    BY DEF Names
  <2>3. \A j \in Layers : instNext[cmd][j] = Null
    BY <2>1 DEF ProcInv, UnavailableOK
  <2>4. CASE k # l
    BY <1>7, <2>2, <2>3, <2>4
  <2>5. CASE k = l
    <3>1. /\ cmd \notin GlobalCmds /\ cmd \notin InstanceCmds
          /\ \A v \in Since[cmd] : ~ (v <= api) /\ ~ (v <= pdApi)
          /\ Owners(cmd) = {} /\ From[cmd] \cap (instExts \cup DriverExts) = {}
      <4>1. Since[cmd] \subseteq Nat /\ api \in Nat /\ pdApi \in Nat
        BY ProcAddrAssumption DEF ProcInv, TypeOK
      <4> QED
        BY <2>1, <4>1, ProcAddrAssumption DEF Unavailable
    <3>2. DriverInstanceProc(cmd) = Null
      BY <3>1 DEF DriverInstanceProc, IsCommandEnabled
    <3>3. CASE l + 1 = Driver
      BY <1>7, <2>2, <2>5, <3>2, <3>3 DEF GetInstanceProcAddr
    <3>4. CASE l + 1 # Driver
      <4>1. l + 1 \in Layers
        BY <1>5, <3>4
      <4>2. From[cmd] \cap Claims[l + 1] = {}
        BY <3>1, <4>1 DEF Owners
      <4>3. ~ LocalInstanceProc(cmd, l + 1)
        BY <2>3, <3>1, <4>1, <4>2 DEF LocalInstanceProc, IsCommandEnabled
      <4> QED
        BY <1>7, <2>2, <2>3, <2>5, <3>4, <4>1, <4>3 DEF GetInstanceProcAddr
    <3> QED
      BY <3>3, <3>4
  <2> QED
    BY <2>4, <2>5
<1> QED
  BY <1>1, <1>t, <1>l, <1>a, <1>p, <1>e, <1>u DEF ProcInv, WalkOK, NoLayerSkipped

\* The application asks for a device: only what is of a device changes, and no
\* layer has that.
LEMMA CreateDeviceInv == ASSUME ProcInv, CreateDevice PROVE ProcInv'
<1>1. /\ phase = "idle" /\ devUp = {} /\ phase' = "device"
      /\ UNCHANGED <<config, hooks, tables, asked, walk>>
  BY DEF CreateDevice
<1>2. PICK E \in SUBSET Exts :
        devExts' = E /\ \A e \in E : e \in DriverExts \/ \E l \in Layers : e \in Claims[l]
  BY DEF CreateDevice
<1>3. UNCHANGED <<cmd, api, pdApi, instExts, instHooks, anyHooks, devHooks,
                  instUp, devUp, instNext, devNext, route, ptr, at, visited>>
  BY <1>1 DEF config, hooks, tables, asked, walk
<1>4. Names' = Names /\ Unavailable' = Unavailable
  BY <1>3 DEF Names, Unavailable
<1>t. TypeOK'
  BY <1>1, <1>2, <1>3, <1>4 DEF ProcInv, TypeOK
<1>l. LoadOK'
  BY <1>1, <1>3 DEF ProcInv, LoadOK
<1>a. TablesOK'
  <2>1. ASSUME NEW c \in Names, NEW k \in instUp
        PROVE  FirstBelow(instNext[c][k], k, LocalInstance(c), DriverInstanceProc(c))'
    <3>1. /\ LocalInstance(c)' = LocalInstance(c)
          /\ DriverInstanceProc(c)' = DriverInstanceProc(c)
      BY <1>1, <1>3, SameInstance
    <3> QED
      BY <1>3, <3>1 DEF ProcInv, TablesOK, FirstBelow
  <2> QED
    BY <1>1, <1>3, <1>4, <2>1 DEF TablesOK
<1>p. PointerOK'
  <2>1. GetInstanceProcAddr(cmd, 1)' = GetInstanceProcAddr(cmd, 1)
    BY <1>1, <1>3, SamePointers
  <2>2. route # "device"
    BY <1>1, ProcAddrAssumption DEF ProcInv, PointerOK, Layers
  <2> QED
    BY <1>1, <1>3, <2>1, <2>2 DEF ProcInv, PointerOK
<1>e. ExtensionsOK'
  BY <1>2, <1>3 DEF ProcInv, ExtensionsOK, Supported
<1>u. UnavailableOK'
  BY <1>3, <1>4 DEF ProcInv, UnavailableOK
<1> QED
  BY <1>1, <1>t, <1>l, <1>a, <1>p, <1>e, <1>u DEF ProcInv, WalkOK, NoLayerSkipped

\* The tables of a device are loaded in a layer.
LEMMA LoadDeviceInv == ASSUME ProcInv, NEW l \in Layers, LoadDevice(l) PROVE ProcInv'
<1>1. /\ phase = "device" /\ devUp = (l + 1)..N /\ devUp' = devUp \cup {l}
      /\ devNext' = [c \in Names |-> [devNext[c] EXCEPT ![l] = GetDeviceProcAddr(c, l + 1)]]
      /\ phase' = IF l = 1 THEN "idle" ELSE "device"
      /\ UNCHANGED <<config, devExts, instHooks, anyHooks, instUp, instNext, asked, walk>>
  BY DEF LoadDevice
<1>2. PICK G \in SUBSET (anyHooks \cap {l}) :
        devHooks' = devHooks \cup G /\ (l \in Owners(cmd) => G = {l})
  BY DEF LoadDevice, HookedDeviceCommands
<1>3. UNCHANGED <<cmd, api, pdApi, instExts, route, ptr, at, visited>>
  BY <1>1 DEF config, asked, walk
<1>4. /\ N \in Nat \ {0} /\ Layers = 1..N /\ Driver = N + 1 /\ l \in 1..N /\ l \in Int
      /\ l \notin devUp /\ instUp = Layers /\ devUp # Layers
  <2>1. N \in Nat \ {0} /\ Layers = 1..N /\ Driver = N + 1 /\ l \in 1..N
    BY ProcAddrAssumption DEF Layers, Driver
  <2>2. 1 \in Layers /\ 1 \notin (l + 1)..N
    BY <2>1
  <2> QED
    BY <1>1, <2>1, <2>2 DEF ProcInv, LoadOK
<1>5. devUp' = l..N
  BY <1>1, <1>4
<1>6. ASSUME NEW c \in Names
      PROVE  /\ GetDeviceProcAddr(c, l + 1) \in 0..Driver
             /\ devNext[c] \in [Layers -> 0..Driver]
             /\ devNext'[c][l] = GetDeviceProcAddr(c, l + 1)
             /\ \A k \in Layers : k # l => devNext'[c][k] = devNext[c][k]
  <2>1. l + 1 \in 1..Driver
    BY <1>4
  <2>2. GetDeviceProcAddr(c, l + 1) \in 0..Driver
    BY <2>1, AnswerType DEF ProcInv
  <2>3. devNext[c] \in [Layers -> 0..Driver]
    BY DEF ProcInv, TypeOK
  <2> QED
    BY <1>1, <2>2, <2>3
<1>7. Names' = Names /\ Unavailable' = Unavailable
  BY <1>1, SameFeatures
<1>t. TypeOK'
  <2>1. devNext' \in [Names -> [Layers -> 0..Driver]]
    BY <1>1, <1>6
  <2>2. /\ devHooks' \in SUBSET anyHooks' /\ devUp' \in SUBSET instUp'
        /\ phase' \in {"instance", "idle", "device", "call"}
    BY <1>1, <1>2, <1>4 DEF ProcInv, TypeOK
  <2> QED
    BY <1>1, <1>3, <1>7, <2>1, <2>2 DEF ProcInv, TypeOK
<1>l. LoadOK'
  <2>1. \E k \in 1..Driver : devUp' = k..N
    BY <1>4, <1>5
  <2> QED
    BY <1>1, <1>4, <2>1 DEF ProcInv, LoadOK
<1>s. ASSUME NEW c \in Names
      PROVE  /\ LocalDevice(c) \in SUBSET Layers /\ LocalDevice(c)' \in SUBSET Layers
             /\ \A k \in (l + 1)..N : k \in LocalDevice(c) <=> k \in LocalDevice(c)'
             /\ DriverDeviceProc(c)' = DriverDeviceProc(c)
  <2>1. ASSUME NEW k \in (l + 1)..N
        PROVE  LocalDeviceProc(c, k)' <=> LocalDeviceProc(c, k)
    <3>1. k \in Layers /\ k # l
      BY <1>4
    <3>2. k \in devUp' <=> k \in devUp
      BY <1>1, <3>1
    <3>3. k \in devHooks' <=> k \in devHooks
      BY <1>2, <3>1
    <3>4. UNCHANGED <<api, pdApi, devExts>>
      BY <1>1, <1>3
    <3> QED
      BY <3>2, <3>3, <3>4, SameLocalDevice
  <2>2. DriverDeviceProc(c)' = DriverDeviceProc(c)
    BY <1>1, <1>3, SameDriver
  <2>3. \A k \in (l + 1)..N : k \in Layers
    BY <1>4
  <2>4. LocalDevice(c) \in SUBSET Layers /\ LocalDevice(c)' \in SUBSET Layers
    BY DEF LocalDevice
  <2> QED
    BY <2>1, <2>2, <2>3, <2>4 DEF LocalDevice
<1>a. TablesOK'
  <2>1. ASSUME NEW c \in Names, NEW k \in devUp'
        PROVE  FirstBelow(devNext[c][k], k, LocalDevice(c), DriverDeviceProc(c))'
    <3>1. k \in Nat /\ k \in Layers /\ l <= k /\ (k # l => k \in devUp)
      BY <1>1, <1>4, <1>5
    <3>2. PICK a, L, M, d :
            /\ a = devNext'[c][k] /\ d = DriverDeviceProc(c)
            /\ L = LocalDevice(c) /\ M = LocalDevice(c)'
      OBVIOUS
    <3>3. FirstBelow(a, k, L, d)
      <4>1. CASE k = l
        <5>1. CASE l = N
          <6>1. FirstBelow(GetDeviceProcAddr(c, Driver), N, LocalDevice(c), DriverDeviceProc(c))
            BY DriverIsFirst
          <6>2. l + 1 = Driver
            BY <1>4, <5>1
          <6> QED
            BY <1>6, <3>2, <4>1, <5>1, <6>1, <6>2
        <5>2. CASE l # N
          <6>1. PICK m \in Layers : m = l + 1 /\ m \in devUp
            BY <1>1, <1>4, <5>2
          <6>2. FirstBelow(GetDeviceProcAddr(c, m), m - 1, LocalDevice(c), DriverDeviceProc(c))
            BY <6>1, AnswerIsFirst
          <6>3. m - 1 = l
            BY <1>4, <6>1
          <6> QED
            BY <1>6, <3>2, <4>1, <6>1, <6>2, <6>3
        <5> QED
          BY <5>1, <5>2
      <4>2. CASE k # l
        BY <1>6, <3>1, <3>2, <4>2 DEF ProcInv, TablesOK
      <4> QED
        BY <4>1, <4>2
    <3>4. L \in SUBSET Layers /\ M \in SUBSET Layers /\ \A j \in (k + 1)..N : j \in L <=> j \in M
      BY <1>4, <1>s, <3>1, <3>2
    <3>5. FirstBelow(a, k, M, d)
      BY <3>1, <3>3, <3>4, FirstDependsOnBelow
    <3> QED
      BY <1>s, <3>2, <3>5 DEF FirstBelow
  <2>2. ASSUME NEW c \in Names, NEW k \in instUp
        PROVE  FirstBelow(instNext[c][k], k, LocalInstance(c), DriverInstanceProc(c))'
    <3>1. /\ LocalInstance(c)' = LocalInstance(c)
          /\ DriverInstanceProc(c)' = DriverInstanceProc(c)
      BY <1>1, SameInstance
    <3> QED
      BY <1>1, <3>1 DEF ProcInv, TablesOK, FirstBelow
  <2> QED
    BY <1>1, <1>7, <2>1, <2>2 DEF TablesOK
<1>p. PointerOK'
  <2>1. GetInstanceProcAddr(cmd, 1)' = GetInstanceProcAddr(cmd, 1)
    BY <1>1, SamePointers
  <2>2. route # "device"
    BY <1>4 DEF ProcInv, PointerOK
  <2> QED
    BY <1>1, <1>3, <2>1, <2>2 DEF ProcInv, PointerOK
<1>e. ExtensionsOK'
  <2>1. Owners(cmd) \cap devUp' \subseteq devHooks'
    BY <1>1, <1>2 DEF ProcInv, ExtensionsOK
  <2> QED
    BY <1>1, <1>3, <2>1 DEF ProcInv, ExtensionsOK
<1>u. UnavailableOK'
  BY <1>1, <1>3, <1>7 DEF ProcInv, UnavailableOK
<1> QED
  BY <1>1, <1>t, <1>l, <1>a, <1>p, <1>e, <1>u DEF ProcInv, WalkOK, NoLayerSkipped

-----------------------------------------------------------------------------
(* The theorems.                                                           *)

\* Every step keeps the invariant.
LEMMA ProcStepInv == ASSUME ProcInv, [Next]_vars PROVE ProcInv'
<1>1. CASE Next
  <2>1. ASSUME NEW l \in Layers, LoadInstance(l) PROVE ProcInv'
    BY <2>1, LoadInstanceInv
  <2>2. ASSUME NEW l \in Layers, LoadDevice(l) PROVE ProcInv'
    BY <2>2, LoadDeviceInv
  <2>3. CASE CreateDevice
    BY <2>3, CreateDeviceInv
  <2>4. CASE AskInstance \/ AskDevice
    BY <2>4, AskInv
  <2>5. CASE Call
    BY <2>5, CallInv
  <2>6. CASE Serve
    BY <2>6, ServeInv
  <2>7. CASE DriverServes
    BY <2>7, DriverServesInv
  <2> QED
    BY <1>1, <2>1, <2>2, <2>3, <2>4, <2>5, <2>6, <2>7 DEF Next
<1>2. CASE UNCHANGED vars
  <2>1. /\ UNCHANGED <<config, devExts, hooks, tables, asked>>
        /\ UNCHANGED <<phase, at, visited>>
    BY <1>2 DEF vars, walk
  <2>2. /\ at' \in 0..Driver /\ visited' \in SUBSET Layers
        /\ phase = "call" /\ cmd \notin InstanceCmds => devUp = Layers /\ cmd \notin GlobalCmds
        /\ phase = "call" /\ TableEnabled => at' # Null
        /\ phase = "call" /\ at' # Null =>
             \A l \in Layers : l < at' /\ Intercepts(l) => l \in visited'
    BY <2>1 DEF ProcInv, TypeOK, LoadOK, WalkOK, NoLayerSkipped
  <2> QED
    BY <2>1, <2>2, WalkStep
<1> QED
  BY <1>1, <1>2

\* At first there is no instance, and nothing leads anywhere.
LEMMA ProcInit == ASSUME Init PROVE ProcInv
<1>1. /\ N \in Nat \ {0} /\ Layers = 1..N /\ Driver = N + 1 /\ Null = 0
  BY ProcAddrAssumption DEF Layers, Driver, Null
<1>t. TypeOK
  <2>1. cmd \in Cmds /\ Names \subseteq Cmds
    BY NamesFacts DEF Init
  <2>2. Milestones \subseteq Versions
    BY <2>1, FeatureFacts DEF Milestones
  <2>3. /\ api \in Versions /\ pdApi \in Versions /\ instExts \in SUBSET InstExts
        /\ devExts \in SUBSET Exts
        /\ instHooks \in SUBSET Layers /\ anyHooks \in SUBSET Layers
        /\ devHooks \in SUBSET anyHooks
        /\ instUp \in SUBSET Layers /\ devUp \in SUBSET instUp
    BY <2>2 DEF Init
  <2>4. /\ instNext \in [Names -> [Layers -> 0..Driver]]
        /\ devNext \in [Names -> [Layers -> 0..Driver]]
        /\ ptr \in 0..Driver /\ at \in 0..Driver
    BY <1>1 DEF Init
  <2> QED
    BY <2>1, <2>3, <2>4 DEF Init, TypeOK
<1>l. LoadOK
  <2>1. {} = Driver..N /\ Driver \in 1..Driver
    BY <1>1
  <2> QED
    BY <2>1 DEF Init, LoadOK
<1>p. PointerOK
  BY DEF Init, PointerOK
<1>a. TablesOK
  BY DEF Init, TablesOK
<1>e. ExtensionsOK
  BY DEF Init, ExtensionsOK
<1>u. UnavailableOK
  BY DEF Init, UnavailableOK, Names
<1> QED
  BY <1>t, <1>l, <1>p, <1>a, <1>e, <1>u DEF Init, ProcInv, WalkOK, NoLayerSkipped

\* The invariant holds of any number of layers, and of any commands, extensions
\* and versions.
THEOREM Inductive == Spec => []ProcInv
<1>1. Init => ProcInv
  BY ProcInit
<1>2. ProcInv /\ [Next]_vars => ProcInv'
  BY ProcStepInv
<1> QED
  BY <1>1, <1>2, PTL DEF Spec

\* The tables and pointers lead to a layer, the driver or nowhere.
THEOREM TypeCorrect == Spec => []TypeOK
<1>1. ProcInv => TypeOK
  BY DEF ProcInv
<1> QED
  BY <1>1, Inductive, PTL

\* A call goes through every layer that has to see it, whichever of the two
\* commands gave the pointer and whenever it was asked for.
THEOREM NeverSkips == Spec => []NoLayerSkipped
<1>1. ProcInv => NoLayerSkipped
  BY DEF ProcInv
<1> QED
  BY <1>1, Inductive, PTL

\* The first layer from above whose manifest has the extension is given it.
LEMMA FirstClaimant ==
  ASSUME NEW e \in devExts, e \notin AskedOf(Driver)
  PROVE  \E l \in Layers : e \in Claims[l] /\ e \in AskedOf(l)
<1>1. N \in Nat /\ Layers = 1..N /\ Driver = N + 1
  BY ProcAddrAssumption DEF Layers, Driver
<1> DEFINE T == {l \in Layers : e \in Claims[l]}
<1>2. T \subseteq Nat
  BY <1>1
<1>3. T # {}
  BY <1>1 DEF AskedOf
<1>4. PICK l \in T : \A k \in T : ~ (<<k, l>> \in OpToRel(<, Nat))
  <2> HIDE DEF T
  <2> QED
    BY <1>2, <1>3, NatLessThanWellFounded, WFMin, Zenon
<1>5. \A k \in T : ~ (k < l)
  BY <1>2, <1>4 DEF OpToRel
<1>6. e \in AskedOf(l)
  BY <1>5 DEF AskedOf
<1> QED
  BY <1>6

\* What leads to nothing is a command nobody has for the device.
LEMMA NullIsDisabled ==
  ASSUME ProcInv, devUp = Layers, cmd \in DeviceCmds \cup OtherCmds,
         IsCommandEnabled(cmd, DeviceApi, devExts)
  PROVE  ~ FirstBelow(Null, 0, LocalDevice(cmd), DriverDeviceProc(cmd))
<1>1. N \in Nat \ {0} /\ Layers = 1..N /\ Driver = N + 1 /\ Null = 0
  BY ProcAddrAssumption DEF Layers, Driver, Null
<1>2. SUFFICES ASSUME FirstBelow(Null, 0, LocalDevice(cmd), DriverDeviceProc(cmd)) PROVE FALSE
  OBVIOUS
<1>3. DriverDeviceProc(cmd) = Null /\ \A k \in Layers : ~ LocalDeviceProc(cmd, k)
  BY <1>1, <1>2 DEF FirstBelow, LocalDevice
<1>4. ~ IsCommandEnabled(cmd, DeviceApi, AskedOf(Driver) \cup instExts)
  BY <1>1, <1>3 DEF DriverDeviceProc
<1>5. PICK e \in From[cmd] \cap devExts : e \notin AskedOf(Driver)
  BY <1>4 DEF IsCommandEnabled
<1>6. PICK l \in Layers : e \in Claims[l] /\ e \in AskedOf(l)
  BY <1>5, FirstClaimant
<1>7. l \in Owners(cmd)
  BY <1>5, <1>6 DEF Owners
<1>8. l \in devHooks
  BY <1>6, <1>7 DEF ProcInv, ExtensionsOK
<1>9. e \in Recognized
  BY <1>6, ProcAddrAssumption
<1>10. cmd \in DeviceCmds
  <2>1. cmd \in Cmds
    BY DEF ProcInv, TypeOK
  <2> QED
    BY <1>5, <1>9, <2>1, FeatureFacts
<1>11. IsCommandEnabled(cmd, DeviceApi, EnabledExtensions(l))
  BY <1>5, <1>6, <1>9 DEF IsCommandEnabled, EnabledExtensions
<1>12. LocalDeviceProc(cmd, l)
  BY <1>6, <1>8, <1>10, <1>11 DEF LocalDeviceProc
<1> QED
  BY <1>3, <1>6, <1>12

\* What a layer's pointer of an instance leads to nothing for, nobody has.
LEMMA NullIsUnknown ==
  ASSUME ProcInv, instUp = Layers,
         \/ cmd \in InstanceCmds /\ IsCommandEnabled(cmd, api, instExts)
         \/ cmd \in DeviceCmds \cup OtherCmds /\ IsCommandEnabled(cmd, DeviceApi, devExts)
  PROVE  ~ FirstBelow(Null, 0, LocalInstance(cmd), DriverInstanceProc(cmd))
<1>1. N \in Nat \ {0} /\ Layers = 1..N /\ Driver = N + 1 /\ Null = 0
  BY ProcAddrAssumption DEF Layers, Driver, Null
<1>2. SUFFICES ASSUME FirstBelow(Null, 0, LocalInstance(cmd), DriverInstanceProc(cmd)) PROVE FALSE
  OBVIOUS
<1>3. DriverInstanceProc(cmd) = Null /\ \A k \in Layers : ~ LocalInstanceProc(cmd, k)
  BY <1>1, <1>2 DEF FirstBelow, LocalInstance
<1>4. /\ cmd \in Cmds /\ api \in Nat /\ pdApi \in Nat /\ Since[cmd] \subseteq Nat
  BY ProcAddrAssumption DEF ProcInv, TypeOK
<1>5. CASE cmd \in InstanceCmds /\ IsCommandEnabled(cmd, api, instExts)
  <2>1. IsCommandEnabled(cmd, api, instExts \cup DriverExts)
    BY <1>5 DEF IsCommandEnabled
  <2> QED
    BY <1>1, <1>3, <1>5, <2>1 DEF DriverInstanceProc
<1>6. CASE cmd \in DeviceCmds \cup OtherCmds /\ IsCommandEnabled(cmd, DeviceApi, devExts)
  <2>1. ~ IsCommandEnabled(cmd, pdApi, instExts \cup DriverExts)
    BY <1>1, <1>3, <1>6 DEF DriverInstanceProc
  <2>2. \A v \in Since[cmd] : ~ (v <= DeviceApi)
    BY <1>4, <2>1 DEF IsCommandEnabled, DeviceApi
  <2>3. PICK e \in From[cmd] \cap devExts : e \notin DriverExts
    BY <1>6, <2>1, <2>2 DEF IsCommandEnabled
  <2>4. PICK l \in Layers : e \in Claims[l]
    BY <2>3 DEF ProcInv, ExtensionsOK, Supported
  <2>5. l \in Owners(cmd) /\ e \in Recognized
    BY <2>3, <2>4, ProcAddrAssumption DEF Owners
  <2>6. l \in anyHooks /\ cmd \in DeviceCmds
    BY <1>4, <1>6, <2>3, <2>4, <2>5, FeatureFacts DEF ProcInv, ExtensionsOK
  <2>7. IsCommandEnabled(cmd, api, Claims[l])
    BY <2>3, <2>4 DEF IsCommandEnabled
  <2>8. LocalInstanceProc(cmd, l)
    BY <2>4, <2>6, <2>7 DEF LocalInstanceProc
  <2> QED
    BY <1>3, <2>4, <2>8
<1> QED
  BY <1>5, <1>6

\* What the application holds leads as the first layer answers.
LEMMA PointerIsFirst ==
  ASSUME ProcInv
  PROVE  /\ 1 \in Layers /\ cmd \in Names
         /\ route = "instance" =>
              instUp = Layers /\ FirstBelow(ptr, 0, LocalInstance(cmd), DriverInstanceProc(cmd))
         /\ route = "device" =>
              devUp = Layers /\ FirstBelow(ptr, 0, LocalDevice(cmd), DriverDeviceProc(cmd))
<1>1. 1 \in Layers /\ 1 - 1 = 0 /\ cmd \in Names
  BY ProcAddrAssumption DEF Layers, Names
<1>2. CASE route = "instance"
  <2>1. instUp = Layers /\ ptr = GetInstanceProcAddr(cmd, 1)
    BY <1>2 DEF ProcInv, PointerOK, LoadOK
  <2> QED
    BY <1>1, <1>2, <2>1, AnswerIsFirst
<1>3. CASE route = "device"
  <2>1. devUp = Layers /\ ptr = GetDeviceProcAddr(cmd, 1)
    BY <1>3 DEF ProcInv, PointerOK
  <2> QED
    BY <1>1, <1>3, <2>1, AnswerIsFirst
<1> QED
  BY <1>1, <1>2, <1>3

\* A command that is enabled where it belongs has a pointer, from both commands,
\* and a call through it finds an entry in every table it comes to whose version
\* or extension is enabled.
THEOREM NoDeadEnds == Spec => []NeverDeadEnd
<1>1. ASSUME ProcInv PROVE NeverDeadEnd
  <2>1. phase = "call" /\ TableEnabled => at # Null
    BY <1>1 DEF ProcInv, WalkOK
  <2>2. cmd \in Cmds
    BY <1>1 DEF ProcInv, TypeOK
  <2>3. ASSUME Usable, EnabledInPlace
        PROVE  \/ cmd \in InstanceCmds /\ IsCommandEnabled(cmd, api, instExts)
               \/ /\ cmd \in DeviceCmds \cup OtherCmds /\ cmd \notin InstanceCmds
                  /\ IsCommandEnabled(cmd, DeviceApi, devExts)
    BY <2>2, <2>3 DEF Usable, EnabledInPlace, IsCommandEnabled, Cmds
  <2>4. route = "device" /\ Usable /\ EnabledInPlace /\ cmd \notin InstanceCmds => ptr # Null
    BY <1>1, <2>3, PointerIsFirst, NullIsDisabled
  <2>5. route = "instance" /\ Usable /\ EnabledInPlace => ptr # Null
    BY <1>1, <2>3, PointerIsFirst, NullIsUnknown
  <2> QED
    BY <2>1, <2>4, <2>5 DEF NeverDeadEnd
<1> QED
  BY <1>1, Inductive, PTL

\* A command that nothing enables has no pointer, from either command.
THEOREM NullIfDisabled == Spec => []DisabledIsNull
<1>1. ASSUME ProcInv PROVE DisabledIsNull
  <2>0. /\ N \in Nat \ {0} /\ Layers = 1..N /\ Driver = N + 1 /\ Null = 0
    BY ProcAddrAssumption DEF Layers, Driver, Null
  <2>1. /\ cmd \in Cmds /\ api \in Nat /\ pdApi \in Nat /\ Since[cmd] \subseteq Nat
        /\ InstanceCmds \cap (DeviceCmds \cup OtherCmds) = {}
        /\ GlobalCmds \cap (InstanceCmds \cup DeviceCmds) = {}
    BY <1>1, ProcAddrAssumption DEF ProcInv, TypeOK
  <2>2. ASSUME route = "device", ~ IsCommandEnabled(cmd, DeviceApi, devExts \cup instExts)
        PROVE  ptr = Null
    <3>1. FirstBelow(ptr, 0, LocalDevice(cmd), DriverDeviceProc(cmd))
      BY <1>1, <2>2, PointerIsFirst
    <3>2. \A l \in 1..Driver : AskedOf(l) \subseteq devExts
      BY DEF AskedOf
    <3>3. LocalDevice(cmd) = {}
      BY <2>0, <2>2, <3>2 DEF LocalDevice, LocalDeviceProc, IsCommandEnabled, EnabledExtensions
    <3>4. DriverDeviceProc(cmd) = Null
      BY <2>0, <2>2, <3>2 DEF DriverDeviceProc, IsCommandEnabled
    <3> QED
      BY <3>1, <3>3, <3>4 DEF FirstBelow
  <2>3. ASSUME route = "instance", cmd \in InstanceCmds, ~ Usable
        PROVE  ptr = Null
    <3>1. FirstBelow(ptr, 0, LocalInstance(cmd), DriverInstanceProc(cmd))
      BY <1>1, <2>3, PointerIsFirst
    <3>2. ~ IsCommandEnabled(cmd, api, instExts \cup Supported)
      BY <2>3 DEF Usable
    <3>3. LocalInstance(cmd) = {}
      BY <2>1, <2>3, <3>2 DEF LocalInstance, LocalInstanceProc, IsCommandEnabled
    <3>4. DriverInstanceProc(cmd) = Null
      BY <2>1, <2>3, <3>2 DEF DriverInstanceProc, IsCommandEnabled, Supported
    <3> QED
      BY <3>1, <3>3, <3>4 DEF FirstBelow
  <2>4. ASSUME route = "instance", Unavailable
        PROVE  ptr = Null
    <3>1. FirstBelow(ptr, 0, LocalInstance(cmd), DriverInstanceProc(cmd))
      BY <1>1, <2>4, PointerIsFirst
    <3>2. /\ cmd \notin GlobalCmds /\ cmd \notin InstanceCmds
          /\ \A v \in Since[cmd] : ~ (v <= api) /\ ~ (v <= pdApi)
          /\ Owners(cmd) = {} /\ From[cmd] \cap (instExts \cup DriverExts) = {}
          /\ \A l \in Layers : instNext[cmd][l] = Null
      BY <1>1, <2>1, <2>4 DEF ProcInv, Unavailable, UnavailableOK
    <3>3. LocalInstance(cmd) = {}
      <4>1. \A l \in Layers : From[cmd] \cap Claims[l] = {}
        BY <3>2 DEF Owners
      <4> QED
        BY <3>2, <4>1 DEF LocalInstance, LocalInstanceProc, IsCommandEnabled
    <3>4. DriverInstanceProc(cmd) = Null
      BY <3>2 DEF DriverInstanceProc, IsCommandEnabled
    <3> QED
      BY <3>1, <3>3, <3>4 DEF FirstBelow
  <2> QED
    BY <2>2, <2>3, <2>4 DEF DisabledIsNull, Unavailable
<1> QED
  BY <1>1, Inductive, PTL
=============================================================================
