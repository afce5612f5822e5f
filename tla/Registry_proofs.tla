--------------------------- MODULE Registry_proofs ---------------------------
(* The invariant of RegistryInv is inductive, and the safety properties of *)
(* Registry follow from it, for any number of threads and objects.         *)
(*                                                                         *)
(* One lemma per action. The conjuncts of IInv are proved one by one, in   *)
(* steps named t (types), n (no panic), k (keys), i, p, d (the entries of  *)
(* the three maps), f (locals), e (exclusive use), l (locks), a (allocated *)
(* collections), o (owners).                                               *)
EXTENDS RegistryInv, TLAPS

\* The locals of an idle thread are well typed.
LEMMA NoFrameType == NoFrame \in Frame
  BY DEF NoFrame, Frame, Option

\* Each field of the locals of a call has its type.
LEMMA FieldTypes ==
  ASSUME TypeOK, NEW u \in Threads
  PROVE  /\ frame[u].inst \in Instances \cup {None}
         /\ frame[u].pd \in PhysDevs \cup {None}
         /\ frame[u].dev \in Devices \cup {None}
         /\ frame[u].info \in InstInfo \cup {None}
         /\ frame[u].custom \in Customs \cup {None}
         /\ frame[u].todo \subseteq PhysDevs
         /\ frame[u].got \subseteq PhysDevs
  BY DEF TypeOK, Frame, Option

\* What is found in instance_map is the info of some instance.
LEMMA EntryTypes ==
  ASSUME TypeOK, NEW k \in Keys, instMap[k] # None
  PROVE  instMap[k] \in InstInfo /\ instMap[k].inst \in Instances
  BY DEF TypeOK, InstInfo, Option

\* A thread that has returned has consistent locals.
LEMMA IdleFrameOK ==
  ASSUME NEW t \in Threads, pc'[t] = "idle", frame'[t] = NoFrame
  PROVE  FrameOK(t)'
  BY NoneIsNothing DEF FrameOK, NoFrame, Owning, Option, CreatingInstance,
     DestroyingInstance, CreatingDevice, DestroyingDevice, OfInstance, OfPhysDev,
     Enumerating

-----------------------------------------------------------------------------
(* Steps that move one thread and leave the maps and the locks alone.      *)

\* A step that only moves one thread, outside the points where it owns an
\* object or a lock, and leaves its locals consistent.
LEMMA LocalStep ==
  ASSUME IInv, NEW t \in Threads, NEW l \in Labels \ Owning, NEW f \in Frame,
         pc[t] \notin Owning,
         pc' = [pc EXCEPT ![t] = l],
         frame' = [frame EXCEPT ![t] = f],
         health' = "running",
         UNCHANGED <<maps, lock, nextVars, appVars>>,
         FrameOK(t)'
  PROVE  IInv'
<1>1. UNCHANGED <<instMap, pdMap, devMap, alloc, lock, instKey, pdOwner, devPd,
                  instCustom, devCustom, appInst, appPd, appDev>>
  BY DEF maps, nextVars, appVars
<1>2. /\ \A u \in Threads : frame'[u] = IF u = t THEN f ELSE frame[u]
      /\ \A u \in Threads : pc'[u] = IF u = t THEN l ELSE pc[u]
  BY DEF IInv, TypeOK
<1>3. /\ f.inst \in appInst \cup {None} /\ f.pd \in appPd \cup {None}
      /\ f.dev \in appDev \cup {None}
  BY <1>1, <1>2 DEF FrameOK, Option
<1>t. TypeOK'
  BY <1>1 DEF IInv, TypeOK
<1>n. NoPanic'
  BY DEF NoPanic
<1>k. KeysDistinct'
  BY <1>1 DEF IInv, KeysDistinct
<1>i. InstancesRegistered'
  BY <1>1, <1>2 DEF IInv, InstancesRegistered,
     Owning, CreatingInstance, DestroyingInstance, CreatingDevice, DestroyingDevice
<1>p. PhysicalDevicesRegistered'
  BY <1>1, <1>2 DEF IInv, PhysicalDevicesRegistered,
     Owning, CreatingInstance, DestroyingInstance, CreatingDevice, DestroyingDevice
<1>d. DevicesRegistered'
  BY <1>1, <1>2 DEF IInv, DevicesRegistered,
     Owning, CreatingInstance, DestroyingInstance, CreatingDevice, DestroyingDevice
<1>f. FramesOK'
  <2>1. ASSUME NEW u \in Threads, u # t
        PROVE  FrameOK(u)'
    BY <2>1, <1>1, <1>2 DEF IInv, FramesOK, FrameOK
  <2>2. QED
    BY <2>1 DEF FramesOK
<1>e. Exclusive'
  <2>1. ASSUME NEW u \in Threads, pc[u] \in CreatingInstance \cup DestroyingInstance
        PROVE  /\ frame[u].inst # None /\ frame[u].inst \notin appInst
    <3>1. FrameOK(u)
      BY DEF IInv, FramesOK
    <3>2. QED
      BY <2>1, <3>1 DEF FrameOK
  <2>2. ASSUME NEW u \in Threads, pc[u] \in CreatingDevice \cup DestroyingDevice
        PROVE  /\ frame[u].dev # None /\ frame[u].dev \notin appDev
    <3>1. FrameOK(u)
      BY DEF IInv, FramesOK
    <3>2. QED
      BY <2>2, <3>1 DEF FrameOK
  <2>3. f.pd # None => pdOwner[f.pd] \in appInst
    BY <1>3, NoneIsNothing DEF IInv, PhysicalDevicesRegistered
  <2>4. ASSUME NEW u \in Threads, u # t,
               pc[u] \in CreatingInstance \cup DestroyingInstance
        PROVE  ~ UsesInstance(t, frame[u].inst)'
    BY <2>1, <2>3, <2>4, <1>1, <1>2, <1>3 DEF UsesInstance
  <2>5. ASSUME NEW u \in Threads, u # t,
               pc[u] \in CreatingDevice \cup DestroyingDevice
        PROVE  frame'[t].dev # frame'[u].dev
    BY <2>2, <2>5, <1>1, <1>2, <1>3
  <2>6. ASSUME NEW u \in Threads, NEW w \in Threads, u # w, w # t,
               pc'[u] \in CreatingInstance \cup DestroyingInstance
        PROVE  ~ UsesInstance(w, frame[u].inst)'
    BY <2>6, <1>1, <1>2 DEF IInv, Exclusive, UsesInstance, Owning, CreatingInstance,
       DestroyingInstance
  <2>7. ASSUME NEW u \in Threads, NEW w \in Threads, u # w, w # t,
               pc'[u] \in CreatingDevice \cup DestroyingDevice
        PROVE  frame'[w].dev # frame'[u].dev
    BY <2>7, <1>1, <1>2 DEF IInv, Exclusive, Owning, CreatingDevice, DestroyingDevice
  <2>8. pc'[t] \notin CreatingInstance \cup DestroyingInstance \cup CreatingDevice
                        \cup DestroyingDevice
    BY <1>2 DEF Owning, CreatingInstance, DestroyingInstance, CreatingDevice,
       DestroyingDevice
  <2>9. QED
    BY <2>4, <2>5, <2>6, <2>7, <2>8, <1>2 DEF Exclusive
<1>l. LocksHeld'
  BY <1>1, <1>2 DEF IInv, LocksHeld,
     Owning, CreatingInstance, DestroyingInstance, CreatingDevice, DestroyingDevice
<1>a. AllocatedWhenUsed'
  BY <1>1 DEF IInv, AllocatedWhenUsed, Free
<1>o. NothingLost'
  <2>1. frame[t].inst \in appInst \cup {None} /\ frame[t].dev \in appDev \cup {None}
    <3>1. FrameOK(t)
      BY DEF IInv, FramesOK
    <3>2. QED
      BY <3>1 DEF FrameOK, Option
  <2>2. QED
    BY <2>1, <1>1, <1>2, NoneIsNothing DEF IInv, NothingLost, TypeOK
<1> QED
  BY <1>t, <1>n, <1>k, <1>i, <1>p, <1>d, <1>f, <1>e, <1>l, <1>a, <1>o DEF IInv

\* A handler that returns from a point where it owns nothing.
LEMMA ReturnStep ==
  ASSUME IInv, NEW t \in Threads, pc[t] \notin Owning, Return(t),
         UNCHANGED <<maps, lock, health, nextVars, appVars>>
  PROVE  IInv'
<1>1. FrameOK(t)'
  <2>1. pc'[t] = "idle" /\ frame'[t] = NoFrame
    BY DEF Return, IInv, TypeOK
  <2>2. QED
    BY <2>1, IdleFrameOK
<1>2. "idle" \in Labels \ Owning
  BY DEF Labels, Owning, CreatingInstance, DestroyingInstance, CreatingDevice,
     DestroyingDevice
<1>3. health' = "running"
  BY DEF IInv, NoPanic
<1>4. QED
  BY <1>1, <1>2, <1>3, LocalStep, NoFrameType DEF Return

\* The returns that leave nothing behind: errors, counts, other commands.
LEMMA RefusePreserves ==
  ASSUME IInv, NEW t \in Threads,
         \/ RefuseInstance(t) \/ EnumerateNothing(t) \/ RefuseDevice(t)
         \/ CommandReturn(t)
  PROVE  IInv'
  BY ReturnStep DEF RefuseInstance, EnumerateNothing, RefuseDevice, CommandReturn,
     Owning, CreatingInstance, DestroyingInstance, CreatingDevice, DestroyingDevice

\* A call that starts at a point where it owns nothing.
LEMMA CallStep ==
  ASSUME IInv, NEW t \in Threads, NEW l \in Labels \ Owning, NEW f \in Frame,
         Call(t, l, f), UNCHANGED <<maps, lock, health, nextVars, appVars>>,
         FrameOK(t)'
  PROVE  IInv'
  BY LocalStep DEF Call, IInv, NoPanic, Owning, CreatingInstance, DestroyingInstance,
     CreatingDevice, DestroyingDevice

\* vkCreateInstance is called.
LEMMA CreateInstancePreserves ==
  ASSUME IInv, NEW t \in Threads, CreateInstance(t)
  PROVE  IInv'
<1>1. pc'[t] = "ci_next" /\ frame'[t] = NoFrame
  BY DEF CreateInstance, Call, IInv, TypeOK
<1>2. FrameOK(t)'
  BY <1>1, NoneIsNothing DEF FrameOK, NoFrame, Owning, Option, CreatingInstance,
     DestroyingInstance, CreatingDevice, DestroyingDevice, OfInstance, OfPhysDev,
     Enumerating
<1>3. "ci_next" \in Labels \ Owning
  BY DEF Labels, Owning, CreatingInstance, DestroyingInstance, CreatingDevice,
     DestroyingDevice
<1>4. QED
  BY <1>2, <1>3, CallStep, NoFrameType DEF CreateInstance

\* The commands that are called with an instance.
LEMMA InstanceCallPreserves ==
  ASSUME IInv, NEW t \in Threads, NEW i \in Instances,
         EnumeratePhysicalDevices(t, i) \/ InstanceCommand(t, i)
  PROVE  IInv'
<1> DEFINE f == [NoFrame EXCEPT !.inst = i]
<1>1. /\ f \in Frame /\ f.inst = i /\ f.pd = None /\ f.dev = None
      /\ f.info = None /\ f.custom = None /\ f.todo = {} /\ f.got = {}
  BY DEF NoFrame, Frame, Option
<1> HIDE DEF f
<1>2. PICK l \in {"ep_get", "ic_get"} : Call(t, l, f)
  BY DEF EnumeratePhysicalDevices, InstanceCommand, f
<1>3. /\ pc'[t] = l /\ frame'[t] = f
      /\ i \in appInst /\ appInst' = appInst /\ instKey' = instKey
      /\ UNCHANGED <<maps, lock, health, nextVars, appVars>>
  BY <1>2 DEF EnumeratePhysicalDevices, InstanceCommand, Call, IInv, TypeOK, appVars,
     nextVars
<1>4. instKey[i] # None
  BY <1>3 DEF IInv, InstancesRegistered
<1>5. FrameOK(t)'
  BY <1>1, <1>3, <1>4 DEF FrameOK, Owning, Option, CreatingInstance,
     DestroyingInstance, CreatingDevice, DestroyingDevice, OfInstance, OfPhysDev,
     Enumerating
<1>6. l \in Labels \ Owning
  BY DEF Labels, Owning, CreatingInstance, DestroyingInstance, CreatingDevice,
     DestroyingDevice
<1>7. QED
  BY <1>1, <1>2, <1>3, <1>5, <1>6, CallStep

\* The commands that are called with a physical device, and go by its handle.
LEMMA PhysicalDeviceCallPreserves ==
  ASSUME IInv, NEW t \in Threads, NEW p \in PhysDevs,
         CreateDevice(t, p) \/ EnumerateDeviceExtensions(t, p)
  PROVE  IInv'
<1> DEFINE f == [NoFrame EXCEPT !.pd = p]
<1>1. /\ f \in Frame /\ f.inst = None /\ f.pd = p /\ f.dev = None
      /\ f.info = None /\ f.custom = None
  BY DEF NoFrame, Frame, Option
<1> HIDE DEF f
<1>2. PICK l \in {"cd_pd", "xp_pd"} : Call(t, l, f)
  BY DEF CreateDevice, EnumerateDeviceExtensions, f
<1>3. /\ pc'[t] = l /\ frame'[t] = f
      /\ p \in appPd /\ appPd' = appPd /\ pdOwner' = pdOwner
      /\ UNCHANGED <<maps, lock, health, nextVars, appVars>>
  BY <1>2 DEF CreateDevice, EnumerateDeviceExtensions, Call, IInv, TypeOK, appVars,
     nextVars
<1>4. pdOwner[p] # None
  BY <1>3, NoneIsNothing DEF IInv, TypeOK, PhysicalDevicesRegistered
<1>5. FrameOK(t)'
  BY <1>1, <1>3, <1>4 DEF FrameOK, Owning, Option, CreatingInstance,
     DestroyingInstance, CreatingDevice, DestroyingDevice, OfInstance, OfPhysDev,
     Enumerating
<1>6. l \in Labels \ Owning
  BY DEF Labels, Owning, CreatingInstance, DestroyingInstance, CreatingDevice,
     DestroyingDevice
<1>7. QED
  BY <1>1, <1>2, <1>3, <1>5, <1>6, CallStep

\* A command on a physical device goes by the dispatch key of its instance.
LEMMA PhysicalDeviceCommandPreserves ==
  ASSUME IInv, NEW t \in Threads, NEW p \in PhysDevs, PhysicalDeviceCommand(t, p)
  PROVE  IInv'
<1>1. p \in appPd /\ pdOwner[p] \in appInst /\ pdOwner[p] \in Instances
  BY DEF PhysicalDeviceCommand, IInv, TypeOK, PhysicalDevicesRegistered
<1> DEFINE f == [NoFrame EXCEPT !.pd = p, !.inst = pdOwner[p]]
<1>2. /\ f \in Frame /\ f.inst = pdOwner[p] /\ f.pd = p /\ f.dev = None
      /\ f.info = None /\ f.custom = None
  BY <1>1 DEF NoFrame, Frame, Option
<1> HIDE DEF f
<1>3. Call(t, "ic_get", f)
  BY DEF PhysicalDeviceCommand, f
<1>4. /\ pc'[t] = "ic_get" /\ frame'[t] = f
      /\ UNCHANGED <<maps, lock, health, nextVars, appVars>>
      /\ UNCHANGED <<appInst, appPd, instKey, pdOwner>>
  BY <1>3 DEF PhysicalDeviceCommand, Call, IInv, TypeOK, appVars, nextVars
<1>5. instKey[pdOwner[p]] # None /\ pdOwner[p] # None
  BY <1>1, NoneIsNothing DEF IInv, InstancesRegistered
<1>6. FrameOK(t)'
  BY <1>1, <1>2, <1>4, <1>5 DEF FrameOK, Owning, Option, CreatingInstance,
     DestroyingInstance, CreatingDevice, DestroyingDevice, OfInstance, OfPhysDev,
     Enumerating
<1>7. "ic_get" \in Labels \ Owning
  BY DEF Labels, Owning, CreatingInstance, DestroyingInstance, CreatingDevice,
     DestroyingDevice
<1>8. QED
  BY <1>2, <1>3, <1>4, <1>6, <1>7, CallStep

\* A command on a device.
LEMMA DeviceCommandPreserves ==
  ASSUME IInv, NEW t \in Threads, NEW v \in Devices, DeviceCommand(t, v)
  PROVE  IInv'
<1> DEFINE f == [NoFrame EXCEPT !.dev = v]
<1>1. /\ f \in Frame /\ f.inst = None /\ f.pd = None /\ f.dev = v
      /\ f.info = None /\ f.custom = None
  BY DEF NoFrame, Frame, Option
<1> HIDE DEF f
<1>2. Call(t, "dc_get", f)
  BY DEF DeviceCommand, f
<1>3. /\ pc'[t] = "dc_get" /\ frame'[t] = f
      /\ v \in appDev /\ appDev' = appDev /\ devPd' = devPd
      /\ UNCHANGED <<maps, lock, health, nextVars, appVars>>
  BY <1>2 DEF DeviceCommand, Call, IInv, TypeOK, appVars, nextVars
<1>4. devPd[v] # None
  BY <1>3 DEF IInv, DevicesRegistered
<1>5. FrameOK(t)'
  BY <1>1, <1>3, <1>4 DEF FrameOK, Owning, Option, CreatingInstance,
     DestroyingInstance, CreatingDevice, DestroyingDevice, OfInstance, OfPhysDev,
     Enumerating
<1>6. "dc_get" \in Labels \ Owning
  BY DEF Labels, Owning, CreatingInstance, DestroyingInstance, CreatingDevice,
     DestroyingDevice
<1>7. QED
  BY <1>1, <1>2, <1>3, <1>5, <1>6, CallStep

\* get_instance_info finds the info of the instance the call is about.
LEMMA LookupInstancePreserves ==
  ASSUME IInv, NEW t \in Threads,
         \/ LookupInstance(t, "ep_get", "ep_next")
         \/ LookupInstance(t, "cd_inst", "cd_next")
         \/ LookupInstance(t, "xp_inst", "xp_next")
         \/ LookupInstance(t, "ic_get", "ic_next")
  PROVE  IInv'
<1>1. PICK from \in {"ep_get", "cd_inst", "xp_inst", "ic_get"},
           to \in {"ep_next", "cd_next", "xp_next", "ic_next"} :
        /\ LookupInstance(t, from, to)
        /\ \/ from = "ep_get" /\ to = "ep_next"
           \/ from = "cd_inst" /\ to = "cd_next"
           \/ from = "xp_inst" /\ to = "xp_next"
           \/ from = "ic_get" /\ to = "ic_next"
  OBVIOUS
<1>2. pc[t] = from /\ pc' = [pc EXCEPT ![t] = to]
  BY <1>1 DEF LookupInstance, Goto
<1> DEFINE i == frame[t].inst
<1> DEFINE info == [inst |-> i, custom |-> instCustom[i]]
<1> DEFINE f == [frame[t] EXCEPT !.info = info]
<1>3. FrameOK(t) /\ i \in appInst /\ i \in Instances /\ instKey[i] # None
  BY <1>2 DEF IInv, FramesOK, FrameOK, OfInstance, OfPhysDev, InstancesRegistered,
     TypeOK
<1>4. GetInstanceInfo(i) = info /\ info \in InstInfo /\ info # None
  <2>1. GetInstanceInfo(i) = info
    BY <1>3 DEF GetInstanceInfo, IInv, InstancesRegistered
  <2>2. instCustom[i] \in Customs
    BY <1>3 DEF IInv, TypeOK, KeysDistinct, Option
  <2>3. QED
    BY <2>1, <2>2, <1>3, NoneIsNothing DEF InstInfo
<1>5. frame' = [frame EXCEPT ![t] = f]
  <2>1. frame' = [frame EXCEPT ![t].info = info]
    BY <1>1, <1>4 DEF LookupInstance
  <2>2. QED
    BY <2>1 DEF IInv, TypeOK
<1>6. f \in Frame /\ f.info = info /\ f.inst = i /\ f.pd = frame[t].pd
      /\ f.dev = frame[t].dev /\ f.custom = frame[t].custom
      /\ f.todo = frame[t].todo /\ f.got = frame[t].got
  <2>1. frame[t] \in Frame
    BY DEF IInv, TypeOK
  <2>2. QED
    BY <2>1, <1>4 DEF Frame, Option
<1>7. health' = "running" /\ UNCHANGED <<maps, lock, nextVars, appVars>>
  BY <1>1, <1>4 DEF LookupInstance, Require
<1>8. frame'[t] = f /\ pc'[t] = to
  BY <1>2, <1>5 DEF IInv, TypeOK
<1> HIDE DEF f, info
<1>9. FrameOK(t)'
  <2>1. UNCHANGED <<instMap, pdMap, devMap, instKey, pdOwner, devPd, instCustom,
                    devCustom, appInst, appPd, appDev>>
    BY <1>7 DEF maps, nextVars, appVars
  <2>2. f.info = [inst |-> f.inst, custom |-> instCustom[f.inst]] /\ f.inst # None
    BY <1>6, <1>3, NoneIsNothing DEF info
  <2>3. QED
    BY <2>1, <2>2, <1>1, <1>2, <1>3, <1>6, <1>8 DEF FrameOK, Owning, Option,
       CreatingInstance, DestroyingInstance, CreatingDevice, DestroyingDevice,
       OfInstance, OfPhysDev, Enumerating
<1>10. to \in Labels \ Owning /\ pc[t] \notin Owning
  BY <1>2 DEF Labels, Owning, CreatingInstance, DestroyingInstance, CreatingDevice,
     DestroyingDevice
<1>11. QED
  BY <1>2, <1>5, <1>6, <1>7, <1>9, <1>10, LocalStep

\* get_physical_info finds the owner, which is an instance in use.
LEMMA LookupPhysicalDevicePreserves ==
  ASSUME IInv, NEW t \in Threads,
         \/ LookupPhysicalDevice(t, "cd_pd", "cd_inst")
         \/ LookupPhysicalDevice(t, "xp_pd", "xp_inst")
  PROVE  IInv'
<1>1. PICK from \in {"cd_pd", "xp_pd"}, to \in {"cd_inst", "xp_inst"} :
        LookupPhysicalDevice(t, from, to)
  OBVIOUS
<1>2. pc[t] = from /\ pc' = [pc EXCEPT ![t] = to]
  BY <1>1 DEF LookupPhysicalDevice, Goto
<1> DEFINE p == frame[t].pd
<1> DEFINE i == pdMap[p]
<1> DEFINE f == [frame[t] EXCEPT !.inst = i]
<1>3. /\ FrameOK(t) /\ p \in appPd /\ p \in PhysDevs /\ frame[t].inst = None
      /\ frame[t].info = None
  BY <1>2 DEF IInv, FramesOK, FrameOK, OfPhysDev, TypeOK
<1>4. /\ i = pdOwner[p] /\ i \in appInst /\ i \in Instances /\ i # None
      /\ instKey[i] # None
  BY <1>3, NoneIsNothing DEF IInv, TypeOK, PhysicalDevicesRegistered,
     InstancesRegistered
<1>5. frame' = [frame EXCEPT ![t] = f]
  BY <1>1 DEF LookupPhysicalDevice, IInv, TypeOK
<1>6. f \in Frame /\ f.info = None /\ f.inst = i /\ f.pd = p
      /\ f.dev = frame[t].dev /\ f.custom = frame[t].custom
      /\ f.todo = frame[t].todo /\ f.got = frame[t].got
  <2>1. frame[t] \in Frame
    BY DEF IInv, TypeOK
  <2>2. QED
    BY <2>1, <1>3, <1>4 DEF Frame, Option
<1>7. health' = "running" /\ UNCHANGED <<maps, lock, nextVars, appVars>>
  BY <1>1, <1>4 DEF LookupPhysicalDevice, Require
<1>8. frame'[t] = f /\ pc'[t] = to
  BY <1>2, <1>5 DEF IInv, TypeOK
<1> HIDE DEF f
<1>9. FrameOK(t)'
  <2>1. UNCHANGED <<instMap, pdMap, devMap, instKey, pdOwner, devPd, instCustom,
                    devCustom, appInst, appPd, appDev>>
    BY <1>7 DEF maps, nextVars, appVars
  <2>2. QED
    BY <2>1, <1>2, <1>3, <1>4, <1>6, <1>8 DEF FrameOK, Owning, Option,
       CreatingInstance, DestroyingInstance, CreatingDevice, DestroyingDevice,
       OfInstance, OfPhysDev, Enumerating
<1>10. to \in Labels \ Owning /\ pc[t] \notin Owning
  BY <1>2 DEF Labels, Owning, CreatingInstance, DestroyingInstance, CreatingDevice,
     DestroyingDevice
<1>11. QED
  BY <1>2, <1>5, <1>6, <1>7, <1>9, <1>10, LocalStep

\* get_device_info finds the info of the device the call is about.
LEMMA LookupDevicePreserves ==
  ASSUME IInv, NEW t \in Threads, LookupDevice(t)
  PROVE  IInv'
<1> DEFINE v == frame[t].dev
<1> DEFINE f == [frame[t] EXCEPT !.custom = devMap[v]]
<1>1. FrameOK(t) /\ v \in appDev /\ v \in Devices /\ pc[t] = "dc_get"
  BY DEF LookupDevice, IInv, FramesOK, FrameOK, TypeOK
<1>2. devMap[v] = devCustom[v] /\ devMap[v] \in Customs /\ devMap[v] # None
  BY <1>1, NoneIsNothing DEF IInv, TypeOK, DevicesRegistered, Option
<1>3. frame' = [frame EXCEPT ![t] = f]
  BY DEF LookupDevice, IInv, TypeOK
<1>4. f \in Frame /\ f.info = frame[t].info /\ f.inst = frame[t].inst
      /\ f.pd = frame[t].pd /\ f.dev = v /\ f.custom = devMap[v]
      /\ f.todo = frame[t].todo /\ f.got = frame[t].got
  <2>1. frame[t] \in Frame
    BY DEF IInv, TypeOK
  <2>2. QED
    BY <2>1, <1>2 DEF Frame, Option
<1>5. health' = "running" /\ UNCHANGED <<maps, lock, nextVars, appVars>>
  BY <1>2 DEF LookupDevice, Require
<1>6. frame'[t] = f /\ pc' = [pc EXCEPT ![t] = "dc_next"] /\ pc'[t] = "dc_next"
  BY <1>3 DEF LookupDevice, Goto, IInv, TypeOK
<1> HIDE DEF f
<1>7. FrameOK(t)'
  <2>1. UNCHANGED <<instMap, pdMap, devMap, instKey, pdOwner, devPd, instCustom,
                    devCustom, appInst, appPd, appDev>>
    BY <1>5 DEF maps, nextVars, appVars
  <2>2. v # None
    BY <1>1, NoneIsNothing
  <2>3. QED
    BY <2>1, <2>2, <1>1, <1>2, <1>4, <1>6 DEF FrameOK, Owning, Option,
       CreatingInstance, DestroyingInstance, CreatingDevice, DestroyingDevice,
       OfInstance, OfPhysDev, Enumerating
<1>8. "dc_next" \in Labels \ Owning /\ pc[t] \notin Owning
  BY <1>1 DEF Labels, Owning, CreatingInstance, DestroyingInstance, CreatingDevice,
     DestroyingDevice
<1>9. QED
  BY <1>3, <1>4, <1>5, <1>6, <1>7, <1>8, LocalStep

\* The next layer only returns physical devices of the instance.
LEMMA NextEnumeratePreserves ==
  ASSUME IInv, NEW t \in Threads, NextEnumerate(t)
  PROVE  IInv'
<1>1. PICK P \in SUBSET {p \in PhysDevs : pdOwner[p] = frame[t].inst} :
        frame' = [frame EXCEPT ![t].todo = P, ![t].got = P]
  BY DEF NextEnumerate
<1> DEFINE f == [frame[t] EXCEPT !.todo = P, !.got = P]
<1>2. FrameOK(t) /\ pc[t] = "ep_next"
  BY DEF NextEnumerate, IInv, FramesOK
<1>3. frame' = [frame EXCEPT ![t] = f]
  BY <1>1 DEF IInv, TypeOK
<1>4. f \in Frame /\ f.info = frame[t].info /\ f.inst = frame[t].inst
      /\ f.pd = frame[t].pd /\ f.dev = frame[t].dev /\ f.custom = frame[t].custom
      /\ f.todo = P /\ f.got = P
  <2>1. frame[t] \in Frame
    BY DEF IInv, TypeOK
  <2>2. QED
    BY <2>1 DEF Frame
<1>5. health' = "running" /\ UNCHANGED <<maps, lock, nextVars, appVars>>
  BY DEF NextEnumerate, IInv, NoPanic
<1>6. frame'[t] = f /\ pc' = [pc EXCEPT ![t] = "ep_each"] /\ pc'[t] = "ep_each"
  BY <1>3 DEF NextEnumerate, Goto, IInv, TypeOK
<1> HIDE DEF f
<1>7. FrameOK(t)'
  <2>1. UNCHANGED <<instMap, pdMap, devMap, instKey, pdOwner, devPd, instCustom,
                    devCustom, appInst, appPd, appDev>>
    BY <1>5 DEF maps, nextVars, appVars
  <2>2. \A p \in P : pdOwner[p] = frame[t].inst
    OBVIOUS
  <2>3. QED
    BY <2>1, <2>2, <1>2, <1>4, <1>6 DEF FrameOK, Owning, Option,
       CreatingInstance, DestroyingInstance, CreatingDevice, DestroyingDevice,
       OfInstance, OfPhysDev, Enumerating
<1>8. "ep_each" \in Labels \ Owning /\ pc[t] \notin Owning
  BY <1>2 DEF Labels, Owning, CreatingInstance, DestroyingInstance, CreatingDevice,
     DestroyingDevice
<1>9. QED
  BY <1>3, <1>4, <1>5, <1>6, <1>7, <1>8, LocalStep

-----------------------------------------------------------------------------
(* create_instance and destroy_instance.                                   *)

\* No object in a thread's own hands becomes shared when no call uses more than
\* it did.
LEMMA ExclusiveKept ==
  ASSUME IInv, NEW t \in Threads,
         \A u \in Threads, i \in Instances : UsesInstance(u, i)' => UsesInstance(u, i),
         \A u \in Threads, v \in Devices : frame'[u].dev = v => frame[u].dev = v,
         \A u \in Threads : u # t => /\ pc'[u] = pc[u]
                                     /\ frame'[u].inst = frame[u].inst
                                     /\ frame'[u].dev = frame[u].dev,
         pc'[t] \in CreatingInstance \cup DestroyingInstance =>
           /\ pc[t] \in CreatingInstance \cup DestroyingInstance
           /\ frame'[t].inst = frame[t].inst,
         pc'[t] \in CreatingDevice \cup DestroyingDevice =>
           /\ pc[t] \in CreatingDevice \cup DestroyingDevice
           /\ frame'[t].dev = frame[t].dev
  PROVE  Exclusive'
<1>1. ASSUME NEW u \in Threads, pc[u] \in CreatingInstance \cup DestroyingInstance
      PROVE  frame[u].inst \in Instances
  <2>1. FrameOK(u)
    BY DEF IInv, FramesOK
  <2>2. QED
    BY <1>1, <2>1, FieldTypes DEF FrameOK, IInv
<1>2. ASSUME NEW u \in Threads, pc[u] \in CreatingDevice \cup DestroyingDevice
      PROVE  frame[u].dev \in Devices
  <2>1. FrameOK(u)
    BY DEF IInv, FramesOK
  <2>2. QED
    BY <1>2, <2>1, FieldTypes DEF FrameOK, IInv
<1>3. ASSUME NEW u \in Threads, NEW w \in Threads, u # w,
             pc'[u] \in CreatingInstance \cup DestroyingInstance
      PROVE  ~ UsesInstance(w, frame[u].inst)' /\ frame'[u].inst = frame[u].inst
  <2>1. pc[u] \in CreatingInstance \cup DestroyingInstance
    BY <1>3
  <2>2. ~ UsesInstance(w, frame[u].inst) /\ frame[u].inst \in Instances
    BY <2>1, <1>1, <1>3 DEF IInv, Exclusive
  <2>3. QED
    BY <2>2, <1>3 DEF UsesInstance
<1>4. ASSUME NEW u \in Threads, NEW w \in Threads, u # w,
             pc'[u] \in CreatingDevice \cup DestroyingDevice
      PROVE  frame'[w].dev # frame'[u].dev
  <2>1. pc[u] \in CreatingDevice \cup DestroyingDevice
    BY <1>4
  <2>2. frame[w].dev # frame[u].dev /\ frame[u].dev \in Devices
    BY <2>1, <1>2, <1>4 DEF IInv, Exclusive
  <2>3. QED
    BY <2>2, <1>4
<1>5. QED
  BY <1>3, <1>4 DEF Exclusive, UsesInstance

\* The new instance has an unused handle and key, so it meets no entry.
LEMMA NextCreateInstancePreserves ==
  ASSUME IInv, NEW t \in Threads, NextCreateInstance(t)
  PROVE  IInv'
<1>1. PICK i \in Instances, k \in Keys, c \in Customs, P \in SUBSET PhysDevs :
       /\ instKey[i] = None
       /\ \A j \in Instances : instKey[j] # k
       /\ \A p \in P : pdOwner[p] = None
       /\ instKey' = [instKey EXCEPT ![i] = k]
       /\ instCustom' = [instCustom EXCEPT ![i] = c]
       /\ pdOwner' = [p \in PhysDevs |-> IF p \in P THEN i ELSE pdOwner[p]]
       /\ frame' = [frame EXCEPT ![t] =
            [NoFrame EXCEPT !.inst = i, !.info = [inst |-> i, custom |-> c]]]
  BY DEF NextCreateInstance
<1> DEFINE f == [NoFrame EXCEPT !.inst = i, !.info = [inst |-> i, custom |-> c]]
<1>2. /\ f \in Frame /\ f.inst = i /\ f.pd = None /\ f.dev = None
      /\ f.info = [inst |-> i, custom |-> c] /\ f.custom = None
      /\ f.todo = {} /\ f.got = {} /\ f.info # None
      /\ i # None /\ k # None /\ c # None
  <2>1. [inst |-> i, custom |-> c] \in InstInfo
    BY DEF InstInfo
  <2>2. QED
    BY <2>1, NoneIsNothing DEF NoFrame, Frame, Option
<1> HIDE DEF f
<1>3. /\ frame' = [frame EXCEPT ![t] = f]
      /\ pc[t] = "ci_next" /\ pc' = [pc EXCEPT ![t] = "ci_lock"]
      /\ frame[t] = NoFrame
      /\ UNCHANGED <<instMap, pdMap, devMap, alloc, lock, health, devPd, devCustom,
                     appInst, appPd, appDev>>
  BY <1>1 DEF NextCreateInstance, Goto, maps, appVars, f, IInv, FramesOK, FrameOK
<1>t. TypeOK'
  BY <1>1, <1>2, <1>3 DEF IInv, TypeOK, Option, Labels
<1>n. NoPanic'
  BY <1>3 DEF IInv, NoPanic
<1>k. KeysDistinct'
  BY <1>1, NoneIsNothing DEF IInv, KeysDistinct, TypeOK
<1>i. InstancesRegistered'
  <2>1. ASSUME NEW m \in Keys, instMap[m] # None
        PROVE  instMap[m].inst \in Instances /\ instMap[m].inst # i
    BY <2>1, <1>1, EntryTypes, NoneIsNothing DEF IInv, InstancesRegistered
  <2>2. \A j \in appInst : j \in Instances /\ j # i
    BY <1>1 DEF IInv, InstancesRegistered, TypeOK
  <2>3. QED
    BY <2>1, <2>2, <1>1, <1>2, <1>3 DEF IInv, InstancesRegistered, TypeOK
<1>p. PhysicalDevicesRegistered'
  BY <1>1, <1>3, NoneIsNothing DEF IInv, PhysicalDevicesRegistered, TypeOK
<1>d. DevicesRegistered'
  BY <1>1, <1>3 DEF IInv, DevicesRegistered, TypeOK
<1>f. FramesOK'
  <2>1. FrameOK(t)'
    <3>1. frame'[t] = f /\ pc'[t] = "ci_lock"
      BY <1>3 DEF IInv, TypeOK
    <3>2. instKey'[i] # None /\ instCustom'[i] = c /\ i \notin appInst'
      BY <1>1, <1>2, <1>3 DEF IInv, TypeOK, InstancesRegistered
    <3>3. QED
      BY <3>1, <3>2, <1>2 DEF FrameOK, Owning, CreatingInstance, DestroyingInstance,
         CreatingDevice, DestroyingDevice, OfInstance, OfPhysDev, Enumerating
  <2>2. ASSUME NEW u \in Threads, u # t
        PROVE  FrameOK(u)'
    <3>1. frame'[u] = frame[u] /\ pc'[u] = pc[u]
      BY <2>2, <1>3 DEF IInv, TypeOK
    <3>2. frame[u].inst # None => frame[u].inst # i
      BY <1>1 DEF IInv, FramesOK, FrameOK
    <3>3. FrameOK(u)
      BY DEF IInv, FramesOK
    <3>4. QED
      BY <3>1, <3>2, <3>3, <1>1, <1>3, FieldTypes, NoneIsNothing
         DEF IInv, FrameOK, TypeOK, OfInstance, OfPhysDev, Enumerating
  <2>3. QED
    BY <2>1, <2>2 DEF FramesOK
<1>e. Exclusive'
  <2>1. ASSUME NEW u \in Threads
        PROVE  /\ frame[u].inst # i
               /\ frame[u].pd # None => /\ frame[u].pd \in PhysDevs
                                        /\ frame[u].pd \notin P
                                        /\ pdOwner[frame[u].pd] # i
    <3>1. FrameOK(u)
      BY DEF IInv, FramesOK
    <3>2. frame[u].pd # None => frame[u].pd \in PhysDevs
      BY FieldTypes DEF IInv
    <3>3. QED
      BY <3>1, <3>2, <1>1, <1>2 DEF FrameOK, IInv, PhysicalDevicesRegistered
  <2>2. ASSUME NEW u \in Threads, u # t
        PROVE ~ UsesInstance(u, i)'
    BY <2>1, <2>2, <1>1, <1>3 DEF UsesInstance, IInv, TypeOK
  <2>3. QED
    BY <2>1, <2>2, <1>1, <1>2, <1>3, NoneIsNothing
       DEF IInv, Exclusive, UsesInstance, TypeOK, CreatingInstance,
           DestroyingInstance, CreatingDevice, DestroyingDevice
<1>l. LocksHeld'
  BY <1>3 DEF IInv, LocksHeld, TypeOK
<1>a. AllocatedWhenUsed'
  BY <1>3 DEF IInv, AllocatedWhenUsed, Free
<1>o. NothingLost'
  <2>1. \A u \in Threads : frame'[u] = IF u = t THEN f ELSE frame[u]
    BY <1>3 DEF IInv, TypeOK
  <2>2. frame[t].inst = None /\ frame[t].dev = None
    BY <1>3 DEF NoFrame
  <2>3. QED
    BY <2>1, <2>2, <1>1, <1>2, <1>3, NoneIsNothing DEF IInv, NothingLost, TypeOK
<1> QED
  BY <1>t, <1>n, <1>k, <1>i, <1>p, <1>d, <1>f, <1>e, <1>l, <1>a, <1>o DEF IInv
\* The duplicate check never fails: an entry under the key would be the
\* instance's own, and this call is the only one that knows of it.
LEMMA LockInstanceMapPreserves ==
  ASSUME IInv, NEW t \in Threads, LockInstanceMap(t)
  PROVE  IInv'
<1> DEFINE i == frame[t].inst
<1>1. FrameOK(t) /\ i \in Instances /\ instKey[i] \in Keys /\ pc[t] = "ci_lock"
  <2>1. FrameOK(t) /\ pc[t] = "ci_lock"
    BY DEF LockInstanceMap, IInv, FramesOK
  <2>2. i # None /\ instKey[i] # None
    BY <2>1 DEF FrameOK, CreatingInstance
  <2>3. QED
    BY <2>1, <2>2, FieldTypes DEF IInv, TypeOK, Option
<1>2. instMap[instKey[i]] = None
  <2>1. SUFFICES ASSUME instMap[instKey[i]] # None PROVE FALSE
    OBVIOUS
  <2>2. instMap[instKey[i]].inst = i
    BY <2>1, <1>1, EntryTypes, NoneIsNothing DEF IInv, InstancesRegistered, KeysDistinct
  <2>3. i \notin appInst
    BY <1>1 DEF FrameOK, CreatingInstance
  <2>4. PICK u \in Threads : pc[u] = "di_remove" /\ frame[u].inst = i
    BY <2>1, <2>2, <2>3, <1>1 DEF IInv, InstancesRegistered
  <2>5. QED
    BY <2>4, <1>1 DEF IInv, Exclusive, UsesInstance, CreatingInstance
<1>3. /\ pc' = [pc EXCEPT ![t] = "ci_insert"]
      /\ lock["inst"] = None
      /\ lock' = [lock EXCEPT !["inst"] = t]
      /\ alloc' = alloc \cup {"inst"}
      /\ UNCHANGED <<instMap, pdMap, devMap, frame, health, instKey, pdOwner, devPd,
                     instCustom, devCustom, appInst, appPd, appDev>>
  BY <1>2 DEF LockInstanceMap, Free, GetMutOrDefault, Goto, nextVars, appVars
<1>4. /\ \A u \in Threads : pc'[u] = IF u = t THEN "ci_insert" ELSE pc[u]
      /\ \A m \in Mutexes : lock'[m] = IF m = "inst" THEN t ELSE lock[m]
  BY <1>3 DEF IInv, TypeOK
<1>t. TypeOK'
  BY <1>3 DEF IInv, TypeOK, Option, Labels, Mutexes
<1>n. NoPanic'
  BY <1>3 DEF IInv, NoPanic
<1>k. KeysDistinct'
  BY <1>3 DEF IInv, KeysDistinct
<1>i. InstancesRegistered'
  BY <1>1, <1>3, <1>4 DEF IInv, InstancesRegistered
<1>p. PhysicalDevicesRegistered'
  BY <1>1, <1>3, <1>4 DEF IInv, PhysicalDevicesRegistered
<1>d. DevicesRegistered'
  BY <1>1, <1>3, <1>4 DEF IInv, DevicesRegistered
<1>f. FramesOK'
  <2>1. FrameOK(t)'
    BY <1>1, <1>3, <1>4 DEF FrameOK, Owning, CreatingInstance, DestroyingInstance,
       CreatingDevice, DestroyingDevice, OfInstance, OfPhysDev, Enumerating
  <2>2. ASSUME NEW u \in Threads, u # t
        PROVE  FrameOK(u)'
    BY <2>2, <1>3, <1>4 DEF IInv, FramesOK, FrameOK
  <2>3. QED
    BY <2>1, <2>2 DEF FramesOK
<1>e. Exclusive'
  <2>1. \A u \in Threads, j \in Instances : UsesInstance(u, j)' => UsesInstance(u, j)
    BY <1>3 DEF UsesInstance
  <2>2. QED
    BY <2>1, <1>1, <1>3, <1>4, ExclusiveKept DEF CreatingInstance, DestroyingInstance,
       CreatingDevice, DestroyingDevice
<1>l. LocksHeld'
  BY <1>1, <1>3, <1>4, NoneIsNothing DEF IInv, LocksHeld, Mutexes
<1>a. AllocatedWhenUsed'
  BY <1>3, <1>4, NoneIsNothing DEF IInv, AllocatedWhenUsed, Free, Mutexes
<1>o. NothingLost'
  BY <1>3 DEF IInv, NothingLost
<1> QED
  BY <1>t, <1>n, <1>k, <1>i, <1>p, <1>d, <1>f, <1>e, <1>l, <1>a, <1>o DEF IInv

\* The new entry displaces none, and the key is of this instance alone.
LEMMA RegisterInstancePreserves ==
  ASSUME IInv, NEW t \in Threads, RegisterInstance(t)
  PROVE  IInv'
<1> DEFINE i == frame[t].inst
<1> DEFINE k == instKey[i]
<1> DEFINE info == [inst |-> i, custom |-> instCustom[i]]
<1>1. /\ FrameOK(t) /\ i \in Instances /\ k \in Keys /\ pc[t] = "ci_insert"
      /\ i \notin appInst /\ frame[t].info = info /\ info \in InstInfo
      /\ info # None
  <2>1. FrameOK(t) /\ pc[t] = "ci_insert"
    BY DEF RegisterInstance, IInv, FramesOK
  <2>2. i # None /\ k # None /\ i \notin appInst /\ frame[t].info = info
        /\ info # None
    BY <2>1 DEF FrameOK, CreatingInstance
  <2>3. i \in Instances /\ frame[t].info \in InstInfo
    BY <2>2, FieldTypes DEF IInv
  <2>4. QED
    BY <2>1, <2>2, <2>3 DEF IInv, TypeOK, Option
<1>2. /\ instMap' = [instMap EXCEPT ![k] = info]
      /\ pc' = [pc EXCEPT ![t] = "idle"]
      /\ frame' = [frame EXCEPT ![t] = NoFrame]
      /\ lock' = [lock EXCEPT !["inst"] = None]
      /\ appInst' = appInst \cup {i}
      /\ UNCHANGED <<pdMap, devMap, alloc, health, instKey, pdOwner, devPd,
                     instCustom, devCustom, appPd, appDev>>
  BY <1>1 DEF RegisterInstance, Return, nextVars
<1> HIDE DEF info
<1>3. /\ \A u \in Threads : pc'[u] = IF u = t THEN "idle" ELSE pc[u]
      /\ \A u \in Threads : frame'[u] = IF u = t THEN NoFrame ELSE frame[u]
      /\ \A m \in Mutexes : lock'[m] = IF m = "inst" THEN None ELSE lock[m]
      /\ \A m \in Keys : instMap'[m] = IF m = k THEN info ELSE instMap[m]
      /\ NoFrame.inst = None /\ NoFrame.pd = None /\ NoFrame.dev = None
  BY <1>2 DEF IInv, TypeOK, NoFrame
<1>4. info.inst = i /\ info.custom = instCustom[i]
  BY DEF info
<1>5. ASSUME NEW u \in Threads, u # t
      PROVE  ~ UsesInstance(u, i)
  BY <1>5, <1>1 DEF IInv, Exclusive, CreatingInstance
<1>t. TypeOK'
  BY <1>1, <1>2, NoFrameType DEF IInv, TypeOK, Option, Labels, Mutexes
<1>n. NoPanic'
  BY <1>2 DEF IInv, NoPanic
<1>k. KeysDistinct'
  BY <1>2 DEF IInv, KeysDistinct
<1>i. InstancesRegistered'
  <2>1. ASSUME NEW j \in appInst
        PROVE  j \in Instances /\ instKey[j] \in Keys /\ instKey[j] # k
    <3>1. j \in Instances /\ j # i /\ instKey[j] # None
      BY <1>1 DEF IInv, TypeOK, InstancesRegistered
    <3>2. QED
      BY <3>1, <1>1, NoneIsNothing DEF IInv, TypeOK, Option, KeysDistinct
  <2>2. ASSUME NEW j \in appInst'
        PROVE  instKey'[j] # None /\
               instMap'[instKey'[j]] = [inst |-> j, custom |-> instCustom'[j]]
    <3>1. CASE j = i
      BY <3>1, <1>1, <1>2, <1>3, NoneIsNothing DEF info
    <3>2. CASE j # i
      BY <3>2, <2>1, <1>2, <1>3 DEF IInv, InstancesRegistered
    <3>3. QED
      BY <3>1, <3>2
  <2>3. ASSUME NEW m \in Keys, instMap'[m] # None
        PROVE  /\ instKey'[instMap'[m].inst] = m
               /\ instMap'[m].custom = instCustom'[instMap'[m].inst]
               /\ \/ instMap'[m].inst \in appInst'
                  \/ \E u \in Threads : pc'[u] = "di_remove"
                                        /\ frame'[u].inst = instMap'[m].inst
    <3>1. CASE m = k
      BY <3>1, <1>1, <1>2, <1>3, <1>4
    <3>2. CASE m # k
      <4>1. instMap'[m] = instMap[m]
        BY <3>2, <1>3
      <4>2. QED
        BY <4>1, <2>3, <1>1, <1>2, <1>3 DEF IInv, InstancesRegistered
    <3>3. QED
      BY <3>1, <3>2
  <2>4. QED
    BY <2>2, <2>3 DEF InstancesRegistered
<1>p. PhysicalDevicesRegistered'
  BY <1>1, <1>2, <1>3 DEF IInv, PhysicalDevicesRegistered
<1>d. DevicesRegistered'
  BY <1>1, <1>2, <1>3 DEF IInv, DevicesRegistered
<1>f. FramesOK'
  <2>1. FrameOK(t)'
    <3>1. pc'[t] = "idle" /\ frame'[t] = NoFrame
      BY <1>3
    <3>2. QED
      BY <3>1, IdleFrameOK
  <2>2. ASSUME NEW u \in Threads, u # t
        PROVE  FrameOK(u)'
    <3>1. FrameOK(u) /\ frame[u].inst # i
      BY <2>2, <1>5 DEF IInv, FramesOK, UsesInstance
    <3>2. pc[u] = "di_remove" => frame[u].inst \in Instances /\
                                 instKey[frame[u].inst] # k
      BY <3>1, <1>1, FieldTypes, NoneIsNothing DEF FrameOK, DestroyingInstance, IInv,
         KeysDistinct
    <3>3. pc[u] = "di_remove" => instKey[frame[u].inst] \in Keys
      BY <3>1, <3>2 DEF FrameOK, DestroyingInstance, IInv, TypeOK, Option
    <3>4. QED
      BY <3>1, <3>2, <3>3, <2>2, <1>1, <1>2, <1>3 DEF FrameOK, Option
  <2>3. QED
    BY <2>1, <2>2 DEF FramesOK
<1>e. Exclusive'
  <2>1. \A u \in Threads, j \in Instances : UsesInstance(u, j)' => UsesInstance(u, j)
    BY <1>2, <1>3, NoneIsNothing DEF UsesInstance
  <2>2. QED
    BY <2>1, <1>1, <1>2, <1>3, ExclusiveKept, NoneIsNothing DEF CreatingInstance,
       DestroyingInstance, CreatingDevice, DestroyingDevice
<1>l. LocksHeld'
  BY <1>1, <1>2, <1>3, NoneIsNothing DEF IInv, LocksHeld, Mutexes
<1>a. AllocatedWhenUsed'
  <2>1. lock["inst"] # None
    BY <1>1, NoneIsNothing DEF IInv, LocksHeld
  <2>2. QED
    BY <2>1, <1>1, <1>2, <1>3 DEF IInv, AllocatedWhenUsed, Free, Mutexes
<1>o. NothingLost'
  <2>1. frame[t].dev = None
    BY <1>1, NoneIsNothing DEF FrameOK, CreatingInstance
  <2>2. QED
    BY <2>1, <1>1, <1>2, <1>3, NoneIsNothing DEF IInv, NothingLost
<1> QED
  BY <1>t, <1>n, <1>k, <1>i, <1>p, <1>d, <1>f, <1>e, <1>l, <1>a, <1>o DEF IInv

\* The application gives up an instance that no call uses.
LEMMA DestroyInstancePreserves ==
  ASSUME IInv, NEW t \in Threads, NEW i \in Instances, DestroyInstance(t, i)
  PROVE  IInv'
<1> DEFINE f == [NoFrame EXCEPT !.inst = i]
<1>1. /\ f \in Frame /\ f.inst = i /\ f.pd = None /\ f.dev = None
      /\ f.info = None /\ f.custom = None /\ i # None
  BY NoneIsNothing DEF NoFrame, Frame, Option
<1>2. /\ i \in appInst /\ pc[t] = "idle" /\ frame[t] = NoFrame
      /\ \A u \in Threads : ~ UsesInstance(u, i)
      /\ \A v \in Devices : devPd[v] # None => pdOwner[devPd[v]] # i
      /\ pc' = [pc EXCEPT ![t] = "di_remove"]
      /\ frame' = [frame EXCEPT ![t] = f]
      /\ appInst' = appInst \ {i}
      /\ appPd' = {p \in appPd : pdOwner[p] # i}
      /\ UNCHANGED <<instMap, pdMap, devMap, alloc, lock, health, instKey, pdOwner,
                     devPd, instCustom, devCustom, appDev>>
  BY DEF DestroyInstance, Call, maps, nextVars, IInv, FramesOK, FrameOK
<1> HIDE DEF f
<1>3. /\ \A u \in Threads : pc'[u] = IF u = t THEN "di_remove" ELSE pc[u]
      /\ \A u \in Threads : frame'[u] = IF u = t THEN f ELSE frame[u]
      /\ NoFrame.inst = None /\ NoFrame.pd = None /\ NoFrame.dev = None
  BY <1>2 DEF IInv, TypeOK, NoFrame
<1>t. TypeOK'
  BY <1>1, <1>2 DEF IInv, TypeOK, Labels
<1>n. NoPanic'
  BY <1>2 DEF IInv, NoPanic
<1>k. KeysDistinct'
  BY <1>2 DEF IInv, KeysDistinct
<1>i. InstancesRegistered'
  <2>1. ASSUME NEW k \in Keys, instMap[k] # None
        PROVE  \/ instMap'[k].inst \in appInst'
               \/ \E u \in Threads : pc'[u] = "di_remove"
                                     /\ frame'[u].inst = instMap'[k].inst
    <3>1. CASE instMap[k].inst = i
      BY <3>1, <1>1, <1>2, <1>3
    <3>2. CASE instMap[k].inst # i
      BY <3>2, <2>1, <1>2, <1>3 DEF IInv, InstancesRegistered
    <3>3. QED
      BY <3>1, <3>2
  <2>2. QED
    BY <2>1, <1>2 DEF IInv, InstancesRegistered
<1>p. PhysicalDevicesRegistered'
  <2>1. ASSUME NEW p \in PhysDevs, pdMap[p] # None
        PROVE  \/ pdMap'[p] \in appInst'
               \/ \E u \in Threads : pc'[u] \in {"di_remove", "di_purge"}
                                     /\ frame'[u].inst = pdMap'[p]
    <3>1. CASE pdMap[p] = i
      BY <3>1, <1>1, <1>2, <1>3
    <3>2. CASE pdMap[p] # i
      BY <3>2, <2>1, <1>2, <1>3 DEF IInv, PhysicalDevicesRegistered
    <3>3. QED
      BY <3>1, <3>2
  <2>2. QED
    BY <2>1, <1>2 DEF IInv, PhysicalDevicesRegistered
<1>d. DevicesRegistered'
  BY <1>2, <1>3 DEF IInv, DevicesRegistered
<1>f. FramesOK'
  <2>1. FrameOK(t)'
    <3>1. frame'[t] = f /\ pc'[t] = "di_remove" /\ i \notin appInst'
      BY <1>2, <1>3
    <3>2. /\ instKey'[i] # None
          /\ instMap'[instKey'[i]] = [inst |-> i, custom |-> instCustom'[i]]
      BY <1>2 DEF IInv, InstancesRegistered
    <3>3. QED
      BY <3>1, <3>2, <1>1 DEF FrameOK, Owning, CreatingInstance,
         DestroyingInstance, CreatingDevice, DestroyingDevice, OfInstance, OfPhysDev,
         Enumerating
  <2>2. ASSUME NEW u \in Threads, u # t
        PROVE  FrameOK(u)'
    <3>1. FrameOK(u) /\ frame'[u] = frame[u] /\ pc'[u] = pc[u]
      BY <2>2, <1>3 DEF IInv, FramesOK
    <3>2. /\ frame[u].inst # i
          /\ frame[u].pd # None => pdOwner[frame[u].pd] # i
      BY <1>2 DEF UsesInstance
    <3>3. appPd \subseteq PhysDevs /\ i \in Instances
      BY DEF IInv, TypeOK
    <3>4. /\ frame[u].inst \in appInst => frame[u].inst \in appInst'
          /\ frame[u].pd \in appPd /\ frame[u].pd # None => frame[u].pd \in appPd'
          /\ frame[u].inst \notin appInst => frame[u].inst \notin appInst'
      BY <3>2, <1>2
    <3>5. frame[u].pd \in appPd => frame[u].pd # None
      BY <3>3, NoneIsNothing
    <3>6. QED
      BY <3>1, <3>4, <3>5, <1>2 DEF FrameOK, Option
  <2>3. QED
    BY <2>1, <2>2 DEF FramesOK
<1>e. Exclusive'
  <2>1. ASSUME NEW u \in Threads, NEW w \in Threads, u # w,
               pc'[u] \in CreatingInstance \cup DestroyingInstance
        PROVE  ~ UsesInstance(w, frame[u].inst)'
    <3>1. CASE u = t
      BY <3>1, <2>1, <1>1, <1>2, <1>3 DEF UsesInstance
    <3>2. CASE u # t
      <4>1. /\ frame[u].inst # i /\ frame[u].inst # None
            /\ pc[u] \in CreatingInstance \cup DestroyingInstance
            /\ ~ UsesInstance(w, frame[u].inst)
        BY <3>2, <2>1, <1>2, <1>3 DEF IInv, FramesOK, FrameOK, Exclusive, UsesInstance
      <4>2. QED
        BY <4>1, <3>2, <2>1, <1>1, <1>2, <1>3 DEF UsesInstance
    <3>3. QED
      BY <3>1, <3>2
  <2>2. ASSUME NEW u \in Threads, NEW w \in Threads, u # w,
               pc'[u] \in CreatingDevice \cup DestroyingDevice
        PROVE  frame'[w].dev # frame'[u].dev
    <3>1. /\ u # t /\ frame[u].dev # None /\ frame[w].dev # frame[u].dev
      BY <2>2, <1>2, <1>3 DEF IInv, FramesOK, FrameOK, Exclusive, CreatingDevice,
         DestroyingDevice
    <3>2. QED
      BY <3>1, <1>1, <1>3
  <2>3. QED
    BY <2>1, <2>2 DEF Exclusive
<1>l. LocksHeld'
  BY <1>2, <1>3 DEF IInv, LocksHeld
<1>a. AllocatedWhenUsed'
  BY <1>2 DEF IInv, AllocatedWhenUsed, Free
<1>o. NothingLost'
  BY <1>1, <1>2, <1>3, NoneIsNothing DEF IInv, NothingLost
<1> QED
  BY <1>t, <1>n, <1>k, <1>i, <1>p, <1>d, <1>f, <1>e, <1>l, <1>a, <1>o DEF IInv

\* The entry is there and is the right one, and nobody else holds the Arc.
LEMMA RemoveInstancePreserves ==
  ASSUME IInv, NEW t \in Threads, RemoveInstance(t)
  PROVE  IInv'
<1> DEFINE i == frame[t].inst
<1> DEFINE k == instKey[i]
<1> DEFINE info == [inst |-> i, custom |-> instCustom[i]]
<1> DEFINE f == [frame[t] EXCEPT !.info = info]
<1>1. /\ FrameOK(t) /\ pc[t] = "di_remove" /\ i \in Instances /\ k \in Keys
      /\ i \notin appInst /\ instMap[k] = info /\ k # None
  <2>1. FrameOK(t) /\ pc[t] = "di_remove"
    BY DEF RemoveInstance, IInv, FramesOK
  <2>2. i # None /\ k # None /\ i \notin appInst /\ instMap[k] = info
    BY <2>1 DEF FrameOK, DestroyingInstance
  <2>3. QED
    BY <2>1, <2>2, FieldTypes DEF IInv, TypeOK, Option
<1>2. info \in InstInfo /\ info # None
  <2>1. instCustom[i] \in Customs
    BY <1>1 DEF IInv, TypeOK, KeysDistinct, Option
  <2>2. QED
    BY <2>1, <1>1, NoneIsNothing DEF InstInfo
<1>3. GetInstanceInfo(i) = info
  BY <1>1 DEF GetInstanceInfo
<1>4. ASSUME NEW u \in Threads, u # t
      PROVE  ~ UsesInstance(u, i) /\ frame[u].info # info
  <2>1. ~ UsesInstance(u, i) /\ FrameOK(u)
    BY <1>4, <1>1 DEF IInv, Exclusive, DestroyingInstance, FramesOK
  <2>2. QED
    BY <2>1, <1>2 DEF FrameOK, UsesInstance
<1>5. frame' = [frame EXCEPT ![t].info = info]
  BY <1>3 DEF RemoveInstance
<1>6. /\ lock["inst"] = None
      /\ instMap' = [instMap EXCEPT ![k] = None]
      /\ DropRefMut("inst", instMap')
      /\ health' = "running"
      /\ pc' = [pc EXCEPT ![t] = "di_purge"]
      /\ frame' = [frame EXCEPT ![t] = f]
      /\ UNCHANGED <<pdMap, devMap, lock, instKey, pdOwner, devPd, instCustom,
                     devCustom, appInst, appPd, appDev>>
  BY <1>2, <1>3, <1>4, <1>5 DEF RemoveInstance, Free, Require, SoleOwner, Goto,
     nextVars, appVars, IInv, TypeOK
<1>7. /\ f \in Frame /\ f.inst = i /\ f.info = info /\ f.pd = frame[t].pd
      /\ f.dev = frame[t].dev /\ f.custom = frame[t].custom
      /\ f.todo = frame[t].todo /\ f.got = frame[t].got
  <2>1. frame[t] \in Frame
    BY DEF IInv, TypeOK
  <2>2. QED
    BY <2>1, <1>2 DEF Frame, Option
<1> HIDE DEF f, info
<1>8. /\ \A u \in Threads : pc'[u] = IF u = t THEN "di_purge" ELSE pc[u]
      /\ \A u \in Threads : frame'[u] = IF u = t THEN f ELSE frame[u]
      /\ \A m \in Keys : instMap'[m] = IF m = k THEN None ELSE instMap[m]
  BY <1>6 DEF IInv, TypeOK
<1>9. info.inst = i /\ info.custom = instCustom[i]
  BY DEF info
<1>t. TypeOK'
  BY <1>1, <1>6, <1>7 DEF IInv, TypeOK, Option, Labels, DropRefMut, Mutexes
<1>n. NoPanic'
  BY <1>6 DEF NoPanic
<1>k. KeysDistinct'
  BY <1>6 DEF IInv, KeysDistinct
<1>i. InstancesRegistered'
  <2>1. ASSUME NEW j \in appInst
        PROVE  j \in Instances /\ instKey[j] \in Keys /\ instKey[j] # k
    <3>1. j \in Instances /\ j # i /\ instKey[j] # None
      BY <1>1 DEF IInv, TypeOK, InstancesRegistered
    <3>2. QED
      BY <3>1, <1>1, NoneIsNothing DEF IInv, TypeOK, Option, KeysDistinct
  <2>2. ASSUME NEW m \in Keys, instMap'[m] # None
        PROVE  /\ instMap'[m] = instMap[m]
               /\ instMap[m].inst # i
    BY <2>2, <1>1, <1>8 DEF IInv, InstancesRegistered
  <2>3. ASSUME NEW m \in Keys, instMap'[m] # None
        PROVE  \/ instMap[m].inst \in appInst
               \/ \E u \in Threads : pc'[u] = "di_remove"
                                     /\ frame'[u].inst = instMap[m].inst
    BY <2>3, <2>2, <1>8 DEF IInv, InstancesRegistered
  <2>4. QED
    BY <2>1, <2>2, <2>3, <1>6, <1>8 DEF IInv, InstancesRegistered
<1>p. PhysicalDevicesRegistered'
  BY <1>1, <1>6, <1>7, <1>8 DEF IInv, PhysicalDevicesRegistered
<1>d. DevicesRegistered'
  BY <1>1, <1>6, <1>8 DEF IInv, DevicesRegistered
<1>f. FramesOK'
  <2>1. FrameOK(t)'
    BY <1>1, <1>2, <1>6, <1>7, <1>8 DEF FrameOK, Owning, CreatingInstance,
       DestroyingInstance, CreatingDevice, DestroyingDevice, OfInstance, OfPhysDev,
       Enumerating, info
  <2>2. ASSUME NEW u \in Threads, u # t
        PROVE  FrameOK(u)'
    <3>1. FrameOK(u) /\ frame[u].inst # i
      BY <2>2, <1>4 DEF IInv, FramesOK, UsesInstance
    <3>2. pc[u] = "di_remove" => frame[u].inst \in Instances /\
                                 instKey[frame[u].inst] # k
      BY <3>1, <1>1, FieldTypes, NoneIsNothing DEF FrameOK, DestroyingInstance, IInv,
         KeysDistinct
    <3>3. pc[u] = "di_remove" => instKey[frame[u].inst] \in Keys
      BY <3>1, <3>2 DEF FrameOK, DestroyingInstance, IInv, TypeOK, Option
    <3>4. QED
      BY <3>1, <3>2, <3>3, <2>2, <1>1, <1>6, <1>8 DEF FrameOK
  <2>3. QED
    BY <2>1, <2>2 DEF FramesOK
<1>e. Exclusive'
  <2>1. \A u \in Threads, j \in Instances : UsesInstance(u, j)' => UsesInstance(u, j)
    BY <1>6, <1>7, <1>8 DEF UsesInstance
  <2>2. QED
    BY <2>1, <1>1, <1>6, <1>7, <1>8, ExclusiveKept DEF CreatingInstance,
       DestroyingInstance, CreatingDevice, DestroyingDevice
<1>l. LocksHeld'
  BY <1>1, <1>6, <1>8 DEF IInv, LocksHeld
<1>a. AllocatedWhenUsed'
  <2>1. DOMAIN instMap' = Keys
    BY <1>6 DEF IInv, TypeOK
  <2>2. QED
    BY <2>1, <1>6 DEF IInv, AllocatedWhenUsed, Free, DropRefMut
<1>o. NothingLost'
  BY <1>1, <1>6, <1>7, <1>8 DEF IInv, NothingLost
<1> QED
  BY <1>t, <1>n, <1>k, <1>i, <1>p, <1>d, <1>f, <1>e, <1>l, <1>a, <1>o DEF IInv

\* The entries that go are of physical devices that nobody may use any more.
LEMMA PurgePhysicalDevicesPreserves ==
  ASSUME IInv, NEW t \in Threads, PurgePhysicalDevices(t)
  PROVE  IInv'
<1> DEFINE i == frame[t].inst
<1>1. /\ FrameOK(t) /\ pc[t] = "di_purge" /\ i \in Instances /\ i \notin appInst
  <2>1. FrameOK(t) /\ pc[t] = "di_purge"
    BY DEF PurgePhysicalDevices, IInv, FramesOK
  <2>2. QED
    BY <2>1, FieldTypes DEF FrameOK, DestroyingInstance, IInv
<1>2. /\ lock["pd"] = None
      /\ pdMap' = [p \in PhysDevs |-> IF pdMap[p] = i THEN None ELSE pdMap[p]]
      /\ DropRefMut("pd", pdMap')
      /\ pc' = [pc EXCEPT ![t] = "di_next"]
      /\ UNCHANGED <<instMap, devMap, lock, frame, health, instKey, pdOwner, devPd,
                     instCustom, devCustom, appInst, appPd, appDev>>
  BY DEF PurgePhysicalDevices, Free, Goto, nextVars, appVars
<1>3. /\ \A u \in Threads : pc'[u] = IF u = t THEN "di_next" ELSE pc[u]
      /\ \A p \in PhysDevs : pdMap'[p] = IF pdMap[p] = i THEN None ELSE pdMap[p]
  BY <1>2 DEF IInv, TypeOK
<1>t. TypeOK'
  BY <1>2 DEF IInv, TypeOK, Option, Labels, DropRefMut, Mutexes
<1>n. NoPanic'
  BY <1>2 DEF IInv, NoPanic
<1>k. KeysDistinct'
  BY <1>2 DEF IInv, KeysDistinct
<1>i. InstancesRegistered'
  BY <1>1, <1>2, <1>3 DEF IInv, InstancesRegistered
<1>p. PhysicalDevicesRegistered'
  <2>1. ASSUME NEW p \in PhysDevs, pdMap'[p] # None
        PROVE  /\ pdMap'[p] = pdMap[p] /\ pdMap[p] # i /\ pdMap[p] = pdOwner[p]
               /\ \/ pdMap[p] \in appInst
                  \/ \E u \in Threads : pc'[u] \in {"di_remove", "di_purge"}
                                        /\ frame[u].inst = pdMap[p]
    BY <2>1, <1>1, <1>3 DEF IInv, PhysicalDevicesRegistered
  <2>2. ASSUME NEW p \in appPd
        PROVE  pdMap'[p] = pdMap[p]
    BY <1>1, <1>3 DEF IInv, TypeOK, PhysicalDevicesRegistered
  <2>3. QED
    BY <2>1, <2>2, <1>2 DEF IInv, PhysicalDevicesRegistered
<1>d. DevicesRegistered'
  BY <1>1, <1>2, <1>3 DEF IInv, DevicesRegistered
<1>f. FramesOK'
  <2>1. FrameOK(t)'
    BY <1>1, <1>2, <1>3 DEF FrameOK, Owning, CreatingInstance,
       DestroyingInstance, CreatingDevice, DestroyingDevice, OfInstance, OfPhysDev,
       Enumerating
  <2>2. ASSUME NEW u \in Threads, u # t
        PROVE  FrameOK(u)'
    <3>1. FrameOK(u)
      BY DEF IInv, FramesOK
    <3>2. pc[u] \in Enumerating => /\ frame[u].inst # i
                                   /\ frame[u].got \subseteq PhysDevs
      BY <3>1, <1>1, FieldTypes DEF FrameOK, OfInstance, IInv
    <3>3. pc[u] = "ep_insert" => frame[u].pd \in PhysDevs
      BY <3>1, FieldTypes DEF FrameOK, IInv
    <3>4. QED
      BY <3>1, <3>2, <3>3, <2>2, <1>2, <1>3 DEF FrameOK
  <2>3. QED
    BY <2>1, <2>2 DEF FramesOK
<1>e. Exclusive'
  <2>1. \A u \in Threads, j \in Instances : UsesInstance(u, j)' => UsesInstance(u, j)
    BY <1>2 DEF UsesInstance
  <2>2. QED
    BY <2>1, <1>1, <1>2, <1>3, ExclusiveKept DEF CreatingInstance,
       DestroyingInstance, CreatingDevice, DestroyingDevice
<1>l. LocksHeld'
  BY <1>1, <1>2, <1>3 DEF IInv, LocksHeld
<1>a. AllocatedWhenUsed'
  <2>1. DOMAIN pdMap' = PhysDevs
    BY <1>2
  <2>2. QED
    BY <2>1, <1>2 DEF IInv, AllocatedWhenUsed, Free, DropRefMut
<1>o. NothingLost'
  BY <1>2 DEF IInv, NothingLost
<1> QED
  BY <1>t, <1>n, <1>k, <1>i, <1>p, <1>d, <1>f, <1>e, <1>l, <1>a, <1>o DEF IInv

\* No entry and no call refers to the instance when the next layer frees it.
LEMMA NextDestroyInstancePreserves ==
  ASSUME IInv, NEW t \in Threads, NextDestroyInstance(t)
  PROVE  IInv'
<1> DEFINE i == frame[t].inst
<1>1. /\ FrameOK(t) /\ pc[t] = "di_next" /\ i \in Instances /\ i \notin appInst
      /\ i # None /\ frame[t].dev = None
  <2>1. FrameOK(t) /\ pc[t] = "di_next"
    BY DEF NextDestroyInstance, IInv, FramesOK
  <2>2. QED
    BY <2>1, FieldTypes DEF FrameOK, DestroyingInstance, IInv
<1>2. ASSUME NEW u \in Threads, u # t
      PROVE  ~ UsesInstance(u, i)
  BY <1>2, <1>1 DEF IInv, Exclusive, DestroyingInstance
<1>3. /\ instKey' = [instKey EXCEPT ![i] = None]
      /\ instCustom' = [instCustom EXCEPT ![i] = None]
      /\ pdOwner' = [p \in PhysDevs |-> IF pdOwner[p] = i THEN None ELSE pdOwner[p]]
      /\ pc' = [pc EXCEPT ![t] = "idle"]
      /\ frame' = [frame EXCEPT ![t] = NoFrame]
      /\ UNCHANGED <<instMap, pdMap, devMap, alloc, lock, health, devPd, devCustom,
                     appInst, appPd, appDev>>
  BY DEF NextDestroyInstance, Return, maps, appVars
<1>4. /\ \A u \in Threads : pc'[u] = IF u = t THEN "idle" ELSE pc[u]
      /\ \A u \in Threads : frame'[u] = IF u = t THEN NoFrame ELSE frame[u]
      /\ \A j \in Instances : j # i => /\ instKey'[j] = instKey[j]
                                       /\ instCustom'[j] = instCustom[j]
      /\ instKey'[i] = None /\ instCustom'[i] = None
      /\ NoFrame.inst = None /\ NoFrame.pd = None /\ NoFrame.dev = None
  BY <1>1, <1>3 DEF IInv, TypeOK, NoFrame
<1>5. ASSUME NEW p \in PhysDevs, pdOwner[p] # i
      PROVE  pdOwner'[p] = pdOwner[p]
  BY <1>5, <1>3
<1>6. ASSUME NEW m \in Keys, instMap[m] # None
      PROVE  instMap[m].inst \in Instances /\ instMap[m].inst # i
  <2>1. ASSUME instMap[m].inst = i
        PROVE  FALSE
    <3>1. PICK u \in Threads : pc[u] = "di_remove" /\ frame[u].inst = i
      BY <2>1, <1>6, <1>1 DEF IInv, InstancesRegistered
    <3>2. QED
      BY <3>1, <1>1, <1>2 DEF UsesInstance
  <2>2. QED
    BY <2>1, <1>6, EntryTypes DEF IInv
<1>7. ASSUME NEW p \in PhysDevs, pdMap[p] # None
      PROVE  pdMap[p] # i
  <2>1. ASSUME pdMap[p] = i
        PROVE  FALSE
    <3>1. PICK u \in Threads : pc[u] \in {"di_remove", "di_purge"} /\ frame[u].inst = i
      BY <2>1, <1>7, <1>1 DEF IInv, PhysicalDevicesRegistered
    <3>2. QED
      BY <3>1, <1>1, <1>2 DEF UsesInstance
  <2>2. QED
    BY <2>1
<1>t. TypeOK'
  BY <1>3, NoFrameType DEF IInv, TypeOK, Option, Labels
<1>n. NoPanic'
  BY <1>3 DEF IInv, NoPanic
<1>k. KeysDistinct'
  BY <1>3, <1>4 DEF IInv, KeysDistinct
<1>i. InstancesRegistered'
  <2>1. ASSUME NEW j \in appInst
        PROVE  j \in Instances /\ j # i
    BY <1>1 DEF IInv, TypeOK
  <2>2. QED
    BY <2>1, <1>1, <1>3, <1>4, <1>6 DEF IInv, InstancesRegistered
<1>p. PhysicalDevicesRegistered'
  <2>1. ASSUME NEW p \in PhysDevs, pdOwner'[p] # None
        PROVE  instKey'[pdOwner'[p]] # None
    <3>1. pdOwner[p] # i /\ pdOwner[p] # None /\ pdOwner'[p] = pdOwner[p]
      BY <2>1, <1>3
    <3>2. pdOwner[p] \in Instances
      BY <3>1 DEF IInv, TypeOK, Option
    <3>3. QED
      BY <3>1, <3>2, <1>4 DEF IInv, PhysicalDevicesRegistered
  <2>2. ASSUME NEW p \in PhysDevs, pdMap[p] # None
        PROVE  /\ pdMap'[p] = pdOwner'[p]
               /\ \/ pdMap'[p] \in appInst'
                  \/ \E u \in Threads : pc'[u] \in {"di_remove", "di_purge"}
                                        /\ frame'[u].inst = pdMap'[p]
    BY <2>2, <1>1, <1>3, <1>4, <1>5, <1>7 DEF IInv, PhysicalDevicesRegistered
  <2>3. ASSUME NEW p \in appPd
        PROVE  p \in PhysDevs /\ pdOwner[p] # i
    BY <1>1 DEF IInv, TypeOK, PhysicalDevicesRegistered
  <2>4. QED
    BY <2>1, <2>2, <2>3, <1>3, <1>5 DEF IInv, PhysicalDevicesRegistered
<1>d. DevicesRegistered'
  BY <1>1, <1>3, <1>4 DEF IInv, DevicesRegistered
<1>f. FramesOK'
  <2>1. FrameOK(t)'
    <3>1. pc'[t] = "idle" /\ frame'[t] = NoFrame
      BY <1>4
    <3>2. QED
      BY <3>1, IdleFrameOK
  <2>2. ASSUME NEW u \in Threads, u # t
        PROVE  FrameOK(u)'
    <3>1. FrameOK(u)
      BY DEF IInv, FramesOK
    <3>2. /\ frame[u].inst # i
          /\ frame[u].pd # None => pdOwner[frame[u].pd] # i
      BY <2>2, <1>2 DEF UsesInstance
    <3>3. /\ frame[u].inst # None => frame[u].inst \in Instances
          /\ frame[u].pd # None => frame[u].pd \in PhysDevs
          /\ frame[u].got \subseteq PhysDevs
      BY FieldTypes DEF IInv
    <3>4. /\ frame[u].inst # None => /\ instKey'[frame[u].inst] = instKey[frame[u].inst]
                                     /\ instCustom'[frame[u].inst] = instCustom[frame[u].inst]
          /\ frame[u].pd # None => pdOwner'[frame[u].pd] = pdOwner[frame[u].pd]
      BY <3>2, <3>3, <1>4, <1>5
    <3>5. pc[u] \in Enumerating => \A p \in frame[u].got : pdOwner'[p] = pdOwner[p]
      BY <3>1, <3>2, <3>3, <1>5 DEF FrameOK
    <3>6. pc[u] \in OfPhysDev => frame[u].pd # None
      <4>1. pc[u] \in OfPhysDev => frame[u].pd \in appPd
        BY <3>1 DEF FrameOK
      <4>2. QED
        BY <4>1, NoneIsNothing DEF IInv, TypeOK
    <3>7. pc[u] = "di_remove" => frame[u].inst # None
      BY <3>1 DEF FrameOK, DestroyingInstance
    <3>8. QED
      BY <3>1, <3>4, <3>5, <3>6, <3>7, <2>2, <1>3, <1>4 DEF FrameOK
  <2>3. QED
    BY <2>1, <2>2 DEF FramesOK
<1>e. Exclusive'
  <2>1. ASSUME NEW u \in Threads, NEW j \in Instances, UsesInstance(u, j)'
        PROVE  UsesInstance(u, j)
    <3>1. u # t
      BY <2>1, <1>4, NoneIsNothing DEF UsesInstance
    <3>2. frame[u].pd # None => frame[u].pd \in PhysDevs
      BY FieldTypes DEF IInv
    <3>3. QED
      BY <3>1, <3>2, <2>1, <1>3, <1>4, NoneIsNothing DEF UsesInstance
  <2>2. QED
    BY <2>1, <1>1, <1>3, <1>4, ExclusiveKept, NoneIsNothing DEF CreatingInstance,
       DestroyingInstance, CreatingDevice, DestroyingDevice
<1>l. LocksHeld'
  BY <1>1, <1>3, <1>4 DEF IInv, LocksHeld
<1>a. AllocatedWhenUsed'
  BY <1>3 DEF IInv, AllocatedWhenUsed, Free
<1>o. NothingLost'
  <2>1. ASSUME NEW j \in Instances, instKey'[j] # None
        PROVE  j \in appInst \/ \E u \in Threads : frame'[u].inst = j
    BY <2>1, <1>4 DEF IInv, NothingLost
  <2>2. ASSUME NEW v \in Devices, devPd[v] # None
        PROVE  v \in appDev \/ \E u \in Threads : frame'[u].dev = v
    BY <2>2, <1>1, <1>4, NoneIsNothing DEF IInv, NothingLost
  <2>3. QED
    BY <2>1, <2>2, <1>3 DEF NothingLost
<1> QED
  BY <1>t, <1>n, <1>k, <1>i, <1>p, <1>d, <1>f, <1>e, <1>l, <1>a, <1>o DEF IInv

-----------------------------------------------------------------------------
(* enumerate_physical_devices.                                             *)

\* A physical device that is known already is checked and skipped.
LEMMA KnownPhysicalDevicePreserves ==
  ASSUME IInv, NEW t \in Threads, pc[t] = "ep_each",
         NEW p \in frame[t].todo, pdMap[p] # None,
         Require(pdMap[p] = frame[t].inst),
         frame' = [frame EXCEPT ![t].todo = @ \ {p}],
         UNCHANGED <<maps, lock, pc, nextVars, appVars>>
  PROVE  IInv'
<1> DEFINE f == [frame[t] EXCEPT !.todo = @ \ {p}]
<1>1. FrameOK(t) /\ p \in PhysDevs /\ p \in frame[t].got
      /\ pdOwner[p] = frame[t].inst
  <2>1. FrameOK(t)
    BY DEF IInv, FramesOK
  <2>2. QED
    BY <2>1, FieldTypes DEF IInv, FrameOK, Enumerating
<1>2. pdMap[p] = frame[t].inst
  BY <1>1 DEF IInv, PhysicalDevicesRegistered
<1>3. frame' = [frame EXCEPT ![t] = f]
  BY DEF IInv, TypeOK
<1>4. f \in Frame /\ f.info = frame[t].info /\ f.inst = frame[t].inst
      /\ f.pd = frame[t].pd /\ f.dev = frame[t].dev /\ f.custom = frame[t].custom
      /\ f.todo = frame[t].todo \ {p} /\ f.got = frame[t].got
  <2>1. frame[t] \in Frame
    BY DEF IInv, TypeOK
  <2>2. QED
    BY <2>1 DEF Frame
<1>5. health' = "running" /\ UNCHANGED <<maps, lock, nextVars, appVars>>
  BY <1>2 DEF Require
<1>6. frame'[t] = f /\ pc' = [pc EXCEPT ![t] = "ep_each"] /\ pc'[t] = "ep_each"
  BY <1>3 DEF IInv, TypeOK
<1> HIDE DEF f
<1>7. FrameOK(t)'
  <2>1. UNCHANGED <<instMap, pdMap, devMap, instKey, pdOwner, devPd, instCustom,
                    devCustom, appInst, appPd, appDev>>
    BY DEF maps, nextVars, appVars
  <2>2. QED
    BY <2>1, <1>1, <1>2, <1>4, <1>6 DEF FrameOK, Owning, Option,
       CreatingInstance, DestroyingInstance, CreatingDevice, DestroyingDevice,
       OfInstance, OfPhysDev, Enumerating
<1>8. "ep_each" \in Labels \ Owning /\ pc[t] \notin Owning
  BY DEF Labels, Owning, CreatingInstance, DestroyingInstance, CreatingDevice,
     DestroyingDevice
<1>9. QED
  BY <1>3, <1>4, <1>5, <1>6, <1>7, <1>8, LocalStep

\* A physical device that is new keeps the mutex until it is inserted.
LEMMA NewPhysicalDevicePreserves ==
  ASSUME IInv, NEW t \in Threads, pc[t] = "ep_each", Free("pd"),
         NEW p \in frame[t].todo, pdMap[p] = None,
         lock' = [lock EXCEPT !["pd"] = t],
         GetMutOrDefault("pd"),
         frame' = [frame EXCEPT ![t].pd = p],
         pc' = [pc EXCEPT ![t] = "ep_insert"],
         UNCHANGED <<instMap, pdMap, devMap, health, nextVars, appVars>>
  PROVE  IInv'
<1> DEFINE f == [frame[t] EXCEPT !.pd = p]
<1>1. /\ FrameOK(t) /\ p \in PhysDevs /\ p \in frame[t].got
      /\ pdOwner[p] = frame[t].inst /\ frame[t].inst \in appInst
      /\ frame[t].inst \in Instances /\ frame[t].inst # None
      /\ frame[t].dev \in Option(appDev)
  <2>1. FrameOK(t)
    BY DEF IInv, FramesOK
  <2>2. frame[t].inst \in appInst /\ frame[t].dev \in Option(appDev)
    BY <2>1 DEF FrameOK, OfInstance, Enumerating, Owning, CreatingInstance,
       DestroyingInstance, CreatingDevice, DestroyingDevice
  <2>3. QED
    BY <2>1, <2>2, FieldTypes, NoneIsNothing DEF IInv, TypeOK, FrameOK, Enumerating
<1>2. frame' = [frame EXCEPT ![t] = f]
  BY DEF IInv, TypeOK
<1>3. f \in Frame /\ f.info = frame[t].info /\ f.inst = frame[t].inst
      /\ f.pd = p /\ f.dev = frame[t].dev /\ f.custom = frame[t].custom
      /\ f.todo = frame[t].todo /\ f.got = frame[t].got
  <2>1. frame[t] \in Frame
    BY DEF IInv, TypeOK
  <2>2. QED
    BY <2>1, <1>1 DEF Frame, Option
<1> HIDE DEF f
<1>4. /\ \A u \in Threads : pc'[u] = IF u = t THEN "ep_insert" ELSE pc[u]
      /\ \A u \in Threads : frame'[u] = IF u = t THEN f ELSE frame[u]
      /\ \A m \in Mutexes : lock'[m] = IF m = "pd" THEN t ELSE lock[m]
      /\ lock["pd"] = None /\ alloc' = alloc \cup {"pd"}
      /\ UNCHANGED <<instKey, pdOwner, devPd, instCustom, devCustom, appInst, appPd,
                     appDev>>
  BY <1>2 DEF IInv, TypeOK, Free, GetMutOrDefault, nextVars, appVars
<1>t. TypeOK'
  BY <1>2, <1>3, <1>4 DEF IInv, TypeOK, Option, Labels, Mutexes
<1>n. NoPanic'
  BY DEF IInv, NoPanic
<1>k. KeysDistinct'
  BY <1>4 DEF IInv, KeysDistinct
<1>i. InstancesRegistered'
  BY <1>4 DEF IInv, InstancesRegistered
<1>p. PhysicalDevicesRegistered'
  BY <1>4 DEF IInv, PhysicalDevicesRegistered
<1>d. DevicesRegistered'
  BY <1>4 DEF IInv, DevicesRegistered
<1>f. FramesOK'
  <2>1. FrameOK(t)'
    BY <1>1, <1>3, <1>4 DEF FrameOK, Owning, CreatingInstance,
       DestroyingInstance, CreatingDevice, DestroyingDevice, OfInstance, OfPhysDev,
       Enumerating
  <2>2. ASSUME NEW u \in Threads, u # t
        PROVE  FrameOK(u)'
    BY <2>2, <1>4 DEF IInv, FramesOK, FrameOK
  <2>3. QED
    BY <2>1, <2>2 DEF FramesOK
<1>e. Exclusive'
  <2>1. \A u \in Threads, j \in Instances : UsesInstance(u, j)' => UsesInstance(u, j)
    BY <1>1, <1>3, <1>4 DEF UsesInstance
  <2>2. QED
    BY <2>1, <1>3, <1>4, ExclusiveKept DEF CreatingInstance,
       DestroyingInstance, CreatingDevice, DestroyingDevice
<1>l. LocksHeld'
  BY <1>4, NoneIsNothing DEF IInv, LocksHeld, Mutexes
<1>a. AllocatedWhenUsed'
  BY <1>4, NoneIsNothing DEF IInv, AllocatedWhenUsed, Free, Mutexes
<1>o. NothingLost'
  BY <1>3, <1>4 DEF IInv, NothingLost
<1> QED
  BY <1>t, <1>n, <1>k, <1>i, <1>p, <1>d, <1>f, <1>e, <1>l, <1>a, <1>o DEF IInv

\* One iteration of create_physical_device_infos.
LEMMA CheckPhysicalDevicePreserves ==
  ASSUME IInv, NEW t \in Threads, CheckPhysicalDevice(t)
  PROVE  IInv'
<1>1. PICK p \in frame[t].todo :
       IF pdMap[p] # None
         THEN /\ Require(pdMap[p] = frame[t].inst)
              /\ frame' = [frame EXCEPT ![t].todo = @ \ {p}]
              /\ UNCHANGED <<alloc, lock, pc>>
         ELSE /\ lock' = [lock EXCEPT !["pd"] = t]
              /\ GetMutOrDefault("pd")
              /\ frame' = [frame EXCEPT ![t].pd = p]
              /\ Goto(t, "ep_insert")
              /\ UNCHANGED health
  BY DEF CheckPhysicalDevice
<1>2. CASE pdMap[p] # None
  BY <1>1, <1>2, KnownPhysicalDevicePreserves DEF CheckPhysicalDevice, maps
<1>3. CASE pdMap[p] = None
  BY <1>1, <1>3, NewPhysicalDevicePreserves DEF CheckPhysicalDevice, Goto
<1>4. QED
  BY <1>2, <1>3

\* The owner's info is found under the second lock, and the entry is new.
LEMMA RegisterPhysicalDevicePreserves ==
  ASSUME IInv, NEW t \in Threads, RegisterPhysicalDevice(t)
  PROVE  IInv'
<1> DEFINE i == frame[t].inst
<1> DEFINE p == frame[t].pd
<1> DEFINE f == [frame[t] EXCEPT !.todo = @ \ {p}, !.pd = None]
<1>1. /\ FrameOK(t) /\ p \in PhysDevs /\ p \in frame[t].todo /\ pdMap[p] = None
      /\ p \in frame[t].got /\ pdOwner[p] = i /\ i \in appInst /\ i \in Instances
      /\ i # None /\ pc[t] = "ep_insert"
  <2>1. FrameOK(t) /\ pc[t] = "ep_insert"
    BY DEF RegisterPhysicalDevice, IInv, FramesOK
  <2>2. /\ i \in appInst /\ p \in frame[t].todo /\ p \in frame[t].got
        /\ pdMap[p] = None /\ pdOwner[p] = i
    BY <2>1 DEF FrameOK, OfInstance, Enumerating
  <2>3. QED
    BY <2>1, <2>2, FieldTypes, NoneIsNothing DEF IInv, TypeOK
<1>2. GetInstanceInfo(i) # None
  <2>1. instKey[i] # None /\ instMap[instKey[i]] = [inst |-> i, custom |-> instCustom[i]]
    BY <1>1 DEF IInv, InstancesRegistered
  <2>2. instCustom[i] \in Customs
    BY <2>1, <1>1 DEF IInv, TypeOK, KeysDistinct, Option
  <2>3. [inst |-> i, custom |-> instCustom[i]] \in InstInfo
    BY <2>2, <1>1 DEF InstInfo
  <2>4. QED
    BY <2>1, <2>3, <1>1, NoneIsNothing DEF GetInstanceInfo
<1>3. f \in Frame /\ f.info = frame[t].info /\ f.inst = i
      /\ f.pd = None /\ f.dev = frame[t].dev /\ f.custom = frame[t].custom
      /\ f.todo = frame[t].todo \ {p} /\ f.got = frame[t].got
  <2>1. frame[t] \in Frame
    BY DEF IInv, TypeOK
  <2>2. QED
    BY <2>1 DEF Frame, Option
<1>4. /\ pdMap' = [pdMap EXCEPT ![p] = i]
      /\ lock' = [lock EXCEPT !["pd"] = None]
      /\ frame' = [frame EXCEPT ![t] = f]
      /\ pc' = [pc EXCEPT ![t] = "ep_each"]
      /\ health' = "running"
      /\ UNCHANGED <<instMap, devMap, alloc, instKey, pdOwner, devPd, instCustom,
                     devCustom, appInst, appPd, appDev>>
  BY <1>2 DEF RegisterPhysicalDevice, Require, Goto, nextVars, appVars, IInv, TypeOK
<1> HIDE DEF f
<1>5. /\ \A u \in Threads : pc'[u] = IF u = t THEN "ep_each" ELSE pc[u]
      /\ \A u \in Threads : frame'[u] = IF u = t THEN f ELSE frame[u]
      /\ \A m \in Mutexes : lock'[m] = IF m = "pd" THEN None ELSE lock[m]
      /\ \A q \in PhysDevs : pdMap'[q] = IF q = p THEN i ELSE pdMap[q]
  BY <1>4 DEF IInv, TypeOK
<1>6. frame[t].dev \in Option(appDev)
  BY <1>1 DEF FrameOK, Owning
<1>t. TypeOK'
  BY <1>1, <1>3, <1>4 DEF IInv, TypeOK, Option, Labels, Mutexes
<1>n. NoPanic'
  BY <1>4 DEF NoPanic
<1>k. KeysDistinct'
  BY <1>4 DEF IInv, KeysDistinct
<1>i. InstancesRegistered'
  BY <1>1, <1>4, <1>5 DEF IInv, InstancesRegistered
<1>p. PhysicalDevicesRegistered'
  <2>1. ASSUME NEW q \in PhysDevs, pdMap'[q] # None
        PROVE  /\ pdMap'[q] = pdOwner[q]
               /\ \/ pdMap'[q] \in appInst
                  \/ \E u \in Threads : pc'[u] \in {"di_remove", "di_purge"}
                                        /\ frame'[u].inst = pdMap'[q]
    <3>1. CASE q = p
      BY <3>1, <1>1, <1>5
    <3>2. CASE q # p
      BY <3>2, <2>1, <1>1, <1>5 DEF IInv, PhysicalDevicesRegistered
    <3>3. QED
      BY <3>1, <3>2
  <2>2. ASSUME NEW q \in appPd
        PROVE  pdMap'[q] = pdMap[q] \/ pdMap'[q] = pdOwner[q]
    BY <1>1, <1>5 DEF IInv, TypeOK
  <2>3. QED
    BY <2>1, <2>2, <1>4 DEF IInv, PhysicalDevicesRegistered
<1>d. DevicesRegistered'
  BY <1>1, <1>4, <1>5 DEF IInv, DevicesRegistered
<1>f. FramesOK'
  <2>1. FrameOK(t)'
    <3>1. \A q \in f.got \ f.todo : pdMap'[q] = i
      BY <1>1, <1>3, <1>5, FieldTypes DEF FrameOK, Enumerating, IInv
    <3>2. QED
      BY <3>1, <1>1, <1>3, <1>4, <1>5, <1>6 DEF FrameOK, Owning, Option,
         CreatingInstance, DestroyingInstance, CreatingDevice, DestroyingDevice,
         OfInstance, OfPhysDev, Enumerating
  <2>2. ASSUME NEW u \in Threads, u # t
        PROVE  FrameOK(u)'
    <3>1. FrameOK(u) /\ pc[u] # "ep_insert"
      BY <2>2, <1>1 DEF IInv, FramesOK, LocksHeld
    <3>2. pc[u] \in Enumerating =>
            \A q \in frame[u].got \ frame[u].todo : pdMap'[q] = frame[u].inst
      BY <3>1, <1>1, <1>5, FieldTypes DEF FrameOK, IInv
    <3>3. QED
      BY <3>1, <3>2, <2>2, <1>4, <1>5 DEF FrameOK
  <2>3. QED
    BY <2>1, <2>2 DEF FramesOK
<1>e. Exclusive'
  <2>1. \A u \in Threads, j \in Instances : UsesInstance(u, j)' => UsesInstance(u, j)
    BY <1>3, <1>4, <1>5 DEF UsesInstance
  <2>2. QED
    BY <2>1, <1>3, <1>5, ExclusiveKept DEF CreatingInstance,
       DestroyingInstance, CreatingDevice, DestroyingDevice
<1>l. LocksHeld'
  BY <1>1, <1>5, NoneIsNothing DEF IInv, LocksHeld, Mutexes
<1>a. AllocatedWhenUsed'
  <2>1. lock["pd"] # None
    BY <1>1, NoneIsNothing DEF IInv, LocksHeld
  <2>2. QED
    BY <2>1, <1>1, <1>4, <1>5 DEF IInv, AllocatedWhenUsed, Free, Mutexes
<1>o. NothingLost'
  BY <1>3, <1>4, <1>5 DEF IInv, NothingLost
<1> QED
  BY <1>t, <1>n, <1>k, <1>i, <1>p, <1>d, <1>f, <1>e, <1>l, <1>a, <1>o DEF IInv

\* Every physical device in the returned array has been registered.
LEMMA EnumerateReturnPreserves ==
  ASSUME IInv, NEW t \in Threads, EnumerateReturn(t)
  PROVE  IInv'
<1> DEFINE P == frame[t].got
<1>1. /\ FrameOK(t) /\ pc[t] = "ep_each" /\ P \subseteq PhysDevs
      /\ frame[t].inst \in appInst /\ frame[t].dev \in Option(appDev)
      /\ \A p \in P : pdMap[p] = frame[t].inst /\ pdOwner[p] = frame[t].inst
  <2>1. FrameOK(t) /\ pc[t] = "ep_each" /\ frame[t].todo = {}
    BY DEF EnumerateReturn, IInv, FramesOK
  <2>2. QED
    BY <2>1, FieldTypes DEF IInv, FrameOK, Enumerating, OfInstance, Owning,
       CreatingInstance, DestroyingInstance, CreatingDevice, DestroyingDevice
<1>2. /\ appPd' = appPd \cup P
      /\ pc' = [pc EXCEPT ![t] = "idle"]
      /\ frame' = [frame EXCEPT ![t] = NoFrame]
      /\ UNCHANGED <<instMap, pdMap, devMap, alloc, lock, health, instKey, pdOwner,
                     devPd, instCustom, devCustom, appInst, appDev>>
  BY DEF EnumerateReturn, Return, maps, nextVars
<1>3. /\ \A u \in Threads : pc'[u] = IF u = t THEN "idle" ELSE pc[u]
      /\ \A u \in Threads : frame'[u] = IF u = t THEN NoFrame ELSE frame[u]
      /\ NoFrame.inst = None /\ NoFrame.pd = None /\ NoFrame.dev = None
  BY <1>2 DEF IInv, TypeOK, NoFrame
<1>t. TypeOK'
  BY <1>1, <1>2, NoFrameType DEF IInv, TypeOK, Labels
<1>n. NoPanic'
  BY <1>2 DEF IInv, NoPanic
<1>k. KeysDistinct'
  BY <1>2 DEF IInv, KeysDistinct
<1>i. InstancesRegistered'
  BY <1>1, <1>2, <1>3 DEF IInv, InstancesRegistered
<1>p. PhysicalDevicesRegistered'
  <2>1. \A p \in appPd' : pdMap[p] = pdOwner[p] /\ pdOwner[p] \in appInst
    BY <1>1, <1>2 DEF IInv, PhysicalDevicesRegistered
  <2>2. QED
    BY <2>1, <1>1, <1>2, <1>3 DEF IInv, PhysicalDevicesRegistered
<1>d. DevicesRegistered'
  BY <1>1, <1>2, <1>3 DEF IInv, DevicesRegistered
<1>f. FramesOK'
  <2>1. FrameOK(t)'
    <3>1. pc'[t] = "idle" /\ frame'[t] = NoFrame
      BY <1>3
    <3>2. QED
      BY <3>1, IdleFrameOK
  <2>2. ASSUME NEW u \in Threads, u # t
        PROVE  FrameOK(u)'
    BY <2>2, <1>2, <1>3 DEF IInv, FramesOK, FrameOK, Option
  <2>3. QED
    BY <2>1, <2>2 DEF FramesOK
<1>e. Exclusive'
  <2>1. \A u \in Threads, j \in Instances : UsesInstance(u, j)' => UsesInstance(u, j)
    BY <1>2, <1>3, NoneIsNothing DEF UsesInstance
  <2>2. QED
    BY <2>1, <1>3, ExclusiveKept, NoneIsNothing DEF CreatingInstance,
       DestroyingInstance, CreatingDevice, DestroyingDevice
<1>l. LocksHeld'
  BY <1>1, <1>2, <1>3 DEF IInv, LocksHeld
<1>a. AllocatedWhenUsed'
  BY <1>2 DEF IInv, AllocatedWhenUsed, Free
<1>o. NothingLost'
  BY <1>1, <1>2, <1>3, NoneIsNothing DEF IInv, NothingLost, Option
<1> QED
  BY <1>t, <1>n, <1>k, <1>i, <1>p, <1>d, <1>f, <1>e, <1>l, <1>a, <1>o DEF IInv

-----------------------------------------------------------------------------
(* create_device and destroy_device.                                       *)

\* The new device has an unused handle, so it meets no entry and no call.
LEMMA NextCreateDevicePreserves ==
  ASSUME IInv, NEW t \in Threads, NextCreateDevice(t)
  PROVE  IInv'
<1>1. PICK v \in Devices, c \in Customs :
        /\ devPd[v] = None
        /\ devPd' = [devPd EXCEPT ![v] = frame[t].pd]
        /\ devCustom' = [devCustom EXCEPT ![v] = c]
        /\ frame' = [frame EXCEPT ![t].dev = v, ![t].custom = c]
  BY DEF NextCreateDevice
<1> DEFINE f == [frame[t] EXCEPT !.dev = v, !.custom = c]
<1>2. /\ FrameOK(t) /\ pc[t] = "cd_next" /\ frame[t].pd \in appPd
      /\ frame[t].pd \in PhysDevs /\ frame[t].pd # None
      /\ frame[t].inst \in appInst /\ frame[t].inst = pdOwner[frame[t].pd]
      /\ frame[t].dev \in Option(appDev)
  <2>1. FrameOK(t) /\ pc[t] = "cd_next"
    BY DEF NextCreateDevice, IInv, FramesOK
  <2>2. QED
    BY <2>1, NoneIsNothing DEF IInv, TypeOK, FrameOK, OfPhysDev, OfInstance, Owning,
       CreatingInstance, DestroyingInstance, CreatingDevice, DestroyingDevice
<1>3. f \in Frame /\ f.info = frame[t].info /\ f.inst = frame[t].inst
      /\ f.pd = frame[t].pd /\ f.dev = v /\ f.custom = c
      /\ f.todo = frame[t].todo /\ f.got = frame[t].got
      /\ v # None /\ c # None
  <2>1. frame[t] \in Frame
    BY DEF IInv, TypeOK
  <2>2. QED
    BY <2>1, NoneIsNothing DEF Frame, Option
<1>4. frame' = [frame EXCEPT ![t] = f]
  BY <1>1 DEF IInv, TypeOK
<1> HIDE DEF f
<1>5. /\ pc' = [pc EXCEPT ![t] = "cd_lock"]
      /\ UNCHANGED <<instMap, pdMap, devMap, alloc, lock, health, instKey, pdOwner,
                     instCustom, appInst, appPd, appDev>>
  BY DEF NextCreateDevice, Goto, maps, appVars
<1>6. /\ \A u \in Threads : pc'[u] = IF u = t THEN "cd_lock" ELSE pc[u]
      /\ \A u \in Threads : frame'[u] = IF u = t THEN f ELSE frame[u]
      /\ \A w \in Devices : w # v => devPd'[w] = devPd[w] /\ devCustom'[w] = devCustom[w]
      /\ devPd'[v] = frame[t].pd /\ devCustom'[v] = c
  BY <1>1, <1>4, <1>5 DEF IInv, TypeOK
<1>7. v \notin appDev /\ devMap[v] = None /\ appDev \subseteq Devices
  BY <1>1 DEF IInv, TypeOK, DevicesRegistered
<1>8. ASSUME NEW u \in Threads
      PROVE  /\ frame[u].dev # v
             /\ frame[u].dev # None => frame[u].dev \in Devices
  <2>1. FrameOK(u)
    BY DEF IInv, FramesOK
  <2>2. QED
    BY <2>1, <1>1, <1>3, FieldTypes DEF FrameOK, IInv
<1>t. TypeOK'
  <2>1. /\ devPd' \in [Devices -> Option(PhysDevs)]
        /\ devCustom' \in [Devices -> Option(Customs)]
    BY <1>1, <1>2 DEF IInv, TypeOK, Option
  <2>2. frame' \in [Threads -> Frame]
    BY <1>3, <1>4 DEF IInv, TypeOK
  <2>3. QED
    BY <2>1, <2>2, <1>5 DEF IInv, TypeOK, Labels
<1>n. NoPanic'
  BY <1>5 DEF IInv, NoPanic
<1>k. KeysDistinct'
  BY <1>5 DEF IInv, KeysDistinct
<1>i. InstancesRegistered'
  BY <1>2, <1>5, <1>6 DEF IInv, InstancesRegistered
<1>p. PhysicalDevicesRegistered'
  BY <1>2, <1>5, <1>6 DEF IInv, PhysicalDevicesRegistered
<1>d. DevicesRegistered'
  <2>1. ASSUME NEW w \in Devices, devPd'[w] # None
        PROVE  devPd'[w] \in appPd /\ devCustom'[w] # None
    BY <2>1, <1>2, <1>3, <1>6 DEF IInv, DevicesRegistered
  <2>2. ASSUME NEW w \in Devices, devMap[w] # None
        PROVE  /\ devPd'[w] # None /\ devMap[w] = devCustom'[w]
               /\ \/ w \in appDev
                  \/ \E u \in Threads : pc'[u] = "dd_remove" /\ frame'[u].dev = w
    BY <2>2, <1>2, <1>6, <1>7 DEF IInv, DevicesRegistered
  <2>3. ASSUME NEW w \in appDev
        PROVE  devPd'[w] # None /\ devMap[w] = devCustom'[w]
    BY <1>6, <1>7 DEF IInv, DevicesRegistered
  <2>4. QED
    BY <2>1, <2>2, <2>3, <1>5 DEF DevicesRegistered
<1>f. FramesOK'
  <2>1. FrameOK(t)'
    BY <1>2, <1>3, <1>5, <1>6, <1>7 DEF FrameOK, Owning, CreatingInstance,
       DestroyingInstance, CreatingDevice, DestroyingDevice, OfInstance, OfPhysDev,
       Enumerating
  <2>2. ASSUME NEW u \in Threads, u # t
        PROVE  FrameOK(u)'
    BY <2>2, <1>5, <1>6, <1>8 DEF IInv, FramesOK, FrameOK
  <2>3. QED
    BY <2>1, <2>2 DEF FramesOK
<1>e. Exclusive'
  <2>1. ASSUME NEW u \in Threads, NEW w \in Threads, u # w,
               pc'[u] \in CreatingInstance \cup DestroyingInstance
        PROVE  ~ UsesInstance(w, frame[u].inst)' /\ u # t
    BY <2>1, <1>3, <1>5, <1>6 DEF IInv, Exclusive, UsesInstance, CreatingInstance,
       DestroyingInstance
  <2>2. ASSUME NEW u \in Threads, NEW w \in Threads, u # w,
               pc'[u] \in CreatingDevice \cup DestroyingDevice
        PROVE  frame'[w].dev # frame'[u].dev
    BY <2>2, <1>3, <1>6, <1>8 DEF IInv, Exclusive
  <2>3. QED
    BY <2>1, <2>2, <1>6 DEF Exclusive
<1>l. LocksHeld'
  BY <1>2, <1>5, <1>6 DEF IInv, LocksHeld
<1>a. AllocatedWhenUsed'
  BY <1>5 DEF IInv, AllocatedWhenUsed, Free
<1>o. NothingLost'
  <2>1. ASSUME NEW w \in Devices, devPd'[w] # None
        PROVE  w \in appDev \/ \E u \in Threads : frame'[u].dev = w
    <3>1. CASE w = v
      BY <3>1, <1>3, <1>6
    <3>2. CASE w # v
      BY <3>2, <2>1, <1>2, <1>6, NoneIsNothing DEF IInv, NothingLost, Option
    <3>3. QED
      BY <3>1, <3>2
  <2>2. QED
    BY <2>1, <1>3, <1>5, <1>6 DEF IInv, NothingLost
<1> QED
  BY <1>t, <1>n, <1>k, <1>i, <1>p, <1>d, <1>f, <1>e, <1>l, <1>a, <1>o DEF IInv

\* The assertion holds: an entry would be of a device in other hands.
LEMMA LockDeviceMapPreserves ==
  ASSUME IInv, NEW t \in Threads, LockDeviceMap(t)
  PROVE  IInv'
<1> DEFINE v == frame[t].dev
<1>1. FrameOK(t) /\ v \in Devices /\ v \notin appDev /\ pc[t] = "cd_lock"
  <2>1. FrameOK(t) /\ pc[t] = "cd_lock"
    BY DEF LockDeviceMap, IInv, FramesOK
  <2>2. QED
    BY <2>1, FieldTypes DEF IInv, FrameOK, CreatingDevice
<1>2. devMap[v] = None
  <2>1. SUFFICES ASSUME devMap[v] # None PROVE FALSE
    OBVIOUS
  <2>2. PICK u \in Threads : pc[u] = "dd_remove" /\ frame[u].dev = v
    BY <2>1, <1>1 DEF IInv, DevicesRegistered
  <2>3. QED
    BY <2>2, <1>1 DEF IInv, Exclusive, CreatingDevice
<1>3. /\ pc' = [pc EXCEPT ![t] = "cd_insert"]
      /\ lock["dev"] = None
      /\ lock' = [lock EXCEPT !["dev"] = t]
      /\ alloc' = alloc \cup {"dev"}
      /\ health' = "running"
      /\ UNCHANGED <<instMap, pdMap, devMap, frame, instKey, pdOwner, devPd,
                     instCustom, devCustom, appInst, appPd, appDev>>
  BY <1>2 DEF LockDeviceMap, Free, Require, GetMutOrDefault, Goto, nextVars, appVars
<1>4. /\ \A u \in Threads : pc'[u] = IF u = t THEN "cd_insert" ELSE pc[u]
      /\ \A m \in Mutexes : lock'[m] = IF m = "dev" THEN t ELSE lock[m]
  BY <1>3 DEF IInv, TypeOK
<1>t. TypeOK'
  BY <1>3 DEF IInv, TypeOK, Option, Labels, Mutexes
<1>n. NoPanic'
  BY <1>3 DEF NoPanic
<1>k. KeysDistinct'
  BY <1>3 DEF IInv, KeysDistinct
<1>i. InstancesRegistered'
  BY <1>1, <1>3, <1>4 DEF IInv, InstancesRegistered
<1>p. PhysicalDevicesRegistered'
  BY <1>1, <1>3, <1>4 DEF IInv, PhysicalDevicesRegistered
<1>d. DevicesRegistered'
  BY <1>1, <1>3, <1>4 DEF IInv, DevicesRegistered
<1>f. FramesOK'
  <2>1. FrameOK(t)'
    BY <1>1, <1>3, <1>4 DEF FrameOK, Owning, CreatingInstance, DestroyingInstance,
       CreatingDevice, DestroyingDevice, OfInstance, OfPhysDev, Enumerating
  <2>2. ASSUME NEW u \in Threads, u # t
        PROVE  FrameOK(u)'
    BY <2>2, <1>3, <1>4 DEF IInv, FramesOK, FrameOK
  <2>3. QED
    BY <2>1, <2>2 DEF FramesOK
<1>e. Exclusive'
  <2>1. \A u \in Threads, j \in Instances : UsesInstance(u, j)' => UsesInstance(u, j)
    BY <1>3 DEF UsesInstance
  <2>2. QED
    BY <2>1, <1>1, <1>3, <1>4, ExclusiveKept DEF CreatingInstance, DestroyingInstance,
       CreatingDevice, DestroyingDevice
<1>l. LocksHeld'
  BY <1>1, <1>3, <1>4, NoneIsNothing DEF IInv, LocksHeld, Mutexes
<1>a. AllocatedWhenUsed'
  BY <1>3, <1>4, NoneIsNothing DEF IInv, AllocatedWhenUsed, Free, Mutexes
<1>o. NothingLost'
  BY <1>3 DEF IInv, NothingLost
<1> QED
  BY <1>t, <1>n, <1>k, <1>i, <1>p, <1>d, <1>f, <1>e, <1>l, <1>a, <1>o DEF IInv

\* The new entry is the info made for this device.
LEMMA RegisterDevicePreserves ==
  ASSUME IInv, NEW t \in Threads, RegisterDevice(t)
  PROVE  IInv'
<1> DEFINE v == frame[t].dev
<1> DEFINE c == frame[t].custom
<1>1. /\ FrameOK(t) /\ v \in Devices /\ v \notin appDev /\ pc[t] = "cd_insert"
      /\ c = devCustom[v] /\ c \in Customs /\ c # None /\ devPd[v] # None
      /\ frame[t].inst \in appInst
  <2>1. FrameOK(t) /\ pc[t] = "cd_insert"
    BY DEF RegisterDevice, IInv, FramesOK
  <2>2. QED
    BY <2>1, FieldTypes, NoneIsNothing DEF IInv, FrameOK, CreatingDevice, OfInstance,
       OfPhysDev
<1>2. /\ devMap' = [devMap EXCEPT ![v] = c]
      /\ pc' = [pc EXCEPT ![t] = "idle"]
      /\ frame' = [frame EXCEPT ![t] = NoFrame]
      /\ lock' = [lock EXCEPT !["dev"] = None]
      /\ appDev' = appDev \cup {v}
      /\ UNCHANGED <<instMap, pdMap, alloc, health, instKey, pdOwner, devPd,
                     instCustom, devCustom, appInst, appPd>>
  BY DEF RegisterDevice, Return, nextVars
<1>3. /\ \A u \in Threads : pc'[u] = IF u = t THEN "idle" ELSE pc[u]
      /\ \A u \in Threads : frame'[u] = IF u = t THEN NoFrame ELSE frame[u]
      /\ \A m \in Mutexes : lock'[m] = IF m = "dev" THEN None ELSE lock[m]
      /\ \A w \in Devices : devMap'[w] = IF w = v THEN c ELSE devMap[w]
      /\ NoFrame.inst = None /\ NoFrame.pd = None /\ NoFrame.dev = None
  BY <1>2 DEF IInv, TypeOK, NoFrame
<1>4. ASSUME NEW u \in Threads, u # t
      PROVE  frame[u].dev # v
  BY <1>4, <1>1 DEF IInv, Exclusive, CreatingDevice
<1>t. TypeOK'
  BY <1>1, <1>2, NoFrameType DEF IInv, TypeOK, Option, Labels, Mutexes
<1>n. NoPanic'
  BY <1>2 DEF IInv, NoPanic
<1>k. KeysDistinct'
  BY <1>2 DEF IInv, KeysDistinct
<1>i. InstancesRegistered'
  BY <1>1, <1>2, <1>3 DEF IInv, InstancesRegistered
<1>p. PhysicalDevicesRegistered'
  BY <1>1, <1>2, <1>3 DEF IInv, PhysicalDevicesRegistered
<1>d. DevicesRegistered'
  <2>1. ASSUME NEW w \in Devices, devMap'[w] # None
        PROVE  /\ devPd[w] # None /\ devMap'[w] = devCustom[w]
               /\ \/ w \in appDev'
                  \/ \E u \in Threads : pc'[u] = "dd_remove" /\ frame'[u].dev = w
    <3>1. CASE w = v
      BY <3>1, <1>1, <1>2, <1>3
    <3>2. CASE w # v
      BY <3>2, <2>1, <1>1, <1>2, <1>3 DEF IInv, DevicesRegistered
    <3>3. QED
      BY <3>1, <3>2
  <2>2. ASSUME NEW w \in appDev'
        PROVE  devPd[w] # None /\ devMap'[w] = devCustom[w]
    BY <1>1, <1>2, <1>3 DEF IInv, TypeOK, DevicesRegistered
  <2>3. QED
    BY <2>1, <2>2, <1>2 DEF IInv, DevicesRegistered
<1>f. FramesOK'
  <2>1. FrameOK(t)'
    <3>1. pc'[t] = "idle" /\ frame'[t] = NoFrame
      BY <1>3
    <3>2. QED
      BY <3>1, IdleFrameOK
  <2>2. ASSUME NEW u \in Threads, u # t
        PROVE  FrameOK(u)'
    <3>1. FrameOK(u) /\ frame[u].dev # v
      BY <2>2, <1>4 DEF IInv, FramesOK
    <3>2. pc[u] = "dd_remove" => frame[u].dev \in Devices
      BY <3>1, FieldTypes DEF FrameOK, DestroyingDevice, IInv
    <3>3. QED
      BY <3>1, <3>2, <2>2, <1>2, <1>3 DEF FrameOK, Option
  <2>3. QED
    BY <2>1, <2>2 DEF FramesOK
<1>e. Exclusive'
  <2>1. \A u \in Threads, j \in Instances : UsesInstance(u, j)' => UsesInstance(u, j)
    BY <1>2, <1>3, NoneIsNothing DEF UsesInstance
  <2>2. QED
    BY <2>1, <1>3, ExclusiveKept, NoneIsNothing DEF CreatingInstance,
       DestroyingInstance, CreatingDevice, DestroyingDevice
<1>l. LocksHeld'
  BY <1>1, <1>2, <1>3, NoneIsNothing DEF IInv, LocksHeld, Mutexes
<1>a. AllocatedWhenUsed'
  <2>1. lock["dev"] # None
    BY <1>1, NoneIsNothing DEF IInv, LocksHeld
  <2>2. QED
    BY <2>1, <1>1, <1>2, <1>3 DEF IInv, AllocatedWhenUsed, Free, Mutexes
<1>o. NothingLost'
  BY <1>1, <1>2, <1>3, NoneIsNothing DEF IInv, NothingLost
<1> QED
  BY <1>t, <1>n, <1>k, <1>i, <1>p, <1>d, <1>f, <1>e, <1>l, <1>a, <1>o DEF IInv

\* The application gives up a device that no call uses.
LEMMA DestroyDevicePreserves ==
  ASSUME IInv, NEW t \in Threads, NEW v \in Devices, DestroyDevice(t, v)
  PROVE  IInv'
<1> DEFINE f == [NoFrame EXCEPT !.dev = v]
<1>1. /\ f \in Frame /\ f.inst = None /\ f.pd = None /\ f.dev = v
      /\ f.info = None /\ f.custom = None /\ v # None
  BY NoneIsNothing DEF NoFrame, Frame, Option
<1>2. /\ v \in appDev /\ pc[t] = "idle" /\ frame[t] = NoFrame
      /\ \A u \in Threads : frame[u].dev # v
      /\ pc' = [pc EXCEPT ![t] = "dd_remove"]
      /\ frame' = [frame EXCEPT ![t] = f]
      /\ appDev' = appDev \ {v}
      /\ UNCHANGED <<instMap, pdMap, devMap, alloc, lock, health, instKey, pdOwner,
                     devPd, instCustom, devCustom, appInst, appPd>>
  BY DEF DestroyDevice, Call, maps, nextVars, IInv, FramesOK, FrameOK
<1> HIDE DEF f
<1>3. /\ \A u \in Threads : pc'[u] = IF u = t THEN "dd_remove" ELSE pc[u]
      /\ \A u \in Threads : frame'[u] = IF u = t THEN f ELSE frame[u]
      /\ NoFrame.inst = None /\ NoFrame.pd = None /\ NoFrame.dev = None
  BY <1>2 DEF IInv, TypeOK, NoFrame
<1>4. devPd[v] # None /\ devMap[v] = devCustom[v] /\ devMap[v] # None
  BY <1>2 DEF IInv, DevicesRegistered
<1>t. TypeOK'
  BY <1>1, <1>2 DEF IInv, TypeOK, Labels
<1>n. NoPanic'
  BY <1>2 DEF IInv, NoPanic
<1>k. KeysDistinct'
  BY <1>2 DEF IInv, KeysDistinct
<1>i. InstancesRegistered'
  BY <1>2, <1>3 DEF IInv, InstancesRegistered
<1>p. PhysicalDevicesRegistered'
  BY <1>2, <1>3 DEF IInv, PhysicalDevicesRegistered
<1>d. DevicesRegistered'
  <2>1. ASSUME NEW w \in Devices, devMap[w] # None
        PROVE  \/ w \in appDev'
               \/ \E u \in Threads : pc'[u] = "dd_remove" /\ frame'[u].dev = w
    <3>1. CASE w = v
      BY <3>1, <1>1, <1>3
    <3>2. CASE w # v
      BY <3>2, <2>1, <1>2, <1>3 DEF IInv, DevicesRegistered
    <3>3. QED
      BY <3>1, <3>2
  <2>2. QED
    BY <2>1, <1>2 DEF IInv, DevicesRegistered
<1>f. FramesOK'
  <2>1. FrameOK(t)'
    <3>1. frame'[t] = f /\ pc'[t] = "dd_remove" /\ v \notin appDev'
      BY <1>2, <1>3
    <3>2. QED
      BY <3>1, <1>1, <1>2, <1>4 DEF FrameOK, Owning, CreatingInstance,
         DestroyingInstance, CreatingDevice, DestroyingDevice, OfInstance, OfPhysDev,
         Enumerating
  <2>2. ASSUME NEW u \in Threads, u # t
        PROVE  FrameOK(u)'
    BY <2>2, <1>2, <1>3 DEF IInv, FramesOK, FrameOK, Option
  <2>3. QED
    BY <2>1, <2>2 DEF FramesOK
<1>e. Exclusive'
  <2>1. ASSUME NEW u \in Threads, NEW w \in Threads, u # w,
               pc'[u] \in CreatingInstance \cup DestroyingInstance
        PROVE  ~ UsesInstance(w, frame[u].inst)' /\ u # t
    <3>1. /\ u # t /\ pc[u] \in CreatingInstance \cup DestroyingInstance
      BY <2>1, <1>3 DEF CreatingInstance, DestroyingInstance
    <3>2. frame[u].inst # None /\ ~ UsesInstance(w, frame[u].inst)
      BY <3>1, <2>1 DEF IInv, FramesOK, FrameOK, Exclusive
    <3>3. QED
      BY <3>1, <3>2, <1>1, <1>2, <1>3 DEF UsesInstance
  <2>2. ASSUME NEW u \in Threads, NEW w \in Threads, u # w,
               pc'[u] \in CreatingDevice \cup DestroyingDevice
        PROVE  frame'[w].dev # frame'[u].dev
    BY <2>2, <1>1, <1>2, <1>3 DEF IInv, Exclusive
  <2>3. QED
    BY <2>1, <2>2, <1>3 DEF Exclusive
<1>l. LocksHeld'
  BY <1>2, <1>3 DEF IInv, LocksHeld
<1>a. AllocatedWhenUsed'
  BY <1>2 DEF IInv, AllocatedWhenUsed, Free
<1>o. NothingLost'
  BY <1>1, <1>2, <1>3, NoneIsNothing DEF IInv, NothingLost
<1> QED
  BY <1>t, <1>n, <1>k, <1>i, <1>p, <1>d, <1>f, <1>e, <1>l, <1>a, <1>o DEF IInv

\* The entry is there, and nobody else holds the Arc.
LEMMA RemoveDevicePreserves ==
  ASSUME IInv, NEW t \in Threads, RemoveDevice(t)
  PROVE  IInv'
<1> DEFINE v == frame[t].dev
<1> DEFINE f == [frame[t] EXCEPT !.custom = devMap[v]]
<1>1. /\ FrameOK(t) /\ pc[t] = "dd_remove" /\ v \in Devices /\ v \notin appDev
      /\ v # None /\ devMap[v] # None
  <2>1. FrameOK(t) /\ pc[t] = "dd_remove"
    BY DEF RemoveDevice, IInv, FramesOK
  <2>2. QED
    BY <2>1, FieldTypes DEF IInv, FrameOK, DestroyingDevice
<1>2. devMap[v] \in Customs /\ devMap[v] = devCustom[v]
  BY <1>1 DEF IInv, TypeOK, Option, DevicesRegistered
<1>3. ASSUME NEW u \in Threads, u # t
      PROVE  frame[u].dev # v
  BY <1>3, <1>1 DEF IInv, Exclusive, DestroyingDevice
<1>4. /\ lock["dev"] = None
      /\ devMap' = [devMap EXCEPT ![v] = None]
      /\ DropRefMut("dev", devMap')
      /\ health' = "running"
      /\ pc' = [pc EXCEPT ![t] = "dd_next"]
      /\ frame' = [frame EXCEPT ![t] = f]
      /\ UNCHANGED <<instMap, pdMap, lock, instKey, pdOwner, devPd, instCustom,
                     devCustom, appInst, appPd, appDev>>
  BY <1>1, <1>3 DEF RemoveDevice, Free, Require, Goto, nextVars, appVars, IInv, TypeOK
<1>5. /\ f \in Frame /\ f.inst = frame[t].inst /\ f.info = frame[t].info
      /\ f.pd = frame[t].pd /\ f.dev = v /\ f.custom = devMap[v]
      /\ f.todo = frame[t].todo /\ f.got = frame[t].got
  <2>1. frame[t] \in Frame
    BY DEF IInv, TypeOK
  <2>2. QED
    BY <2>1, <1>2 DEF Frame, Option
<1> HIDE DEF f
<1>6. /\ \A u \in Threads : pc'[u] = IF u = t THEN "dd_next" ELSE pc[u]
      /\ \A u \in Threads : frame'[u] = IF u = t THEN f ELSE frame[u]
      /\ \A w \in Devices : devMap'[w] = IF w = v THEN None ELSE devMap[w]
  BY <1>4 DEF IInv, TypeOK
<1>t. TypeOK'
  BY <1>1, <1>4, <1>5 DEF IInv, TypeOK, Option, Labels, DropRefMut, Mutexes
<1>n. NoPanic'
  BY <1>4 DEF NoPanic
<1>k. KeysDistinct'
  BY <1>4 DEF IInv, KeysDistinct
<1>i. InstancesRegistered'
  BY <1>1, <1>4, <1>6 DEF IInv, InstancesRegistered
<1>p. PhysicalDevicesRegistered'
  BY <1>1, <1>4, <1>6 DEF IInv, PhysicalDevicesRegistered
<1>d. DevicesRegistered'
  <2>1. ASSUME NEW w \in Devices, devMap'[w] # None
        PROVE  /\ devPd[w] # None /\ devMap'[w] = devCustom[w]
               /\ \/ w \in appDev
                  \/ \E u \in Threads : pc'[u] = "dd_remove" /\ frame'[u].dev = w
    BY <2>1, <1>1, <1>6 DEF IInv, DevicesRegistered
  <2>2. ASSUME NEW w \in appDev
        PROVE  devPd[w] # None /\ devMap'[w] = devCustom[w]
    BY <1>1, <1>6 DEF IInv, TypeOK, DevicesRegistered
  <2>3. QED
    BY <2>1, <2>2, <1>4 DEF IInv, DevicesRegistered
<1>f. FramesOK'
  <2>1. FrameOK(t)'
    BY <1>1, <1>2, <1>4, <1>5, <1>6 DEF FrameOK, Owning, CreatingInstance,
       DestroyingInstance, CreatingDevice, DestroyingDevice, OfInstance, OfPhysDev,
       Enumerating
  <2>2. ASSUME NEW u \in Threads, u # t
        PROVE  FrameOK(u)'
    <3>1. FrameOK(u) /\ frame[u].dev # v
      BY <2>2, <1>3 DEF IInv, FramesOK
    <3>2. pc[u] = "dd_remove" => frame[u].dev \in Devices
      BY <3>1, FieldTypes DEF FrameOK, DestroyingDevice, IInv
    <3>3. QED
      BY <3>1, <3>2, <2>2, <1>4, <1>6 DEF FrameOK
  <2>3. QED
    BY <2>1, <2>2 DEF FramesOK
<1>e. Exclusive'
  <2>1. \A u \in Threads, j \in Instances : UsesInstance(u, j)' => UsesInstance(u, j)
    BY <1>4, <1>5, <1>6 DEF UsesInstance
  <2>2. QED
    BY <2>1, <1>1, <1>5, <1>6, ExclusiveKept DEF CreatingInstance,
       DestroyingInstance, CreatingDevice, DestroyingDevice
<1>l. LocksHeld'
  BY <1>1, <1>4, <1>6 DEF IInv, LocksHeld
<1>a. AllocatedWhenUsed'
  <2>1. DOMAIN devMap' = Devices
    BY <1>4 DEF IInv, TypeOK
  <2>2. QED
    BY <2>1, <1>4 DEF IInv, AllocatedWhenUsed, Free, DropRefMut
<1>o. NothingLost'
  BY <1>1, <1>4, <1>5, <1>6 DEF IInv, NothingLost
<1> QED
  BY <1>t, <1>n, <1>k, <1>i, <1>p, <1>d, <1>f, <1>e, <1>l, <1>a, <1>o DEF IInv

\* No entry and no call refers to the device when the next layer frees it.
LEMMA NextDestroyDevicePreserves ==
  ASSUME IInv, NEW t \in Threads, NextDestroyDevice(t)
  PROVE  IInv'
<1> DEFINE v == frame[t].dev
<1>1. /\ FrameOK(t) /\ pc[t] = "dd_next" /\ v \in Devices /\ v \notin appDev
      /\ frame[t].inst = None
  <2>1. FrameOK(t) /\ pc[t] = "dd_next"
    BY DEF NextDestroyDevice, IInv, FramesOK
  <2>2. QED
    BY <2>1, FieldTypes DEF IInv, FrameOK, DestroyingDevice
<1>2. ASSUME NEW u \in Threads, u # t
      PROVE  frame[u].dev # v
  BY <1>2, <1>1 DEF IInv, Exclusive, DestroyingDevice
<1>3. /\ devPd' = [devPd EXCEPT ![v] = None]
      /\ devCustom' = [devCustom EXCEPT ![v] = None]
      /\ pc' = [pc EXCEPT ![t] = "idle"]
      /\ frame' = [frame EXCEPT ![t] = NoFrame]
      /\ UNCHANGED <<instMap, pdMap, devMap, alloc, lock, health, instKey, pdOwner,
                     instCustom, appInst, appPd, appDev>>
  BY DEF NextDestroyDevice, Return, maps, appVars
<1>4. /\ \A u \in Threads : pc'[u] = IF u = t THEN "idle" ELSE pc[u]
      /\ \A u \in Threads : frame'[u] = IF u = t THEN NoFrame ELSE frame[u]
      /\ \A w \in Devices : w # v => devPd'[w] = devPd[w] /\ devCustom'[w] = devCustom[w]
      /\ devPd'[v] = None
      /\ NoFrame.inst = None /\ NoFrame.pd = None /\ NoFrame.dev = None
  BY <1>1, <1>3 DEF IInv, TypeOK, NoFrame
<1>5. devMap[v] = None
  <2>1. SUFFICES ASSUME devMap[v] # None PROVE FALSE
    OBVIOUS
  <2>2. PICK u \in Threads : pc[u] = "dd_remove" /\ frame[u].dev = v
    BY <2>1, <1>1 DEF IInv, DevicesRegistered
  <2>3. QED
    BY <2>2, <1>1, <1>2
<1>t. TypeOK'
  BY <1>3, NoFrameType DEF IInv, TypeOK, Option, Labels
<1>n. NoPanic'
  BY <1>3 DEF IInv, NoPanic
<1>k. KeysDistinct'
  BY <1>3 DEF IInv, KeysDistinct
<1>i. InstancesRegistered'
  BY <1>1, <1>3, <1>4 DEF IInv, InstancesRegistered
<1>p. PhysicalDevicesRegistered'
  BY <1>1, <1>3, <1>4 DEF IInv, PhysicalDevicesRegistered
<1>d. DevicesRegistered'
  <2>1. ASSUME NEW w \in Devices, devPd'[w] # None
        PROVE  devPd'[w] \in appPd /\ devCustom'[w] # None
    BY <2>1, <1>4 DEF IInv, DevicesRegistered
  <2>2. ASSUME NEW w \in Devices, devMap[w] # None
        PROVE  /\ devPd'[w] # None /\ devMap[w] = devCustom'[w]
               /\ \/ w \in appDev
                  \/ \E u \in Threads : pc'[u] = "dd_remove" /\ frame'[u].dev = w
    BY <2>2, <1>1, <1>4, <1>5 DEF IInv, DevicesRegistered
  <2>3. ASSUME NEW w \in appDev
        PROVE  devPd'[w] # None /\ devMap[w] = devCustom'[w]
    BY <1>1, <1>4 DEF IInv, TypeOK, DevicesRegistered
  <2>4. QED
    BY <2>1, <2>2, <2>3, <1>3 DEF DevicesRegistered
<1>f. FramesOK'
  <2>1. FrameOK(t)'
    <3>1. pc'[t] = "idle" /\ frame'[t] = NoFrame
      BY <1>4
    <3>2. QED
      BY <3>1, IdleFrameOK
  <2>2. ASSUME NEW u \in Threads, u # t
        PROVE  FrameOK(u)'
    <3>1. FrameOK(u) /\ frame[u].dev # v
      BY <2>2, <1>2 DEF IInv, FramesOK
    <3>2. frame[u].dev # None => frame[u].dev \in Devices
      BY FieldTypes DEF IInv
    <3>3. QED
      BY <3>1, <3>2, <2>2, <1>3, <1>4 DEF FrameOK
  <2>3. QED
    BY <2>1, <2>2 DEF FramesOK
<1>e. Exclusive'
  <2>1. \A u \in Threads, j \in Instances : UsesInstance(u, j)' => UsesInstance(u, j)
    BY <1>3, <1>4, NoneIsNothing DEF UsesInstance
  <2>2. QED
    BY <2>1, <1>4, ExclusiveKept, NoneIsNothing DEF CreatingInstance,
       DestroyingInstance, CreatingDevice, DestroyingDevice
<1>l. LocksHeld'
  BY <1>1, <1>3, <1>4 DEF IInv, LocksHeld
<1>a. AllocatedWhenUsed'
  BY <1>3 DEF IInv, AllocatedWhenUsed, Free
<1>o. NothingLost'
  <2>1. ASSUME NEW w \in Devices, devPd'[w] # None
        PROVE  w \in appDev \/ \E u \in Threads : frame'[u].dev = w
    BY <2>1, <1>4 DEF IInv, NothingLost
  <2>2. QED
    BY <2>1, <1>1, <1>3, <1>4, NoneIsNothing DEF IInv, NothingLost
<1> QED
  BY <1>t, <1>n, <1>k, <1>i, <1>p, <1>d, <1>f, <1>e, <1>l, <1>a, <1>o DEF IInv

-----------------------------------------------------------------------------
(* The invariant, and what follows from it.                                *)

\* The invariant holds in the initial state.
LEMMA InitInv == Init => IInv
<1> SUFFICES ASSUME Init PROVE IInv
  OBVIOUS
<1>1. TypeOK
  BY NoFrameType DEF Init, TypeOK, Option, Labels
<1>2. NoPanic /\ KeysDistinct /\ InstancesRegistered /\ PhysicalDevicesRegistered
      /\ DevicesRegistered
  BY DEF Init, NoPanic, KeysDistinct, InstancesRegistered, PhysicalDevicesRegistered,
     DevicesRegistered
<1>3. FramesOK
  <2>1. SUFFICES ASSUME NEW t \in Threads PROVE FrameOK(t)
    BY DEF FramesOK
  <2>2. pc[t] = "idle" /\ frame[t] = NoFrame
    BY DEF Init
  <2>3. QED
    BY <2>2, NoneIsNothing DEF FrameOK, NoFrame, Owning, Option, CreatingInstance,
       DestroyingInstance, CreatingDevice, DestroyingDevice, OfInstance, OfPhysDev,
       Enumerating
<1>4. Exclusive
  BY DEF Init, Exclusive, CreatingInstance, DestroyingInstance, CreatingDevice,
     DestroyingDevice
<1>5. LocksHeld
  BY NoneIsNothing DEF Init, LocksHeld, Mutexes
<1>6. AllocatedWhenUsed
  BY DEF Init, AllocatedWhenUsed, Free, Mutexes
<1>7. NothingLost
  BY DEF Init, NothingLost
<1>8. QED
  BY <1>1, <1>2, <1>3, <1>4, <1>5, <1>6, <1>7 DEF IInv

\* The invariant is kept by a step that changes nothing.
LEMMA StutterInv == IInv /\ UNCHANGED vars => IInv'
<1> SUFFICES ASSUME IInv, UNCHANGED vars PROVE IInv'
  OBVIOUS
<1>1. UNCHANGED <<instMap, pdMap, devMap, alloc, lock, pc, frame, health, instKey,
                  pdOwner, devPd, instCustom, devCustom, appInst, appPd, appDev>>
  BY DEF vars, maps, nextVars, appVars
<1>2. TypeOK' /\ NoPanic' /\ KeysDistinct' /\ InstancesRegistered'
      /\ PhysicalDevicesRegistered' /\ DevicesRegistered' /\ NothingLost'
  BY <1>1 DEF IInv, TypeOK, NoPanic, KeysDistinct, InstancesRegistered,
     PhysicalDevicesRegistered, DevicesRegistered, NothingLost
<1>3. FramesOK'
  BY <1>1 DEF IInv, FramesOK, FrameOK
<1>4. Exclusive' /\ LocksHeld' /\ AllocatedWhenUsed'
  BY <1>1 DEF IInv, Exclusive, UsesInstance, LocksHeld, AllocatedWhenUsed, Free
<1>5. QED
  BY <1>2, <1>3, <1>4 DEF IInv

\* The invariant is kept when the application starts a call.
LEMMA BeginInv ==
  ASSUME IInv, NEW t \in Threads, Begin(t)
  PROVE  IInv'
<1>1. CASE CreateInstance(t)
  BY <1>1, CreateInstancePreserves
<1>2. ASSUME NEW i \in Instances, DestroyInstance(t, i)
      PROVE  IInv'
  BY <1>2, DestroyInstancePreserves
<1>3. ASSUME NEW i \in Instances, EnumeratePhysicalDevices(t, i) \/ InstanceCommand(t, i)
      PROVE  IInv'
  BY <1>3, InstanceCallPreserves
<1>4. ASSUME NEW p \in PhysDevs, CreateDevice(t, p) \/ EnumerateDeviceExtensions(t, p)
      PROVE  IInv'
  BY <1>4, PhysicalDeviceCallPreserves
<1>5. ASSUME NEW p \in PhysDevs, PhysicalDeviceCommand(t, p)
      PROVE  IInv'
  BY <1>5, PhysicalDeviceCommandPreserves
<1>6. ASSUME NEW v \in Devices, DestroyDevice(t, v)
      PROVE  IInv'
  BY <1>6, DestroyDevicePreserves
<1>7. ASSUME NEW v \in Devices, DeviceCommand(t, v)
      PROVE  IInv'
  BY <1>7, DeviceCommandPreserves
<1>8. QED
  BY <1>1, <1>2, <1>3, <1>4, <1>5, <1>6, <1>7 DEF Begin

\* The invariant is kept by every step of a handler.
LEMMA StepInv ==
  ASSUME IInv, NEW t \in Threads, Step(t)
  PROVE  IInv'
<1>1. CASE RefuseInstance(t) \/ EnumerateNothing(t) \/ RefuseDevice(t)
             \/ CommandReturn(t)
  BY <1>1, RefusePreserves
<1>2. CASE NextCreateInstance(t)
  BY <1>2, NextCreateInstancePreserves
<1>3. CASE LockInstanceMap(t)
  BY <1>3, LockInstanceMapPreserves
<1>4. CASE RegisterInstance(t)
  BY <1>4, RegisterInstancePreserves
<1>5. CASE RemoveInstance(t)
  BY <1>5, RemoveInstancePreserves
<1>6. CASE PurgePhysicalDevices(t)
  BY <1>6, PurgePhysicalDevicesPreserves
<1>7. CASE NextDestroyInstance(t)
  BY <1>7, NextDestroyInstancePreserves
<1>8. CASE \/ LookupInstance(t, "ep_get", "ep_next")
           \/ LookupInstance(t, "cd_inst", "cd_next")
           \/ LookupInstance(t, "xp_inst", "xp_next")
           \/ LookupInstance(t, "ic_get", "ic_next")
  BY <1>8, LookupInstancePreserves
<1>9. CASE NextEnumerate(t)
  BY <1>9, NextEnumeratePreserves
<1>10. CASE CheckPhysicalDevice(t)
  BY <1>10, CheckPhysicalDevicePreserves
<1>11. CASE RegisterPhysicalDevice(t)
  BY <1>11, RegisterPhysicalDevicePreserves
<1>12. CASE EnumerateReturn(t)
  BY <1>12, EnumerateReturnPreserves
<1>13. CASE \/ LookupPhysicalDevice(t, "cd_pd", "cd_inst")
            \/ LookupPhysicalDevice(t, "xp_pd", "xp_inst")
  BY <1>13, LookupPhysicalDevicePreserves
<1>14. CASE NextCreateDevice(t)
  BY <1>14, NextCreateDevicePreserves
<1>15. CASE LockDeviceMap(t)
  BY <1>15, LockDeviceMapPreserves
<1>16. CASE RegisterDevice(t)
  BY <1>16, RegisterDevicePreserves
<1>17. CASE RemoveDevice(t)
  BY <1>17, RemoveDevicePreserves
<1>18. CASE NextDestroyDevice(t)
  BY <1>18, NextDestroyDevicePreserves
<1>19. CASE LookupDevice(t)
  BY <1>19, LookupDevicePreserves
<1>20. QED
  BY <1>1, <1>2, <1>3, <1>4, <1>5, <1>6, <1>7, <1>8, <1>9, <1>10, <1>11, <1>12,
     <1>13, <1>14, <1>15, <1>16, <1>17, <1>18, <1>19 DEF Step

\* The inductive invariant holds in every reachable state, whatever the number
\* of threads, instances, keys, physical devices and devices.
THEOREM Inductive == Spec => []IInv
<1>1. IInv /\ [Next]_vars => IInv'
  BY StutterInv, BeginInv, StepInv DEF Next
<1>2. QED
  BY InitInv, <1>1, PTL DEF Spec

\* The maps, the locks and the locals keep their types: in particular each map
\* only ever holds the infos, owners and handles it is meant for.
THEOREM TypeCorrect == Spec => []TypeOK
<1>1. IInv => TypeOK
  BY DEF IInv
<1>2. QED
  BY <1>1, Inductive, PTL

\* No unwrap, expect, assert or Arc::try_unwrap of the handlers ever fails,
\* however the calls of a valid application interleave and handles are reused.
THEOREM NeverPanics == Spec => []NoPanic
<1>1. IInv => NoPanic
  BY DEF IInv
<1>2. QED
  BY <1>1, Inductive, PTL

\* Every handle the application holds is found in the maps, with its own info.
THEOREM HandlesAlwaysResolve == Spec => []HandlesResolve
<1>1. ASSUME IInv PROVE HandlesResolve
  <2>1. \A i \in appInst : i \in Instances
    BY <1>1 DEF IInv, TypeOK
  <2>2. \A i \in appInst : GetInstanceInfo(i) = [inst |-> i, custom |-> instCustom[i]]
    BY <1>1, <2>1 DEF IInv, InstancesRegistered, GetInstanceInfo
  <2>3. \A v \in appDev : v \in Devices
    BY <1>1 DEF IInv, TypeOK
  <2>4. QED
    BY <1>1, <2>2, <2>3 DEF IInv, PhysicalDevicesRegistered, DevicesRegistered,
       HandlesResolve
<1>2. QED
  BY <1>1, Inductive, PTL

\* No entry outlives its object: a handle or key handed out again meets none.
THEOREM NeverStale == Spec => []NoStaleEntry
<1>1. IInv => NoStaleEntry
  BY DEF IInv, InstancesRegistered, PhysicalDevicesRegistered, DevicesRegistered,
     NoStaleEntry
<1>2. QED
  BY <1>1, Inductive, PTL

\* No error path of a handler forgets an instance or a device of the next layer.
THEOREM NeverLost == Spec => []NothingLost
<1>1. IInv => NothingLost
  BY DEF IInv
<1>2. QED
  BY <1>1, Inductive, PTL

\* A handler holds the info of the object it was called with.
THEOREM InfoAlwaysOwn == Spec => []InfoIsOwn
<1>1. IInv => InfoIsOwn
  BY DEF IInv, FramesOK, FrameOK, InfoIsOwn
<1>2. QED
  BY <1>1, Inductive, PTL

\* With nothing alive and no call in flight no collection is allocated.
THEOREM DropIsTrivial == Spec => []TriviallyDestructible
<1>1. ASSUME IInv PROVE TriviallyDestructible
  <2>1. SUFFICES ASSUME appInst = {}, \A t \in Threads : pc[t] = "idle"
                 PROVE  alloc = {}
    BY DEF TriviallyDestructible
  <2>2. \A m \in Mutexes : Free(m)
    <3>1. \A m \in Mutexes : lock[m] \in Threads \cup {None}
      BY <1>1 DEF IInv, TypeOK, Option
    <3>2. QED
      BY <3>1, <2>1, <1>1 DEF IInv, LocksHeld, Free, Mutexes
  <2>3. \A k \in Keys : instMap[k] = None
    BY <2>1, <1>1 DEF IInv, InstancesRegistered
  <2>4. \A p \in PhysDevs : pdMap[p] = None
    BY <2>1, <1>1 DEF IInv, PhysicalDevicesRegistered
  <2>5. \A v \in Devices : devMap[v] = None
    BY <2>1, <1>1 DEF IInv, TypeOK, PhysicalDevicesRegistered, DevicesRegistered
  <2>6. alloc \subseteq Mutexes
    BY <1>1 DEF IInv, TypeOK
  <2>7. QED
    BY <2>2, <2>3, <2>4, <2>5, <2>6, <1>1 DEF IInv, AllocatedWhenUsed, Mutexes
<1>2. QED
  BY <1>1, Inductive, PTL

\* A mutex is held in the middle of a creation or of a registration, and of these
\* only the registration of a physical device wants another one, which is held
\* only by a creation.
THEOREM NeverWaitsInCycle == Spec => []NoWaitCycle
<1>1. ASSUME IInv PROVE NoWaitCycle
  <2> SUFFICES ASSUME NEW t \in Threads, Waits(t),
                      Waits(lock[Wants(t)]), Waits(lock[Wants(lock[Wants(t)])])
               PROVE  FALSE
    BY DEF NoWaitCycle
  <2>1. ASSUME NEW u \in Threads, Waits(u)
        PROVE  /\ lock[Wants(u)] \in Threads
               /\ pc[lock[Wants(u)]] =
                    CASE Wants(u) = "inst" -> "ci_insert"
                      [] Wants(u) = "pd" -> "ep_insert"
                      [] Wants(u) = "dev" -> "cd_insert"
               /\ Wants(u) \in {"inst", "pd", "dev"}
    <3>1. Wants(u) \in {"inst", "pd", "dev"}
      BY <2>1 DEF Waits, Wants
    <3>2. lock[Wants(u)] \in Threads
      BY <1>1, <2>1, <3>1 DEF Waits, Free, IInv, TypeOK, Mutexes, Option
    <3> QED
      BY <1>1, <3>1, <3>2 DEF IInv, LocksHeld
  <2>2. ASSUME NEW u \in Threads, Waits(u), pc[u] \in {"ci_insert", "ep_insert", "cd_insert"}
        PROVE  pc[u] = "ep_insert" /\ Wants(u) = "inst"
    BY <2>2 DEF Waits, Wants
  <2>3. PICK u \in Threads : u = lock[Wants(t)]
    BY <2>1
  <2>4. Waits(u) /\ pc[u] \in {"ci_insert", "ep_insert", "cd_insert"}
    BY <2>1, <2>3
  <2>5. Wants(u) = "inst"
    BY <2>2, <2>4
  <2>6. PICK w \in Threads : w = lock[Wants(u)]
    BY <2>1, <2>4
  <2>7. Waits(w) /\ pc[w] = "ci_insert"
    BY <2>1, <2>3, <2>4, <2>5, <2>6
  <2> QED
    BY <2>2, <2>7
<1>2. QED
  BY <1>1, Inductive, PTL
=============================================================================
