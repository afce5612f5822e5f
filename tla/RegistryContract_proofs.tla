----------------------- MODULE RegistryContract_proofs -----------------------
(* Registry implements LayerContract: what the handles of the application  *)
(* resolve to through the maps, and the infos that serve its calls, go     *)
(* from one state of the contract to the next or stay.                     *)
(*                                                                         *)
(* Seen says what IInv makes of the mapping: an object the application     *)
(* holds is seen with its own info. A step of a handler is then a step of  *)
(* the contract where a handle is given out, given up or looked up, and    *)
(* where a call that was served returns; elsewhere nothing is seen.        *)
EXTENDS Registry_proofs

-----------------------------------------------------------------------------
(* A served call holds its info.                                           *)

\* From the look-up on a call has the info it found, and a device that is being
\* created is one of the physical device it was asked for.
HoldsInfo(t) ==
  /\ pc[t] \in OnInstance => frame[t].info # None
  /\ pc[t] = "dc_next" => frame[t].custom # None
  /\ pc[t] \in CreatingDevice => devPd[frame[t].dev] = frame[t].pd

Held == \A t \in Threads : HoldsInfo(t)

LEMMA InitHeld == Init => Held
  BY DEF Init, Held, HoldsInfo, OnInstance, CreatingDevice

\* A thread that does not move keeps what it holds, unless its device goes.
LEMMA OthersHold ==
  ASSUME IInv, Held, NEW u \in Threads, pc'[u] = pc[u], frame'[u] = frame[u],
         pc[u] \in CreatingDevice => devPd'[frame[u].dev] = devPd[frame[u].dev]
  PROVE  HoldsInfo(u)'
  BY DEF Held, HoldsInfo

\* A call that begins holds nothing.
LEMMA BeginHeld ==
  ASSUME IInv, Held, NEW t \in Threads, Begin(t)
  PROVE  Held'
<1>0. PICK l \in {"ci_next", "di_remove", "ep_get", "ic_get", "cd_pd", "xp_pd",
                  "dd_remove", "dc_get"} :
        \E f : Call(t, l, f)
  BY DEF Begin, CreateInstance, DestroyInstance, EnumeratePhysicalDevices,
     InstanceCommand, CreateDevice, PhysicalDeviceCommand, EnumerateDeviceExtensions,
     DestroyDevice, DeviceCommand
<1>1. PICK f : Call(t, l, f)
  BY <1>0
<1>2. pc' = [pc EXCEPT ![t] = l] /\ frame' = [frame EXCEPT ![t] = f]
  BY <1>1 DEF Call
<1>3. devPd' = devPd
  BY DEF Begin, CreateInstance, DestroyInstance, EnumeratePhysicalDevices,
     InstanceCommand, CreateDevice, PhysicalDeviceCommand, EnumerateDeviceExtensions,
     DestroyDevice, DeviceCommand, nextVars
<1>4. HoldsInfo(t)'
  BY <1>2 DEF IInv, TypeOK, HoldsInfo, OnInstance, CreatingDevice
<1>5. ASSUME NEW u \in Threads, u # t PROVE HoldsInfo(u)'
  BY <1>2, <1>3, <1>5, OthersHold
<1> QED
  BY <1>4, <1>5 DEF Held

\* A step of a handler moves one thread and leaves the devices of the others.
LEMMA StepMoves ==
  ASSUME IInv, NEW t \in Threads, Step(t)
  PROVE  \A u \in Threads : u # t =>
           /\ pc'[u] = pc[u] /\ frame'[u] = frame[u]
           /\ pc[u] \in CreatingDevice => devPd'[frame[u].dev] = devPd[frame[u].dev]
<1>1. pc \in [Threads -> Labels] /\ frame \in [Threads -> Frame]
      /\ devPd \in [Devices -> Option(PhysDevs)]
  BY DEF IInv, TypeOK
<1>2. CASE NextCreateDevice(t)
  <2>1. PICK v \in Devices, c \in Customs :
          /\ devPd[v] = None
          /\ devPd' = [devPd EXCEPT ![v] = frame[t].pd]
          /\ frame' = [frame EXCEPT ![t].dev = v, ![t].custom = c]
    BY <1>2 DEF NextCreateDevice
  <2>2. \A u \in Threads : pc[u] \in CreatingDevice => frame[u].dev # v
    <3> SUFFICES ASSUME NEW u \in Threads, pc[u] \in CreatingDevice
                 PROVE  frame[u].dev # v
      OBVIOUS
    <3>1. FrameOK(u)
      BY DEF IInv, FramesOK
    <3> QED
      BY <3>1, <2>1 DEF FrameOK
  <2> QED
    BY <1>1, <1>2, <2>1, <2>2 DEF NextCreateDevice, Goto
<1>3. CASE NextDestroyDevice(t)
  <2>1. \A u \in Threads : u # t => frame[u].dev # frame[t].dev
    BY <1>3 DEF IInv, Exclusive, NextDestroyDevice, DestroyingDevice
  <2> QED
    BY <1>1, <1>3, <2>1 DEF NextDestroyDevice, Return
<1>4. ASSUME ~ NextCreateDevice(t), ~ NextDestroyDevice(t)
      PROVE  devPd' = devPd
  BY <1>4 DEF Step, RefuseInstance, NextCreateInstance, LockInstanceMap,
     RegisterInstance, RemoveInstance, PurgePhysicalDevices, NextDestroyInstance,
     LookupInstance, EnumerateNothing, NextEnumerate, CheckPhysicalDevice,
     RegisterPhysicalDevice, EnumerateReturn, LookupPhysicalDevice, RefuseDevice,
     LockDeviceMap, RegisterDevice, RemoveDevice, LookupDevice, CommandReturn, nextVars
<1>5. ASSUME ~ NextCreateDevice(t), ~ NextDestroyDevice(t), NEW u \in Threads, u # t
      PROVE  pc'[u] = pc[u] /\ frame'[u] = frame[u]
  BY <1>1, <1>5 DEF Step, RefuseInstance, NextCreateInstance, LockInstanceMap,
     RegisterInstance, RemoveInstance, PurgePhysicalDevices, NextDestroyInstance,
     LookupInstance, EnumerateNothing, NextEnumerate, CheckPhysicalDevice,
     RegisterPhysicalDevice, EnumerateReturn, LookupPhysicalDevice, RefuseDevice,
     LockDeviceMap, RegisterDevice, RemoveDevice, LookupDevice, CommandReturn,
     Return, Goto
<1> QED
  BY <1>2, <1>3, <1>4, <1>5

\* A step of a handler keeps what the call holds.
LEMMA StepHeld ==
  ASSUME IInv, Held, IInv', NEW t \in Threads, Step(t)
  PROVE  Held'
<1>0. HoldsInfo(t)
  BY DEF Held
<1>1. pc \in [Threads -> Labels] /\ frame \in [Threads -> Frame]
  BY DEF IInv, TypeOK
<1> SUFFICES HoldsInfo(t)'
  <2>1. ASSUME NEW u \in Threads, u # t PROVE HoldsInfo(u)'
    BY <2>1, StepMoves, OthersHold
  <2> QED
    BY <2>1 DEF Held
<1>2. health' = "running"
  BY DEF IInv, NoPanic
<1>4. CASE \/ RefuseInstance(t) \/ NextCreateInstance(t) \/ LockInstanceMap(t)
           \/ RegisterInstance(t) \/ RemoveInstance(t) \/ PurgePhysicalDevices(t)
           \/ NextDestroyInstance(t)
  <2>1. pc'[t] \in {"idle", "ci_lock", "ci_insert", "di_purge", "di_next"}
    BY <1>1, <1>4 DEF RefuseInstance, NextCreateInstance, LockInstanceMap,
       RegisterInstance, RemoveInstance, PurgePhysicalDevices, NextDestroyInstance,
       Goto, Return
  <2> QED
    BY <2>1 DEF HoldsInfo, OnInstance, CreatingDevice
<1>5. CASE \/ EnumerateNothing(t) \/ EnumerateReturn(t) \/ RefuseDevice(t)
           \/ RegisterDevice(t) \/ RemoveDevice(t) \/ NextDestroyDevice(t)
           \/ CommandReturn(t)
           \/ LookupPhysicalDevice(t, "cd_pd", "cd_inst")
           \/ LookupPhysicalDevice(t, "xp_pd", "xp_inst")
  <2>1. pc'[t] \in {"idle", "dd_next", "cd_inst", "xp_inst"}
    BY <1>1, <1>5 DEF EnumerateNothing, EnumerateReturn, RefuseDevice,
       RegisterDevice, RemoveDevice, NextDestroyDevice, CommandReturn,
       LookupPhysicalDevice, Goto, Return
  <2> QED
    BY <2>1 DEF HoldsInfo, OnInstance, CreatingDevice
<1>6. CASE \/ LookupInstance(t, "ep_get", "ep_next")
           \/ LookupInstance(t, "cd_inst", "cd_next")
           \/ LookupInstance(t, "xp_inst", "xp_next")
           \/ LookupInstance(t, "ic_get", "ic_next")
  <2>1. PICK info : /\ frame' = [frame EXCEPT ![t].info = info] /\ Require(info # None)
                    /\ pc'[t] \in {"ep_next", "cd_next", "xp_next", "ic_next"}
    BY <1>1, <1>6 DEF LookupInstance, Goto
  <2>2. info # None
    BY <1>2, <2>1 DEF Require
  <2>3. frame'[t].info = info
    BY <1>1, <2>1 DEF Frame
  <2> QED
    BY <2>1, <2>2, <2>3 DEF HoldsInfo, CreatingDevice
<1>7. CASE LookupDevice(t)
  <2>1. devMap[frame[t].dev] # None
    BY <1>2, <1>7 DEF LookupDevice, Require
  <2>2. frame'[t].custom = devMap[frame[t].dev] /\ pc'[t] = "dc_next"
    BY <1>1, <1>7 DEF LookupDevice, Goto, Frame
  <2> QED
    BY <2>1, <2>2 DEF HoldsInfo, OnInstance, CreatingDevice
<1>8. CASE NextEnumerate(t) \/ CheckPhysicalDevice(t) \/ RegisterPhysicalDevice(t)
  <2>1. pc[t] \in OnInstance
    BY <1>8 DEF NextEnumerate, CheckPhysicalDevice, RegisterPhysicalDevice, OnInstance
  <2>2. frame'[t].info = frame[t].info
    <3>1. frame[t] \in Frame
      BY <1>1
    <3>2. CASE NextEnumerate(t)
      <4>1. PICK P : frame' = [frame EXCEPT ![t].todo = P, ![t].got = P]
        BY <3>2 DEF NextEnumerate
      <4> QED
        BY <1>1, <3>1, <4>1 DEF Frame
    <3>3. CASE CheckPhysicalDevice(t)
      <4>1. PICK p : \/ frame' = [frame EXCEPT ![t].todo = @ \ {p}]
                     \/ frame' = [frame EXCEPT ![t].pd = p]
        BY <3>3 DEF CheckPhysicalDevice
      <4> QED
        BY <1>1, <3>1, <4>1 DEF Frame
    <3>4. CASE RegisterPhysicalDevice(t)
      <4>1. frame' = [frame EXCEPT ![t].todo = @ \ {frame[t].pd}, ![t].pd = None]
        BY <3>4 DEF RegisterPhysicalDevice
      <4> QED
        BY <1>1, <3>1, <4>1 DEF Frame
    <3> QED
      BY <1>8, <3>2, <3>3, <3>4
  <2>3. pc'[t] \in {"ep_each", "ep_insert"}
    BY <1>1, <1>8 DEF NextEnumerate, CheckPhysicalDevice, RegisterPhysicalDevice, Goto
  <2> QED
    BY <1>0, <2>1, <2>2, <2>3 DEF HoldsInfo, CreatingDevice
<1>9. CASE NextCreateDevice(t)
  <2>1. PICK v \in Devices, c \in Customs :
          /\ devPd' = [devPd EXCEPT ![v] = frame[t].pd]
          /\ frame' = [frame EXCEPT ![t].dev = v, ![t].custom = c]
    BY <1>9 DEF NextCreateDevice
  <2>2. pc[t] = "cd_next" /\ pc'[t] = "cd_lock"
    BY <1>1, <1>9 DEF NextCreateDevice, Goto
  <2>3. /\ frame'[t].info = frame[t].info /\ frame'[t].dev = v
        /\ frame'[t].pd = frame[t].pd
    BY <1>1, <2>1 DEF Frame
  <2>4. devPd'[v] = frame[t].pd
    BY <2>1 DEF IInv, TypeOK
  <2> QED
    BY <1>0, <2>2, <2>3, <2>4 DEF HoldsInfo, OnInstance
<1>10. CASE LockDeviceMap(t)
  <2>1. /\ pc[t] = "cd_lock" /\ pc'[t] = "cd_insert"
        /\ UNCHANGED <<frame, devPd>>
    BY <1>1, <1>10 DEF LockDeviceMap, Goto, nextVars
  <2> QED
    BY <1>0, <2>1 DEF HoldsInfo, OnInstance, CreatingDevice
<1> QED
  BY <1>4, <1>5, <1>6, <1>7, <1>8, <1>9, <1>10 DEF Step

\* In every reachable state a served call holds its info.
THEOREM AlwaysHeld == Spec => [](IInv /\ Held)
<1>1. IInv /\ Held /\ IInv' /\ [Next]_vars => Held'
  <2>1. ASSUME Held, UNCHANGED vars PROVE Held'
    BY <2>1 DEF Held, HoldsInfo, vars, nextVars
  <2> QED
    BY <2>1, BeginHeld, StepHeld DEF Next
<1> QED
  BY Inductive, InitHeld, <1>1, PTL DEF Spec

-----------------------------------------------------------------------------
(* What is seen through the mapping.                                       *)

\* An object the application holds is seen with its own info, others are not.
SeenOwn ==
  /\ Insts = [i \in Instances |-> IF i \in appInst THEN instCustom[i] ELSE None]
  /\ Pds = [p \in PhysDevs |-> IF p \in appPd THEN pdOwner[p] ELSE None]
  /\ Devs = [v \in Devices |-> IF v \in appDev
                THEN [pd |-> devPd[v], custom |-> devCustom[v]] ELSE None]

LEMMA Seen == IInv => SeenOwn
<1> SUFFICES ASSUME IInv
             PROVE  /\ \A i \in Instances : SeenInstance(i) =
                         IF i \in appInst THEN instCustom[i] ELSE None
                    /\ \A p \in PhysDevs : SeenPhysicalDevice(p) =
                         IF p \in appPd THEN pdOwner[p] ELSE None
                    /\ \A v \in Devices : SeenDevice(v) =
                         IF v \in appDev THEN [pd |-> devPd[v], custom |-> devCustom[v]]
                         ELSE None
  BY DEF SeenOwn, Insts, Pds, Devs
<1>1. ASSUME NEW i \in appInst PROVE SeenInstance(i) = instCustom[i]
  <2>1. /\ i \in Instances /\ instKey[i] # None
        /\ instMap[instKey[i]] = [inst |-> i, custom |-> instCustom[i]]
    BY DEF IInv, TypeOK, InstancesRegistered
  <2>2. instKey[i] \in Keys /\ instCustom[i] \in Customs
    BY <2>1 DEF IInv, TypeOK, KeysDistinct, Option
  <2>3. [inst |-> i, custom |-> instCustom[i]] # None
    BY <2>1, <2>2, NoneIsNothing DEF InstInfo
  <2> QED
    BY <2>1, <2>3 DEF SeenInstance, GetInstanceInfo
<1>2. \A i \in Instances : i \notin appInst => SeenInstance(i) = None
  BY DEF SeenInstance
<1>3. \A p \in PhysDevs : p \in appPd => pdMap[p] = pdOwner[p]
  BY DEF IInv, PhysicalDevicesRegistered
<1>4. \A v \in Devices : v \in appDev => devMap[v] = devCustom[v] /\ devMap[v] # None
  BY DEF IInv, DevicesRegistered
<1> QED
  BY <1>1, <1>2, <1>3, <1>4 DEF SeenPhysicalDevice, SeenDevice

LEMMA SeenNext == IInv' => SeenOwn'
  BY Seen, PTL

\* A step that leaves what the application holds, and its owners and infos,
\* as they are is not seen.
LEMMA NothingSeen ==
  ASSUME IInv, IInv', UNCHANGED appVars,
         \A i \in appInst : instCustom'[i] = instCustom[i],
         \A p \in appPd : pdOwner'[p] = pdOwner[p],
         \A v \in appDev : devPd'[v] = devPd[v] /\ devCustom'[v] = devCustom[v]
  PROVE  UNCHANGED <<Insts, Pds, Devs>>
  BY Seen, SeenNext DEF SeenOwn, appVars

\* A call for an instance that is at work is served by the instance's info.
LEMMA ServedOnInstance ==
  ASSUME IInv, Held, NEW t \in Threads, pc[t] \in OnInstance
  PROVE  /\ Served(t) = [obj |-> frame[t].inst, custom |-> instCustom[frame[t].inst]]
         /\ Served(t) # None
         /\ frame[t].inst \in appInst
<1>1. FrameOK(t) /\ HoldsInfo(t) /\ frame[t].info # None
  BY DEF IInv, FramesOK, Held, HoldsInfo
<1>2. frame[t].inst \in appInst
  BY <1>1 DEF FrameOK, OnInstance, OfInstance, Enumerating, OfPhysDev
<1>3. frame[t].info = [inst |-> frame[t].inst, custom |-> instCustom[frame[t].inst]]
  BY <1>1 DEF FrameOK
<1>4. Served(t) = [obj |-> frame[t].inst, custom |-> instCustom[frame[t].inst]]
  BY <1>1, <1>3 DEF Served
<1>5. frame[t].inst \in Instances /\ frame[t].info \in InstInfo
  BY <1>1, <1>2, FieldTypes DEF IInv, TypeOK
<1>6. instCustom[frame[t].inst] \in Customs
  BY <1>3, <1>5 DEF InstInfo
<1>7. Served(t) \in [obj : Instances \cup Devices, custom : Customs]
  BY <1>4, <1>5, <1>6
<1> QED
  BY <1>2, <1>4, <1>7, KindsDiffer

LEMMA ServedOnDevice ==
  ASSUME IInv, Held, NEW t \in Threads, pc[t] = "dc_next"
  PROVE  /\ Served(t) = [obj |-> frame[t].dev, custom |-> devCustom[frame[t].dev]]
         /\ Served(t) # None
         /\ frame[t].dev \in appDev
<1>1. FrameOK(t) /\ frame[t].custom # None
  BY DEF IInv, FramesOK, Held, HoldsInfo
<1>2. frame[t].dev \in appDev /\ frame[t].custom = devCustom[frame[t].dev]
  BY <1>1 DEF FrameOK
<1>3. Served(t) = [obj |-> frame[t].dev, custom |-> devCustom[frame[t].dev]]
  BY <1>1, <1>2 DEF Served, OnInstance
<1>4. frame[t].dev \in Devices /\ frame[t].custom \in Customs
  BY <1>1, <1>2, FieldTypes DEF IInv, TypeOK
<1>5. Served(t) \in [obj : Instances \cup Devices, custom : Customs]
  BY <1>2, <1>3, <1>4
<1> QED
  BY <1>2, <1>3, <1>5, KindsDiffer

LEMMA NotServed ==
  ASSUME NEW t \in Threads, pc[t] \notin OnInstance, pc[t] # "dc_next"
  PROVE  Served(t) = None
  BY DEF Served

\* A call is served by the info of its object from the look-up on, and not before.
ServedOwn ==
  \A t \in Threads :
    /\ pc[t] \notin OnInstance /\ pc[t] # "dc_next" => Served(t) = None
    /\ pc[t] \in OnInstance =>
         Served(t) = [obj |-> frame[t].inst, custom |-> instCustom[frame[t].inst]]
    /\ pc[t] = "dc_next" =>
         Served(t) = [obj |-> frame[t].dev, custom |-> devCustom[frame[t].dev]]

LEMMA ServedBy == IInv /\ Held => ServedOwn
  BY NotServed, ServedOnInstance, ServedOnDevice DEF ServedOwn

LEMMA ServedNext == IInv' /\ Held' => ServedOwn'
  BY ServedBy, PTL

\* A step of a thread is seen in its own call alone.
LEMMA OneCall ==
  ASSUME NEW t \in Threads,
         \A u \in Threads : u # t => pc'[u] = pc[u] /\ frame'[u] = frame[u]
  PROVE  Calls' = [Calls EXCEPT ![t] = Served(t)']
<1>1. ASSUME NEW u \in Threads, u # t PROVE Served(u)' = Served(u)
  BY <1>1 DEF Served
<1> QED
  BY <1>1 DEF Calls

-----------------------------------------------------------------------------
(* Steps of the contract.                                                  *)

SeenVars == <<Insts, Pds, Devs, Calls>>

\* A step that is not seen in the maps nor in the call of its thread is none.
LEMMA Unseen ==
  ASSUME IInv, Held, IInv', Held', NEW t \in Threads, UNCHANGED <<Insts, Pds, Devs>>,
         \A u \in Threads : u # t => pc'[u] = pc[u] /\ frame'[u] = frame[u],
         Served(t)' = Served(t)
  PROVE  UNCHANGED SeenVars
<1>1. Calls' = [Calls EXCEPT ![t] = Served(t)']
  BY OneCall
<1> QED
  BY <1>1 DEF SeenVars, Calls

\* The beginning of a call is not seen, and a handle given up is a destruction.
LEMMA BeginSeen ==
  ASSUME IInv, Held, IInv', Held', NEW t \in Threads, Begin(t)
  PROVE  Contract!Next \/ UNCHANGED SeenVars
<1>0. PICK l \in {"ci_next", "di_remove", "ep_get", "ic_get", "cd_pd", "xp_pd",
                  "dd_remove", "dc_get"} :
        \E f : Call(t, l, f)
  BY DEF Begin, CreateInstance, DestroyInstance, EnumeratePhysicalDevices,
     InstanceCommand, CreateDevice, PhysicalDeviceCommand, EnumerateDeviceExtensions,
     DestroyDevice, DeviceCommand
<1>1. PICK f : Call(t, l, f)
  BY <1>0
<1>2. pc' = [pc EXCEPT ![t] = l] /\ frame' = [frame EXCEPT ![t] = f] /\ pc[t] = "idle"
  BY <1>1 DEF Call
<1>3. \A u \in Threads : u # t => pc'[u] = pc[u] /\ frame'[u] = frame[u]
  BY <1>2 DEF IInv, TypeOK
<1>4. pc'[t] = l
  BY <1>2 DEF IInv, TypeOK
<1>5. Served(t) = None /\ Served(t)' = None
  BY <1>2, <1>4, NotServed, ServedNext DEF ServedOwn, OnInstance
<1>6. Calls' = Calls
  <2>1. Calls' = [Calls EXCEPT ![t] = None]
    BY <1>3, <1>5, OneCall
  <2> QED
    BY <2>1, <1>5 DEF Calls
<1>7. CASE UNCHANGED appVars /\ UNCHANGED nextVars
  BY <1>6, <1>7, NothingSeen DEF nextVars, SeenVars
<1>8. ASSUME NEW i \in Instances, DestroyInstance(t, i)
      PROVE  Contract!Next
  <2>1. /\ i \in appInst /\ UNCHANGED <<pdOwner, instCustom, devPd, devCustom, appDev>>
        /\ appInst' = appInst \ {i} /\ appPd' = {p \in appPd : pdOwner[p] # i}
        /\ \A v \in Devices : devPd[v] # None => pdOwner[devPd[v]] # i
        /\ \A u \in Threads : ~ UsesInstance(u, i)
    BY <1>8 DEF DestroyInstance, nextVars
  <2>2. Insts[i] # None
    <3>1. instCustom[i] # None
      BY <2>1 DEF IInv, InstancesRegistered, KeysDistinct
    <3> QED
      BY <2>1, <3>1, Seen DEF SeenOwn
  <2>3. Insts' = [Insts EXCEPT ![i] = None]
    BY <2>1, Seen, SeenNext DEF SeenOwn
  <2>4. \A p \in appPd : pdOwner[p] \in appInst
    BY DEF IInv, PhysicalDevicesRegistered
  <2>5. Pds' = [p \in PhysDevs |-> IF Pds[p] = i THEN None ELSE Pds[p]]
    BY <2>1, Seen, SeenNext, NoneIsNothing DEF SeenOwn
  <2>6. Devs' = Devs
    BY <2>1, Seen, SeenNext DEF SeenOwn
  <2>7. \A v \in Devices : Devs[v] # None => Pds[Devs[v].pd] # i
    <3>1. \A v \in appDev : devPd[v] \in appPd /\ devPd[v] # None
      BY DEF IInv, TypeOK, DevicesRegistered
    <3>2. \A v \in Devices : Devs[v] # None => v \in appDev /\ Devs[v].pd = devPd[v]
      BY Seen DEF SeenOwn
    <3>3. \A p \in appPd : Pds[p] = pdOwner[p]
      BY Seen DEF SeenOwn, IInv, TypeOK
    <3> QED
      BY <3>1, <3>2, <3>3, <2>1
  <2>8. ASSUME NEW u \in Threads, Calls[u] # None PROVE Calls[u].obj # i
    <3>1. Served(u) # None
      BY <2>8 DEF Calls
    <3>2. CASE pc[u] \in OnInstance
      BY <3>2, <2>1, ServedOnInstance DEF Calls, UsesInstance
    <3>3. CASE pc[u] = "dc_next"
      BY <3>3, ServedOnDevice, KindsDiffer DEF Calls, IInv, TypeOK
    <3> QED
      BY <3>1, <3>2, <3>3, NotServed
  <2>9. Contract!DestroyInstance(i)
    BY <2>2, <2>3, <2>5, <2>6, <2>7, <2>8, <1>6
    DEF Contract!DestroyInstance, Contract!Quiet, Insts, Pds, Devs, Calls
  <2> QED
    BY <2>9 DEF Contract!Next
<1>9. ASSUME NEW v \in Devices, DestroyDevice(t, v)
      PROVE  Contract!Next
  <2>1. /\ v \in appDev /\ UNCHANGED <<pdOwner, instCustom, devPd, devCustom, appInst, appPd>>
        /\ appDev' = appDev \ {v}
        /\ \A u \in Threads : frame[u].dev # v
    BY <1>9 DEF DestroyDevice, nextVars
  <2>2. Devs[v] # None
    <3>1. /\ devPd[v] \in PhysDevs /\ devCustom[v] \in Customs
      BY <2>1 DEF IInv, TypeOK, DevicesRegistered, Option
    <3>2. [pd |-> devPd[v], custom |-> devCustom[v]] \in [pd : PhysDevs, custom : Customs]
      BY <3>1
    <3> QED
      BY <2>1, <3>2, Seen, KindsDiffer DEF SeenOwn
  <2>3. Devs' = [Devs EXCEPT ![v] = None]
    BY <2>1, Seen, SeenNext DEF SeenOwn
  <2>4. Insts' = Insts /\ Pds' = Pds
    BY <2>1, Seen, SeenNext DEF SeenOwn
  <2>5. ASSUME NEW u \in Threads, Calls[u] # None PROVE Calls[u].obj # v
    <3>1. Served(u) # None
      BY <2>5 DEF Calls
    <3>2. CASE pc[u] \in OnInstance
      BY <3>2, ServedOnInstance, KindsDiffer DEF Calls, IInv, TypeOK
    <3>3. CASE pc[u] = "dc_next"
      BY <3>3, <2>1, ServedOnDevice DEF Calls
    <3> QED
      BY <3>1, <3>2, <3>3, NotServed
  <2>6. Contract!DestroyDevice(v)
    BY <2>2, <2>3, <2>4, <2>5, <1>6
    DEF Contract!DestroyDevice, Contract!Quiet, Insts, Pds, Devs, Calls
  <2> QED
    BY <2>6 DEF Contract!Next
<1> QED
  BY <1>7, <1>8, <1>9 DEF Begin, CreateInstance, EnumeratePhysicalDevices,
     InstanceCommand, CreateDevice, PhysicalDeviceCommand, EnumerateDeviceExtensions,
     DeviceCommand

\* A look-up is where the contract begins to serve the call.
LEMMA LookupInstanceSeen ==
  ASSUME IInv, Held, IInv', Held', NEW t \in Threads,
         \/ LookupInstance(t, "ep_get", "ep_next")
         \/ LookupInstance(t, "cd_inst", "cd_next")
         \/ LookupInstance(t, "xp_inst", "xp_next")
         \/ LookupInstance(t, "ic_get", "ic_next"),
         \A u \in Threads : u # t => pc'[u] = pc[u] /\ frame'[u] = frame[u]
  PROVE  Contract!Next
<1>1. /\ pc[t] \in {"ep_get", "cd_inst", "xp_inst", "ic_get"}
      /\ pc'[t] \in {"ep_next", "cd_next", "xp_next", "ic_next"}
      /\ UNCHANGED <<maps, lock, nextVars, appVars>>
  BY DEF LookupInstance, Goto, IInv, TypeOK
<1>2. PICK i \in Instances : i = frame[t].inst /\ i \in appInst /\ frame'[t].inst = i
  <2>1. FrameOK(t)
    BY DEF IInv, FramesOK
  <2>2. frame[t].inst \in appInst
    BY <1>1, <2>1 DEF FrameOK, OfInstance, OfPhysDev
  <2>3. frame'[t].inst = frame[t].inst
    BY DEF LookupInstance, IInv, TypeOK, Frame
  <2> QED
    BY <2>2, <2>3 DEF IInv, TypeOK
<1>3. UNCHANGED <<Insts, Pds, Devs>>
  BY <1>1, NothingSeen DEF nextVars
<1>4. Served(t) = None
  BY <1>1, NotServed DEF OnInstance
<1>5. Served(t)' = [obj |-> i, custom |-> instCustom[i]]
  BY <1>1, <1>2, ServedNext DEF ServedOwn, OnInstance, nextVars
<1>6. Calls' = [Calls EXCEPT ![t] = [obj |-> i, custom |-> Insts[i]]]
  BY <1>2, <1>5, OneCall, Seen DEF SeenOwn
<1>7. Insts[i] # None
  <2>1. instCustom[i] # None
    BY <1>2 DEF IInv, InstancesRegistered, KeysDistinct
  <2> QED
    BY <1>2, <2>1, Seen DEF SeenOwn
<1>8. Contract!ServeInstance(t, i)
  BY <1>3, <1>4, <1>6, <1>7
  DEF Contract!ServeInstance, Contract!Serve, Insts, Pds, Devs, Calls
<1> QED
  BY <1>8 DEF Contract!Next

LEMMA LookupDeviceSeen ==
  ASSUME IInv, Held, IInv', Held', NEW t \in Threads, LookupDevice(t),
         \A u \in Threads : u # t => pc'[u] = pc[u] /\ frame'[u] = frame[u]
  PROVE  Contract!Next
<1>1. pc[t] = "dc_get" /\ pc'[t] = "dc_next" /\ UNCHANGED <<maps, lock, nextVars, appVars>>
  BY DEF LookupDevice, Goto, IInv, TypeOK
<1>2. PICK v \in Devices : v = frame[t].dev /\ v \in appDev /\ frame'[t].dev = v
  <2>1. FrameOK(t)
    BY DEF IInv, FramesOK
  <2>2. frame[t].dev \in appDev
    BY <1>1, <2>1 DEF FrameOK
  <2>3. frame'[t].dev = frame[t].dev
    BY DEF LookupDevice, IInv, TypeOK, Frame
  <2> QED
    BY <2>2, <2>3 DEF IInv, TypeOK
<1>3. UNCHANGED <<Insts, Pds, Devs>>
  BY <1>1, NothingSeen DEF nextVars
<1>4. Served(t) = None
  BY <1>1, NotServed DEF OnInstance
<1>5. Served(t)' = [obj |-> v, custom |-> devCustom[v]]
  BY <1>1, <1>2, ServedNext DEF ServedOwn, nextVars
<1>6. Devs[v] = [pd |-> devPd[v], custom |-> devCustom[v]]
  BY <1>2, Seen DEF SeenOwn
<1>7. Devs[v] # None
  <2>1. devPd[v] \in PhysDevs /\ devCustom[v] \in Customs
    BY <1>2 DEF IInv, TypeOK, DevicesRegistered, Option
  <2>2. Devs[v] \in [pd : PhysDevs, custom : Customs]
    BY <1>6, <2>1
  <2> QED
    BY <2>2, KindsDiffer
<1>8. Calls' = [Calls EXCEPT ![t] = [obj |-> v, custom |-> Devs[v].custom]]
  BY <1>5, <1>6, OneCall
<1>9. Contract!ServeDevice(t, v)
  BY <1>3, <1>4, <1>7, <1>8
  DEF Contract!ServeDevice, Contract!Serve, Insts, Pds, Devs, Calls
<1> QED
  BY <1>9 DEF Contract!Next

\* A call that returns what it was given, or an error, ends.
LEMMA ReturnSeen ==
  ASSUME IInv, Held, IInv', Held', NEW t \in Threads, Return(t),
         UNCHANGED <<maps, lock, nextVars, appVars>>
  PROVE  Contract!Next \/ UNCHANGED SeenVars
<1>1. /\ \A u \in Threads : u # t => pc'[u] = pc[u] /\ frame'[u] = frame[u]
      /\ pc'[t] = "idle"
  BY DEF Return, IInv, TypeOK
<1>2. UNCHANGED <<Insts, Pds, Devs>>
  BY NothingSeen DEF nextVars
<1>3. Served(t)' = None
  BY <1>1, ServedNext DEF ServedOwn, OnInstance
<1>4. CASE Served(t) = None
  BY <1>1, <1>2, <1>3, <1>4, Unseen
<1>5. CASE Served(t) # None
  <2>1. Contract!FinishCommand(t)
    BY <1>1, <1>2, <1>3, <1>5, OneCall
    DEF Contract!FinishCommand, Contract!Finish, Insts, Pds, Devs, Calls
  <2> QED
    BY <2>1 DEF Contract!Next
<1> QED
  BY <1>4, <1>5

\* The physical devices of a returned array are those of the call's instance.
LEMMA EnumerateReturnSeen ==
  ASSUME IInv, Held, IInv', Held', NEW t \in Threads, EnumerateReturn(t)
  PROVE  Contract!Next
<1>1. /\ \A u \in Threads : u # t => pc'[u] = pc[u] /\ frame'[u] = frame[u]
      /\ pc[t] = "ep_each" /\ pc'[t] = "idle" /\ frame[t].todo = {}
      /\ appPd' = appPd \cup frame[t].got
      /\ UNCHANGED <<maps, instCustom, pdOwner, devPd, devCustom, appInst, appDev>>
  BY DEF EnumerateReturn, Return, IInv, TypeOK, nextVars
<1>2. /\ Served(t) = [obj |-> frame[t].inst, custom |-> instCustom[frame[t].inst]]
      /\ Served(t) # None /\ Served(t)' = None
  BY <1>1, ServedOnInstance, ServedNext DEF ServedOwn, OnInstance
<1>3. PICK i, P : /\ i = frame[t].inst /\ P = frame[t].got /\ P \in SUBSET PhysDevs
                  /\ \A p \in P : pdOwner[p] = i
  <2>1. FrameOK(t)
    BY DEF IInv, FramesOK
  <2>2. \A p \in frame[t].got : pdOwner[p] = frame[t].inst
    BY <1>1, <2>1 DEF FrameOK, Enumerating
  <2>3. frame[t].got \in SUBSET PhysDevs
    BY FieldTypes DEF IInv
  <2> QED
    BY <2>2, <2>3
<1>4. Calls[t] # None /\ Calls[t].obj = i /\ Calls' = [Calls EXCEPT ![t] = None]
  BY <1>1, <1>2, <1>3, OneCall DEF Calls
<1>5. Insts' = Insts /\ Devs' = Devs
  BY <1>1, Seen, SeenNext DEF SeenOwn
<1>6. /\ \A p \in P : Pds[p] \in {None, i}
      /\ Pds' = [p \in PhysDevs |-> IF p \in P THEN i ELSE Pds[p]]
  BY <1>1, <1>3, Seen, SeenNext DEF SeenOwn
<1>7. i \in Instances
  <2>1. FrameOK(t)
    BY DEF IInv, FramesOK
  <2> QED
    BY <1>1, <1>3, <2>1 DEF FrameOK, OfInstance, Enumerating, IInv, TypeOK
<1>8. Contract!FinishEnumerate(t, P)
  BY <1>4, <1>5, <1>6, <1>7
  DEF Contract!FinishEnumerate, Contract!Finish, Insts, Pds, Devs, Calls
<1> QED
  BY <1>3, <1>8 DEF Contract!Next

\* A registered instance is one the contract did not have.
LEMMA RegisterInstanceSeen ==
  ASSUME IInv, Held, IInv', Held', NEW t \in Threads, RegisterInstance(t)
  PROVE  Contract!Next
<1>1. /\ \A u \in Threads : u # t => pc'[u] = pc[u] /\ frame'[u] = frame[u]
      /\ pc[t] = "ci_insert" /\ pc'[t] = "idle"
      /\ appInst' = appInst \cup {frame[t].inst}
      /\ UNCHANGED <<instCustom, pdOwner, devPd, devCustom, appPd, appDev>>
  BY DEF RegisterInstance, Return, IInv, TypeOK, nextVars
<1>2. PICK i \in Instances : i = frame[t].inst /\ i \notin appInst /\ instCustom[i] \in Customs
  <2>1. FrameOK(t)
    BY DEF IInv, FramesOK
  <2>2. frame[t].inst # None /\ frame[t].inst \notin appInst /\ instKey[frame[t].inst] # None
    BY <1>1, <2>1 DEF FrameOK, CreatingInstance
  <2>3. frame[t].inst \in Instances
    BY <2>2, FieldTypes DEF IInv
  <2> QED
    BY <2>2, <2>3 DEF IInv, TypeOK, KeysDistinct, Option
<1>3. Insts[i] = None /\ Insts' = [Insts EXCEPT ![i] = instCustom[i]]
  BY <1>1, <1>2, Seen, SeenNext DEF SeenOwn
<1>4. Pds' = Pds /\ Devs' = Devs
  BY <1>1, Seen, SeenNext DEF SeenOwn
<1>5. Calls' = Calls
  <2>1. Served(t) = None /\ Served(t)' = None
    BY <1>1, NotServed, ServedNext DEF ServedOwn, OnInstance
  <2> QED
    BY <1>1, <2>1, OneCall DEF Calls
<1>6. Contract!CreateInstance(i, instCustom[i])
  BY <1>3, <1>4, <1>5 DEF Contract!CreateInstance, Insts, Pds, Devs, Calls
<1> QED
  BY <1>2, <1>6 DEF Contract!Next

\* A registered device is one the contract did not have, of a physical device of
\* the instance that served the call.
LEMMA RegisterDeviceSeen ==
  ASSUME IInv, Held, IInv', Held', NEW t \in Threads, RegisterDevice(t)
  PROVE  Contract!Next
<1>1. /\ \A u \in Threads : u # t => pc'[u] = pc[u] /\ frame'[u] = frame[u]
      /\ pc[t] = "cd_insert" /\ pc'[t] = "idle"
      /\ appDev' = appDev \cup {frame[t].dev}
      /\ UNCHANGED <<instCustom, pdOwner, devPd, devCustom, appInst, appPd>>
  BY DEF RegisterDevice, Return, IInv, TypeOK, nextVars
<1>2. FrameOK(t) /\ HoldsInfo(t)
  BY DEF IInv, FramesOK, Held
<1>3. PICK v \in Devices, p \in PhysDevs :
        /\ v = frame[t].dev /\ v \notin appDev /\ devCustom[v] \in Customs
        /\ p = devPd[v] /\ p \in appPd /\ pdOwner[p] = frame[t].inst
  <2>1. /\ frame[t].dev # None /\ frame[t].dev \notin appDev
        /\ frame[t].custom # None /\ frame[t].custom = devCustom[frame[t].dev]
    BY <1>1, <1>2 DEF FrameOK, CreatingDevice
  <2>2. frame[t].pd \in appPd /\ frame[t].inst = pdOwner[frame[t].pd]
    BY <1>1, <1>2 DEF FrameOK, OfPhysDev
  <2>3. devPd[frame[t].dev] = frame[t].pd
    BY <1>1, <1>2 DEF HoldsInfo, CreatingDevice
  <2>4. /\ frame[t].dev \in Devices /\ frame[t].custom \in Customs
        /\ frame[t].pd \in PhysDevs
    BY <2>1, <2>2, FieldTypes DEF IInv, TypeOK
  <2> QED
    BY <2>1, <2>2, <2>3, <2>4
<1>4. /\ Served(t) = [obj |-> frame[t].inst, custom |-> instCustom[frame[t].inst]]
      /\ Served(t) # None /\ Served(t)' = None
  BY <1>1, ServedOnInstance, ServedNext DEF ServedOwn, OnInstance
<1>5. /\ Calls[t] # None /\ Calls[t].obj = frame[t].inst
      /\ Calls' = [Calls EXCEPT ![t] = None]
  BY <1>1, <1>4, OneCall DEF Calls
<1>6. Insts' = Insts /\ Pds' = Pds /\ Pds[p] = frame[t].inst
  BY <1>1, <1>3, Seen, SeenNext DEF SeenOwn
<1>7. Devs[v] = None /\ Devs' = [Devs EXCEPT ![v] = [pd |-> p, custom |-> devCustom[v]]]
  BY <1>1, <1>3, Seen, SeenNext DEF SeenOwn
<1>8. Contract!FinishCreateDevice(t, v, p, devCustom[v])
  BY <1>5, <1>6, <1>7
  DEF Contract!FinishCreateDevice, Contract!Finish, Insts, Pds, Devs, Calls
<1> QED
  BY <1>3, <1>8 DEF Contract!Next

\* The steps of a creation or destruction that are not its last are not seen:
\* nobody else has the object.
LEMMA ObjectStepUnseen ==
  ASSUME IInv, Held, IInv', Held', NEW t \in Threads,
         \/ NextCreateInstance(t) \/ LockInstanceMap(t) \/ RemoveInstance(t)
         \/ PurgePhysicalDevices(t) \/ NextDestroyInstance(t)
         \/ LockDeviceMap(t) \/ RemoveDevice(t) \/ NextDestroyDevice(t),
         \A u \in Threads : u # t => pc'[u] = pc[u] /\ frame'[u] = frame[u]
  PROVE  UNCHANGED SeenVars
<1>1. FrameOK(t)
  BY DEF IInv, FramesOK
<1>2. UNCHANGED appVars
  BY DEF NextCreateInstance, LockInstanceMap, RemoveInstance, PurgePhysicalDevices,
     NextDestroyInstance, LockDeviceMap, RemoveDevice, NextDestroyDevice
<1>3. /\ \A i \in appInst : i \in Instances /\ instKey[i] # None
      /\ \A p \in appPd : p \in PhysDevs /\ pdOwner[p] \in appInst
      /\ \A v \in appDev : v \in Devices /\ devPd[v] # None
  BY DEF IInv, TypeOK, InstancesRegistered, PhysicalDevicesRegistered, DevicesRegistered
<1>4. CASE NextCreateInstance(t)
  <2>1. PICK i \in Instances, k \in Keys, c \in Customs, P \in SUBSET PhysDevs :
          /\ instKey[i] = None
          /\ \A p \in P : pdOwner[p] = None
          /\ instCustom' = [instCustom EXCEPT ![i] = c]
          /\ pdOwner' = [p \in PhysDevs |-> IF p \in P THEN i ELSE pdOwner[p]]
    BY <1>4 DEF NextCreateInstance
  <2>2. \A j \in appInst : instCustom'[j] = instCustom[j]
    BY <1>3, <2>1 DEF IInv, TypeOK
  <2>3. \A p \in appPd : p \notin P
    BY <1>3, <2>1, NoneIsNothing DEF IInv, TypeOK
  <2>4. \A p \in appPd : pdOwner'[p] = pdOwner[p]
    BY <1>3, <2>1, <2>3
  <2>5. UNCHANGED <<devPd, devCustom>> /\ pc[t] = "ci_next" /\ pc'[t] = "ci_lock"
    BY <1>4 DEF NextCreateInstance, Goto, IInv, TypeOK
  <2>6. UNCHANGED <<Insts, Pds, Devs>>
    BY <1>2, <2>2, <2>4, <2>5, NothingSeen
  <2>7. Served(t) = None /\ Served(t)' = None
    BY <2>5, NotServed, ServedNext DEF ServedOwn, OnInstance
  <2> QED
    BY <2>6, <2>7, Unseen
<1>5. CASE NextDestroyInstance(t)
  <2>1. PICK i : /\ i = frame[t].inst /\ i \notin appInst
                 /\ instCustom' = [instCustom EXCEPT ![i] = None]
                 /\ pdOwner' = [p \in PhysDevs |-> IF pdOwner[p] = i THEN None ELSE pdOwner[p]]
    BY <1>1, <1>5 DEF NextDestroyInstance, FrameOK, DestroyingInstance
  <2>2. /\ \A j \in appInst : instCustom'[j] = instCustom[j]
        /\ \A p \in appPd : pdOwner'[p] = pdOwner[p]
    BY <1>3, <2>1 DEF IInv, TypeOK
  <2>3. UNCHANGED <<devPd, devCustom>> /\ pc[t] = "di_next" /\ pc'[t] = "idle"
    BY <1>5 DEF NextDestroyInstance, Return, IInv, TypeOK
  <2>4. UNCHANGED <<Insts, Pds, Devs>>
    BY <1>2, <2>2, <2>3, NothingSeen
  <2>5. Served(t) = None /\ Served(t)' = None
    BY <2>3, NotServed, ServedNext DEF ServedOwn, OnInstance
  <2> QED
    BY <2>4, <2>5, Unseen
<1>6. CASE NextDestroyDevice(t)
  <2>1. PICK v : /\ v = frame[t].dev /\ v \notin appDev
                 /\ devPd' = [devPd EXCEPT ![v] = None]
                 /\ devCustom' = [devCustom EXCEPT ![v] = None]
    BY <1>1, <1>6 DEF NextDestroyDevice, FrameOK, DestroyingDevice
  <2>2. \A w \in appDev : devPd'[w] = devPd[w] /\ devCustom'[w] = devCustom[w]
    BY <1>3, <2>1 DEF IInv, TypeOK
  <2>3. UNCHANGED <<instCustom, pdOwner>> /\ pc[t] = "dd_next" /\ pc'[t] = "idle"
    BY <1>6 DEF NextDestroyDevice, Return, IInv, TypeOK
  <2>4. UNCHANGED <<Insts, Pds, Devs>>
    BY <1>2, <2>2, <2>3, NothingSeen
  <2>5. Served(t) = None /\ Served(t)' = None
    BY <2>3, NotServed, ServedNext DEF ServedOwn, OnInstance
  <2> QED
    BY <2>4, <2>5, Unseen
<1>7. CASE \/ LockInstanceMap(t) \/ RemoveInstance(t) \/ PurgePhysicalDevices(t)
           \/ RemoveDevice(t)
  <2>1. /\ UNCHANGED nextVars
        /\ pc[t] \in {"ci_lock", "di_remove", "di_purge", "dd_remove"}
        /\ pc'[t] \in {"idle", "ci_insert", "di_purge", "di_next", "dd_next"}
    BY <1>7 DEF LockInstanceMap, RemoveInstance, PurgePhysicalDevices, RemoveDevice,
       Return, Goto, IInv, TypeOK
  <2>2. UNCHANGED <<Insts, Pds, Devs>>
    BY <1>2, <2>1, NothingSeen DEF nextVars
  <2>3. Served(t) = None /\ Served(t)' = None
    BY <2>1, NotServed, ServedNext DEF ServedOwn, OnInstance
  <2> QED
    BY <2>2, <2>3, Unseen
<1>8. CASE LockDeviceMap(t)
  <2>1. /\ UNCHANGED nextVars /\ UNCHANGED frame
        /\ pc[t] = "cd_lock" /\ pc'[t] = "cd_insert"
    BY <1>8 DEF LockDeviceMap, Goto, IInv, TypeOK
  <2>2. UNCHANGED <<Insts, Pds, Devs>>
    BY <1>2, <2>1, NothingSeen DEF nextVars
  <2>3. Served(t)' = Served(t)
    BY <2>1 DEF Served, OnInstance
  <2> QED
    BY <2>2, <2>3, Unseen
<1> QED
  BY <1>4, <1>5, <1>6, <1>7, <1>8

\* Nor is the work of a call that is served, until it returns.
LEMMA ServedStepUnseen ==
  ASSUME IInv, Held, IInv', Held', NEW t \in Threads,
         \/ NextEnumerate(t) \/ CheckPhysicalDevice(t) \/ RegisterPhysicalDevice(t)
         \/ NextCreateDevice(t),
         \A u \in Threads : u # t => pc'[u] = pc[u] /\ frame'[u] = frame[u]
  PROVE  UNCHANGED SeenVars
<1>1. UNCHANGED appVars /\ UNCHANGED <<instCustom, pdOwner>>
  BY DEF NextEnumerate, CheckPhysicalDevice, RegisterPhysicalDevice, NextCreateDevice,
     nextVars
<1>2. \A v \in appDev : devPd'[v] = devPd[v] /\ devCustom'[v] = devCustom[v]
  <2>1. CASE NextCreateDevice(t)
    <3>1. PICK v \in Devices, c \in Customs :
            /\ devPd[v] = None
            /\ devPd' = [devPd EXCEPT ![v] = frame[t].pd]
            /\ devCustom' = [devCustom EXCEPT ![v] = c]
      BY <2>1 DEF NextCreateDevice
    <3>2. v \notin appDev /\ appDev \subseteq Devices
      BY <3>1 DEF IInv, TypeOK, DevicesRegistered
    <3> QED
      BY <3>1, <3>2 DEF IInv, TypeOK
  <2>2. CASE ~ NextCreateDevice(t)
    BY <2>2 DEF NextEnumerate, CheckPhysicalDevice, RegisterPhysicalDevice, nextVars
  <2> QED
    BY <2>1, <2>2
<1>3. UNCHANGED <<Insts, Pds, Devs>>
  BY <1>1, <1>2, NothingSeen
<1>4. pc[t] \in OnInstance
  BY DEF NextEnumerate, CheckPhysicalDevice, RegisterPhysicalDevice, NextCreateDevice,
     OnInstance
<1>5. pc'[t] \in OnInstance
  BY <1>4 DEF NextEnumerate, CheckPhysicalDevice, RegisterPhysicalDevice,
     NextCreateDevice, OnInstance, Goto, IInv, TypeOK
<1>6. frame'[t].inst = frame[t].inst
  <2>1. frame \in [Threads -> Frame]
    BY DEF IInv, TypeOK
  <2>2. CASE NextEnumerate(t)
    BY <2>1, <2>2 DEF NextEnumerate, Frame
  <2>3. CASE CheckPhysicalDevice(t)
    BY <2>1, <2>3 DEF CheckPhysicalDevice, Frame
  <2>4. CASE RegisterPhysicalDevice(t)
    BY <2>1, <2>4 DEF RegisterPhysicalDevice, Frame
  <2>5. CASE NextCreateDevice(t)
    BY <2>1, <2>5 DEF NextCreateDevice, Frame
  <2> QED
    BY <2>2, <2>3, <2>4, <2>5
<1>7. Served(t)' = Served(t)
  BY <1>1, <1>4, <1>5, <1>6, ServedOnInstance, ServedNext DEF ServedOwn
<1> QED
  BY <1>3, <1>7, Unseen

LEMMA LookupPhysicalDeviceUnseen ==
  ASSUME IInv, Held, IInv', Held', NEW t \in Threads,
         \/ LookupPhysicalDevice(t, "cd_pd", "cd_inst")
         \/ LookupPhysicalDevice(t, "xp_pd", "xp_inst"),
         \A u \in Threads : u # t => pc'[u] = pc[u] /\ frame'[u] = frame[u]
  PROVE  UNCHANGED SeenVars
<1>1. /\ UNCHANGED <<nextVars, appVars>>
      /\ pc[t] \in {"cd_pd", "xp_pd"} /\ pc'[t] \in {"cd_inst", "xp_inst"}
  BY DEF LookupPhysicalDevice, Goto, IInv, TypeOK
<1>2. UNCHANGED <<Insts, Pds, Devs>>
  BY <1>1, NothingSeen DEF nextVars
<1>3. Served(t) = None /\ Served(t)' = None
  BY <1>1, NotServed, ServedNext DEF ServedOwn, OnInstance
<1> QED
  BY <1>1, <1>2, <1>3, Unseen

LEMMA StepSeen ==
  ASSUME IInv, Held, IInv', Held', NEW t \in Threads, Step(t)
  PROVE  Contract!Next \/ UNCHANGED SeenVars
<1>1. \A u \in Threads : u # t => pc'[u] = pc[u] /\ frame'[u] = frame[u]
  BY StepMoves
<1>2. CASE \/ NextCreateInstance(t) \/ LockInstanceMap(t) \/ RemoveInstance(t)
           \/ PurgePhysicalDevices(t) \/ NextDestroyInstance(t)
           \/ LockDeviceMap(t) \/ RemoveDevice(t) \/ NextDestroyDevice(t)
  BY <1>1, <1>2, ObjectStepUnseen
<1>3. CASE \/ NextEnumerate(t) \/ CheckPhysicalDevice(t) \/ RegisterPhysicalDevice(t)
           \/ NextCreateDevice(t)
  BY <1>1, <1>3, ServedStepUnseen
<1>4. CASE \/ LookupPhysicalDevice(t, "cd_pd", "cd_inst")
           \/ LookupPhysicalDevice(t, "xp_pd", "xp_inst")
  BY <1>1, <1>4, LookupPhysicalDeviceUnseen
<1>5. CASE \/ LookupInstance(t, "ep_get", "ep_next")
           \/ LookupInstance(t, "cd_inst", "cd_next")
           \/ LookupInstance(t, "xp_inst", "xp_next")
           \/ LookupInstance(t, "ic_get", "ic_next")
  BY <1>1, <1>5, LookupInstanceSeen
<1>6. CASE LookupDevice(t)
  BY <1>1, <1>6, LookupDeviceSeen
<1>7. CASE \/ RefuseInstance(t) \/ EnumerateNothing(t) \/ RefuseDevice(t)
           \/ CommandReturn(t)
  BY <1>7, ReturnSeen DEF RefuseInstance, EnumerateNothing, RefuseDevice, CommandReturn
<1>8. CASE EnumerateReturn(t) \/ RegisterInstance(t) \/ RegisterDevice(t)
  BY <1>8, EnumerateReturnSeen, RegisterInstanceSeen, RegisterDeviceSeen
<1> QED
  BY <1>2, <1>3, <1>4, <1>5, <1>6, <1>7, <1>8 DEF Step

LEMMA InitSeen == Init => Contract!Init
<1> SUFFICES ASSUME Init PROVE Contract!Init
  OBVIOUS
<1>1. \A i \in Instances : SeenInstance(i) = None
  BY DEF Init, SeenInstance
<1>2. \A p \in PhysDevs : SeenPhysicalDevice(p) = None
  BY DEF Init, SeenPhysicalDevice
<1>3. \A v \in Devices : SeenDevice(v) = None
  BY DEF Init, SeenDevice
<1>4. \A t \in Threads : Served(t) = None
  BY DEF Init, Served, OnInstance
<1> QED
  BY <1>1, <1>2, <1>3, <1>4 DEF Contract!Init, Insts, Pds, Devs, Calls

\* The handlers, maps and locks implement the contract, for any number of
\* threads and objects: every object the application holds resolves to the info
\* it was created with until it gives it up, and each of its calls is served by
\* the info of the object it was made on, however the calls interleave.
THEOREM Implements == Spec => ImplementsContract
<1>1. ASSUME IInv, Held, IInv', Held', [Next]_vars
      PROVE  [Contract!Next]_(Contract!cvars)
  <2>1. CASE UNCHANGED vars
    BY <2>1 DEF vars, maps, nextVars, appVars, Contract!cvars, SeenInstance,
       GetInstanceInfo, SeenPhysicalDevice, SeenDevice, Served, Insts, Pds, Devs, Calls
  <2>2. CASE Next
    <3>1. Contract!Next \/ UNCHANGED SeenVars
      BY <1>1, <2>2, BeginSeen, StepSeen DEF Next
    <3> QED
      BY <3>1 DEF Contract!cvars, SeenVars, Insts, Pds, Devs, Calls
  <2> QED
    BY <1>1, <2>1, <2>2
<1> QED
  BY InitSeen, AlwaysHeld, <1>1, PTL DEF Spec, ImplementsContract, Contract!Spec

-----------------------------------------------------------------------------
(* What the contract promises.                                             *)

\* The invariant of the contract.
ContractInv == Contract!TypeOK /\ Contract!Consistent

\* An instance that is created is in no call and has no physical device yet; with
\* one that is destroyed its physical devices go.
LEMMA ContractInstances ==
  ASSUME ContractInv, NEW i \in Instances,
         (\E c \in Customs : Contract!CreateInstance(i, c)) \/ Contract!DestroyInstance(i)
  PROVE  ContractInv'
<1>1. CASE \E c \in Customs : Contract!CreateInstance(i, c)
  BY <1>1, NoneIsNothing DEF ContractInv, Contract!TypeOK, Contract!Consistent, Contract!CreateInstance
<1>2. CASE Contract!DestroyInstance(i)
  BY <1>2, NoneIsNothing DEF ContractInv, Contract!TypeOK, Contract!Consistent, Contract!DestroyInstance, Contract!Quiet
<1> QED
  BY <1>1, <1>2

\* A call is served by the info of its object.
LEMMA ContractServes ==
  ASSUME ContractInv, NEW t \in Threads,
         \/ \E i \in Instances : Contract!ServeInstance(t, i)
         \/ \E v \in Devices : Contract!ServeDevice(t, v)
         \/ Contract!FinishCommand(t)
  PROVE  ContractInv'
<1>1. CASE \E i \in Instances : Contract!ServeInstance(t, i)
  BY <1>1, NoneIsNothing DEF ContractInv, Contract!TypeOK, Contract!Consistent,
     Contract!ServeInstance, Contract!Serve
<1>2. CASE \E v \in Devices : Contract!ServeDevice(t, v)
  BY <1>2, NoneIsNothing, KindsDiffer DEF ContractInv, Contract!TypeOK,
     Contract!Consistent, Contract!ServeDevice, Contract!Serve
<1>3. CASE Contract!FinishCommand(t)
  BY <1>3 DEF ContractInv, Contract!TypeOK, Contract!Consistent,
     Contract!FinishCommand, Contract!Finish
<1> QED
  BY <1>1, <1>2, <1>3

\* What a call tells of or creates belongs to its instance.
LEMMA ContractObjects ==
  ASSUME ContractInv,
         \/ \E t \in Threads, P \in SUBSET PhysDevs : Contract!FinishEnumerate(t, P)
         \/ \E t \in Threads, v \in Devices, p \in PhysDevs, c \in Customs :
              Contract!FinishCreateDevice(t, v, p, c)
         \/ \E v \in Devices : Contract!DestroyDevice(v)
  PROVE  ContractInv'
<1>1. ASSUME NEW t \in Threads, NEW P \in SUBSET PhysDevs, Contract!FinishEnumerate(t, P)
      PROVE  ContractInv'
  BY <1>1, NoneIsNothing DEF ContractInv, Contract!TypeOK, Contract!Consistent,
     Contract!FinishEnumerate, Contract!Finish
<1>2. ASSUME NEW t \in Threads, NEW v \in Devices, NEW p \in PhysDevs, NEW c \in Customs,
             Contract!FinishCreateDevice(t, v, p, c)
      PROVE  ContractInv'
  BY <1>2, NoneIsNothing, KindsDiffer DEF ContractInv, Contract!TypeOK,
     Contract!Consistent, Contract!FinishCreateDevice, Contract!Finish
<1>3. ASSUME NEW v \in Devices, Contract!DestroyDevice(v)
      PROVE  ContractInv'
  BY <1>3, KindsDiffer DEF ContractInv, Contract!TypeOK, Contract!Consistent,
     Contract!DestroyDevice, Contract!Quiet
<1> QED
  BY <1>1, <1>2, <1>3

\* What a caller may rely on follows from the contract alone: an object goes only
\* after what was made from it, and not while a call on it is served by its info.
THEOREM ContractPromises == Contract!Spec => []Contract!Consistent
<1>1. Contract!Init => ContractInv
  BY DEF Contract!Init, ContractInv, Contract!TypeOK, Contract!Consistent
<1>2. ContractInv /\ [Contract!Next]_(Contract!cvars) => ContractInv'
  <2>1. ASSUME ContractInv, Contract!Next PROVE ContractInv'
    BY <2>1, ContractInstances, ContractServes, ContractObjects DEF Contract!Next
  <2>2. ASSUME ContractInv, UNCHANGED Contract!cvars PROVE ContractInv'
    BY <2>2 DEF ContractInv, Contract!cvars, Contract!TypeOK, Contract!Consistent
  <2> QED
    BY <2>1, <2>2
<1>3. ContractInv => Contract!Consistent
  BY DEF ContractInv
<1> QED
  BY <1>1, <1>2, <1>3, PTL DEF Contract!Spec

\* So the callers of the registry may rely on it.
THEOREM AlwaysConsistent == Spec => []Contract!Consistent
BY Implements, ContractPromises, PTL DEF ImplementsContract
==============================================================================
