------------------------------ MODULE Registry ------------------------------
(***************************************************************************)
(* The three maps of Global<T> (vulkan-layer/src/lib.rs) and the handlers  *)
(* that read and write them, called by several application threads.       *)
(*                                                                         *)
(*   instance_map         dispatch key of an instance -> its info          *)
(*   physical_device_map  physical device -> the instance that owns it     *)
(*   device_map           dispatch key of a device -> its info             *)
(*                                                                         *)
(* Each map is a LazyCollection behind its own Mutex. An action is what a  *)
(* thread does between two points where another thread can be seen to     *)
(* intervene: one critical section, or one call into the next layer. The   *)
(* next layer (or the loader) allocates handles and dispatch keys, and may *)
(* hand out a value again as soon as the object that had it is destroyed.  *)
(*                                                                         *)
(* The application obeys the valid usage of Vulkan: it uses a handle only  *)
(* after it was returned and before it gives it up, and it gives an object *)
(* up only when nothing made from it is left and no other call uses it.    *)
(***************************************************************************)

CONSTANTS
  Threads,    \* application threads
  Instances,  \* VkInstance handles the next layer can return
  Keys,       \* dispatch keys, the first word an instance handle points to
  PhysDevs,   \* VkPhysicalDevice handles
  Devices,    \* VkDevice handles, each with the dispatch key it points to
  Customs,    \* what a layer's create_instance_info, create_device_info return
  None        \* no object, no owner, a free lock

Mutexes == {"inst", "pd", "dev"}

\* InstanceInfoWrapper: the handle its dispatch table was loaded for, and the
\* layer's own part.
InstInfo == [inst : Instances, custom : Customs]

ASSUME NoneIsNothing ==
  None \notin Threads \cup Instances \cup Keys \cup PhysDevs \cup Devices
                \cup Customs \cup InstInfo

\* The handles are of two types, and the records of the contract are not None.
ASSUME KindsDiffer ==
  /\ Instances \cap Devices = {}
  /\ None \notin [obj : Instances \cup Devices, custom : Customs]
  /\ None \notin [pd : PhysDevs, custom : Customs]

VARIABLES
  instMap,     \* instance_map
  pdMap,       \* physical_device_map (owner_instance)
  devMap,      \* device_map
  alloc,       \* which collections have their OnceCell set
  lock,        \* the thread in each Mutex, when a section spans two steps
  pc,          \* where each thread is; "idle" outside the layer
  frame,       \* the locals of each thread's call
  health,      \* "aborted" once a handler panicked
  instKey,     \* next layer: the dispatch key of each live instance
  pdOwner,     \* next layer: the instance of each live physical device
  devPd,       \* next layer: the physical device of each live device
  instCustom,  \* history: what create_instance_info returned for it
  devCustom,   \* history: what create_device_info returned for it
  appInst,     \* the instances the application may use
  appPd,       \* the physical devices it was told of
  appDev       \* the devices it may use

maps == <<instMap, pdMap, devMap, alloc>>
nextVars == <<instKey, pdOwner, devPd, instCustom, devCustom>>
appVars == <<appInst, appPd, appDev>>
vars == <<maps, lock, pc, frame, health, nextVars, appVars>>

Option(S) == S \cup {None}

Frame == [inst : Option(Instances), pd : Option(PhysDevs), dev : Option(Devices),
          info : Option(InstInfo), custom : Option(Customs),
          todo : SUBSET PhysDevs, got : SUBSET PhysDevs]

NoFrame == [inst |-> None, pd |-> None, dev |-> None, info |-> None,
            custom |-> None, todo |-> {}, got |-> {}]

Labels == {"idle",
           "ci_next", "ci_lock", "ci_insert",              \* create_instance
           "di_remove", "di_purge", "di_next",             \* destroy_instance
           "ep_get", "ep_next", "ep_each", "ep_insert",    \* enumerate_*
           "cd_pd", "cd_inst", "cd_next", "cd_lock", "cd_insert",
           "dd_remove", "dd_next",                         \* destroy_device
           "xp_pd", "xp_inst", "xp_next",                  \* device extensions
           "ic_get", "ic_next", "dc_get", "dc_next"}       \* other commands

TypeOK ==
  /\ instMap \in [Keys -> Option(InstInfo)]
  /\ pdMap \in [PhysDevs -> Option(Instances)]
  /\ devMap \in [Devices -> Option(Customs)]
  /\ alloc \in SUBSET Mutexes
  /\ lock \in [Mutexes -> Option(Threads)]
  /\ pc \in [Threads -> Labels]
  /\ frame \in [Threads -> Frame]
  /\ health \in {"running", "aborted"}
  /\ instKey \in [Instances -> Option(Keys)]
  /\ pdOwner \in [PhysDevs -> Option(Instances)]
  /\ devPd \in [Devices -> Option(PhysDevs)]
  /\ instCustom \in [Instances -> Option(Customs)]
  /\ devCustom \in [Devices -> Option(Customs)]
  /\ appInst \in SUBSET Instances
  /\ appPd \in SUBSET PhysDevs
  /\ appDev \in SUBSET Devices

Init ==
  /\ instMap = [k \in Keys |-> None]
  /\ pdMap = [p \in PhysDevs |-> None]
  /\ devMap = [v \in Devices |-> None]
  /\ alloc = {}
  /\ lock = [m \in Mutexes |-> None]
  /\ pc = [t \in Threads |-> "idle"]
  /\ frame = [t \in Threads |-> NoFrame]
  /\ health = "running"
  /\ instKey = [i \in Instances |-> None]
  /\ pdOwner = [p \in PhysDevs |-> None]
  /\ devPd = [v \in Devices |-> None]
  /\ instCustom = [i \in Instances |-> None]
  /\ devCustom = [v \in Devices |-> None]
  /\ appInst = {}
  /\ appPd = {}
  /\ appDev = {}

-----------------------------------------------------------------------------
(* Control of a thread, and the pieces the handlers share.                 *)

Call(t, label, locals) ==
  /\ pc[t] = "idle"
  /\ pc' = [pc EXCEPT ![t] = label]
  /\ frame' = [frame EXCEPT ![t] = locals]

Goto(t, label) == pc' = [pc EXCEPT ![t] = label]

Return(t) ==
  /\ pc' = [pc EXCEPT ![t] = "idle"]
  /\ frame' = [frame EXCEPT ![t] = NoFrame]

\* An unwrap, expect or assert: the handlers are extern "system" functions, so
\* a panic in one ends the process.
Require(condition) == health' = IF condition THEN "running" ELSE "aborted"

Free(m) == lock[m] = None

\* Mutant: the drop leaves an empty collection in place.
DropRefMutKeepsEmpty(m, map) == alloc' = alloc \cup {m}

\* CollectionRefMut's drop takes the collection out when it is empty.
DropRefMut(m, map) ==
  alloc' = IF \E x \in DOMAIN map : map[x] # None
             THEN alloc \cup {m} ELSE alloc \ {m}

\* get_mut_or_default: the collection exists while the reference does.
GetMutOrDefault(m) == alloc' = alloc \cup {m}

\* get_instance_info: the key is read through the handle; the handle of a
\* dead instance reads as no key.
GetInstanceInfo(i) ==
  IF i \in Instances /\ instKey[i] # None THEN instMap[instKey[i]] ELSE None

\* Arc::try_unwrap succeeds when no other thread holds a clone.
SoleOwner(t, info) == \A u \in Threads \ {t} : frame[u].info # info

\* Whether a call in flight uses an instance, by its handle or through one of
\* its physical devices.
UsesInstance(u, i) ==
  \/ frame[u].inst = i
  \/ frame[u].pd # None /\ pdOwner[frame[u].pd] = i

-----------------------------------------------------------------------------
(* create_instance                                                         *)

CreateInstance(t) ==
  /\ Call(t, "ci_next", NoFrame)
  /\ UNCHANGED <<maps, lock, health, nextVars, appVars>>

\* Mutant: an error return after the next layer created the instance.
RefuseInstanceLate(t) ==
  /\ pc[t] \in {"ci_next", "ci_lock"}
  /\ Return(t)
  /\ UNCHANGED <<maps, lock, health, nextVars, appVars>>

\* No VkLayerInstanceCreateInfo with the link, Handled(Err(e)) from the hook,
\* or an error from the next layer.
RefuseInstance(t) ==
  /\ pc[t] = "ci_next"
  /\ Return(t)
  /\ UNCHANGED <<maps, lock, health, nextVars, appVars>>

\* The next layer (or the layer's hook) creates the instance and its physical
\* devices, and the layer computes its customized info.
NextCreateInstance(t) ==
  /\ pc[t] = "ci_next"
  /\ \E i \in Instances, k \in Keys, c \in Customs, P \in SUBSET PhysDevs :
       /\ instKey[i] = None
       /\ \A j \in Instances : instKey[j] # k
       /\ \A p \in P : pdOwner[p] = None
       /\ instKey' = [instKey EXCEPT ![i] = k]
       /\ instCustom' = [instCustom EXCEPT ![i] = c]
       /\ pdOwner' = [p \in PhysDevs |-> IF p \in P THEN i ELSE pdOwner[p]]
       /\ frame' = [frame EXCEPT ![t] =
            [NoFrame EXCEPT !.inst = i, !.info = [inst |-> i, custom |-> c]]]
  /\ Goto(t, "ci_lock")
  /\ UNCHANGED <<maps, lock, health, devPd, devCustom, appVars>>

\* The duplicate check returns ERROR_INITIALIZATION_FAILED and drops the new
\* instance; otherwise the lock is kept while the dispatch table is loaded.
LockInstanceMap(t) ==
  /\ pc[t] = "ci_lock"
  /\ Free("inst")
  /\ IF instMap[instKey[frame[t].inst]] # None
       THEN Return(t) /\ UNCHANGED <<lock, alloc>>
       ELSE /\ lock' = [lock EXCEPT !["inst"] = t]
            /\ GetMutOrDefault("inst")
            /\ Goto(t, "ci_insert")
            /\ UNCHANGED frame
  /\ UNCHANGED <<instMap, pdMap, devMap, health, nextVars, appVars>>

RegisterInstance(t) ==
  /\ pc[t] = "ci_insert"
  /\ instMap' = [instMap EXCEPT ![instKey[frame[t].inst]] = frame[t].info]
  /\ lock' = [lock EXCEPT !["inst"] = None]
  /\ appInst' = appInst \cup {frame[t].inst}
  /\ Return(t)
  /\ UNCHANGED <<pdMap, devMap, alloc, health, nextVars, appPd, appDev>>

-----------------------------------------------------------------------------
(* destroy_instance                                                        *)

\* External synchronization of vkDestroyInstance: no call uses the instance
\* or its physical devices, and no device of it is left.
DestroyInstance(t, i) ==
  /\ i \in appInst
  /\ \A u \in Threads : ~ UsesInstance(u, i)
  /\ \A v \in Devices : devPd[v] # None => pdOwner[devPd[v]] # i
  /\ Call(t, "di_remove", [NoFrame EXCEPT !.inst = i])
  /\ appInst' = appInst \ {i}
  /\ appPd' = {p \in appPd : pdOwner[p] # i}
  /\ UNCHANGED <<maps, lock, health, nextVars, appDev>>

\* Mutant: the info is fetched and its entry left in the map.
RemoveInstanceGetsOnly(t) ==
  LET info == GetInstanceInfo(frame[t].inst) IN
  /\ pc[t] = "di_remove"
  /\ Free("inst")
  /\ Require(info # None /\ SoleOwner(t, info))
  /\ frame' = [frame EXCEPT ![t].info = info]
  /\ Goto(t, "di_purge")
  /\ UNCHANGED <<maps, lock, nextVars, appVars>>

\* Mutant: the guard of instance_map is bound to a variable, and kept.
RemoveInstanceKeepsGuard(t) ==
  LET info == GetInstanceInfo(frame[t].inst) IN
  /\ pc[t] = "di_remove"
  /\ Free("inst")
  /\ instMap' = [instMap EXCEPT ![instKey[frame[t].inst]] = None]
  /\ DropRefMut("inst", instMap')
  /\ lock' = [lock EXCEPT !["inst"] = t]
  /\ Require(info # None /\ SoleOwner(t, info))
  /\ frame' = [frame EXCEPT ![t].info = info]
  /\ Goto(t, "di_purge")
  /\ UNCHANGED <<pdMap, devMap, nextVars, appVars>>

RemoveInstance(t) ==
  LET info == GetInstanceInfo(frame[t].inst) IN
  /\ pc[t] = "di_remove"
  /\ Free("inst")
  /\ instMap' = [instMap EXCEPT ![instKey[frame[t].inst]] = None]
  /\ DropRefMut("inst", instMap')
  /\ Require(info # None /\ SoleOwner(t, info))
  /\ frame' = [frame EXCEPT ![t].info = info]
  /\ Goto(t, "di_purge")
  /\ UNCHANGED <<pdMap, devMap, lock, nextVars, appVars>>

\* Mutant: the physical devices of the instance stay registered.
PurgeNothing(t) ==
  /\ pc[t] = "di_purge"
  /\ Free("pd")
  /\ Goto(t, "di_next")
  /\ UNCHANGED <<maps, lock, frame, health, nextVars, appVars>>

\* Mutant: retain keeps what it should drop.
PurgeOthers(t) ==
  /\ pc[t] = "di_purge"
  /\ Free("pd")
  /\ pdMap' = [p \in PhysDevs |->
                 IF pdMap[p] = frame[t].inst THEN pdMap[p] ELSE None]
  /\ DropRefMut("pd", pdMap')
  /\ Goto(t, "di_next")
  /\ UNCHANGED <<instMap, devMap, lock, frame, health, nextVars, appVars>>

PurgePhysicalDevices(t) ==
  /\ pc[t] = "di_purge"
  /\ Free("pd")
  /\ pdMap' = [p \in PhysDevs |->
                 IF pdMap[p] = frame[t].inst THEN None ELSE pdMap[p]]
  /\ DropRefMut("pd", pdMap')
  /\ Goto(t, "di_next")
  /\ UNCHANGED <<instMap, devMap, lock, frame, health, nextVars, appVars>>

\* The next layer frees the handle, the key and the physical devices.
NextDestroyInstance(t) ==
  LET i == frame[t].inst IN
  /\ pc[t] = "di_next"
  /\ instKey' = [instKey EXCEPT ![i] = None]
  /\ instCustom' = [instCustom EXCEPT ![i] = None]
  /\ pdOwner' = [p \in PhysDevs |-> IF pdOwner[p] = i THEN None ELSE pdOwner[p]]
  /\ Return(t)
  /\ UNCHANGED <<maps, lock, health, devPd, devCustom, appVars>>

-----------------------------------------------------------------------------
(* enumerate_physical_devices, enumerate_physical_device_groups            *)

EnumeratePhysicalDevices(t, i) ==
  /\ i \in appInst
  /\ Call(t, "ep_get", [NoFrame EXCEPT !.inst = i])
  /\ UNCHANGED <<maps, lock, health, nextVars, appVars>>

\* Mutant: the info of some registered instance, as a layer that expects a
\* single instance would take.
LookupAnyInstance(t, from, to) ==
  /\ pc[t] = from
  /\ Free("inst")
  /\ \E k \in Keys :
       /\ instMap[k] # None
       /\ frame' = [frame EXCEPT ![t].info = instMap[k]]
  /\ Goto(t, to)
  /\ UNCHANGED <<maps, lock, health, nextVars, appVars>>

\* get_instance_info(..).expect(..), by commands whose instance is known.
LookupInstance(t, from, to) ==
  LET info == GetInstanceInfo(frame[t].inst) IN
  /\ pc[t] = from
  /\ Free("inst")
  /\ Require(info # None)
  /\ frame' = [frame EXCEPT ![t].info = info]
  /\ Goto(t, to)
  /\ UNCHANGED <<maps, lock, nextVars, appVars>>

\* An error, or a query of the count alone.
EnumerateNothing(t) ==
  /\ pc[t] = "ep_next"
  /\ Return(t)
  /\ UNCHANGED <<maps, lock, health, nextVars, appVars>>

\* SUCCESS, or INCOMPLETE when the array was too short for all of them.
NextEnumerate(t) ==
  /\ pc[t] = "ep_next"
  /\ \E P \in SUBSET {p \in PhysDevs : pdOwner[p] = frame[t].inst} :
       frame' = [frame EXCEPT ![t].todo = P, ![t].got = P]
  /\ Goto(t, "ep_each")
  /\ UNCHANGED <<maps, lock, health, nextVars, appVars>>

\* One iteration of create_physical_device_infos: a device that is known must
\* have this owner, and one that is not is inserted under the same lock.
CheckPhysicalDevice(t) ==
  /\ pc[t] = "ep_each"
  /\ Free("pd")
  /\ \E p \in frame[t].todo :
       IF pdMap[p] # None
         THEN /\ Require(pdMap[p] = frame[t].inst)
              /\ frame' = [frame EXCEPT ![t].todo = @ \ {p}]
              /\ UNCHANGED <<alloc, lock, pc>>
         ELSE /\ lock' = [lock EXCEPT !["pd"] = t]
              /\ GetMutOrDefault("pd")
              /\ frame' = [frame EXCEPT ![t].pd = p]
              /\ Goto(t, "ep_insert")
              /\ UNCHANGED health
  /\ UNCHANGED <<instMap, pdMap, devMap, nextVars, appVars>>

\* get_instance_info takes the second lock; the properties come from the next
\* layer while both are needed.
RegisterPhysicalDevice(t) ==
  LET p == frame[t].pd IN
  /\ pc[t] = "ep_insert"
  /\ Free("inst")
  /\ Require(GetInstanceInfo(frame[t].inst) # None)
  /\ pdMap' = [pdMap EXCEPT ![p] = frame[t].inst]
  /\ lock' = [lock EXCEPT !["pd"] = None]
  /\ frame' = [frame EXCEPT ![t].todo = @ \ {p}, ![t].pd = None]
  /\ Goto(t, "ep_each")
  /\ UNCHANGED <<instMap, devMap, alloc, nextVars, appVars>>

\* Mutant: the array is returned before all of it is registered.
EnumerateReturnEarly(t) ==
  /\ pc[t] = "ep_each"
  /\ appPd' = appPd \cup frame[t].got
  /\ Return(t)
  /\ UNCHANGED <<maps, lock, health, nextVars, appInst, appDev>>

EnumerateReturn(t) ==
  /\ pc[t] = "ep_each"
  /\ frame[t].todo = {}
  /\ appPd' = appPd \cup frame[t].got
  /\ Return(t)
  /\ UNCHANGED <<maps, lock, health, nextVars, appInst, appDev>>

-----------------------------------------------------------------------------
(* create_device and destroy_device                                        *)

CreateDevice(t, p) ==
  /\ p \in appPd
  /\ Call(t, "cd_pd", [NoFrame EXCEPT !.pd = p])
  /\ UNCHANGED <<maps, lock, health, nextVars, appVars>>

\* get_physical_info(..).expect(..): the owner is all that is kept of it.
LookupPhysicalDevice(t, from, to) ==
  /\ pc[t] = from
  /\ Free("pd")
  /\ Require(pdMap[frame[t].pd] # None)
  /\ frame' = [frame EXCEPT ![t].inst = pdMap[frame[t].pd]]
  /\ Goto(t, to)
  /\ UNCHANGED <<maps, lock, nextVars, appVars>>

\* No link in the chain (before the lookups), Handled(Err(e)) from the hook,
\* or an error from the next layer.
RefuseDevice(t) ==
  /\ pc[t] \in {"cd_pd", "cd_next"}
  /\ Return(t)
  /\ UNCHANGED <<maps, lock, health, nextVars, appVars>>

NextCreateDevice(t) ==
  /\ pc[t] = "cd_next"
  /\ \E v \in Devices, c \in Customs :
       /\ devPd[v] = None
       /\ devPd' = [devPd EXCEPT ![v] = frame[t].pd]
       /\ devCustom' = [devCustom EXCEPT ![v] = c]
       /\ frame' = [frame EXCEPT ![t].dev = v, ![t].custom = c]
  /\ Goto(t, "cd_lock")
  /\ UNCHANGED <<maps, lock, health, instKey, pdOwner, instCustom, appVars>>

\* assert!(!device_map.contains_key(..)), and the lock is kept.
LockDeviceMap(t) ==
  /\ pc[t] = "cd_lock"
  /\ Free("dev")
  /\ Require(devMap[frame[t].dev] = None)
  /\ lock' = [lock EXCEPT !["dev"] = t]
  /\ GetMutOrDefault("dev")
  /\ Goto(t, "cd_insert")
  /\ UNCHANGED <<instMap, pdMap, devMap, frame, nextVars, appVars>>

RegisterDevice(t) ==
  /\ pc[t] = "cd_insert"
  /\ devMap' = [devMap EXCEPT ![frame[t].dev] = frame[t].custom]
  /\ lock' = [lock EXCEPT !["dev"] = None]
  /\ appDev' = appDev \cup {frame[t].dev}
  /\ Return(t)
  /\ UNCHANGED <<instMap, pdMap, alloc, health, nextVars, appInst, appPd>>

\* External synchronization of vkDestroyDevice.
DestroyDevice(t, v) ==
  /\ v \in appDev
  /\ \A u \in Threads : frame[u].dev # v
  /\ Call(t, "dd_remove", [NoFrame EXCEPT !.dev = v])
  /\ appDev' = appDev \ {v}
  /\ UNCHANGED <<maps, lock, health, nextVars, appInst, appPd>>

RemoveDevice(t) ==
  LET v == frame[t].dev IN
  /\ pc[t] = "dd_remove"
  /\ Free("dev")
  /\ devMap' = [devMap EXCEPT ![v] = None]
  /\ DropRefMut("dev", devMap')
  /\ Require(devMap[v] # None /\
             \A u \in Threads \ {t} : ~ (frame[u].dev = v /\ frame[u].custom # None))
  /\ frame' = [frame EXCEPT ![t].custom = devMap[v]]
  /\ Goto(t, "dd_next")
  /\ UNCHANGED <<instMap, pdMap, lock, nextVars, appVars>>

NextDestroyDevice(t) ==
  /\ pc[t] = "dd_next"
  /\ devPd' = [devPd EXCEPT ![frame[t].dev] = None]
  /\ devCustom' = [devCustom EXCEPT ![frame[t].dev] = None]
  /\ Return(t)
  /\ UNCHANGED <<maps, lock, health, instKey, pdOwner, instCustom, appVars>>

-----------------------------------------------------------------------------
(* The other commands: they find the info of their first argument by its   *)
(* dispatch key, run its hook or the next layer, and return.               *)

InstanceCommand(t, i) ==
  /\ i \in appInst
  /\ Call(t, "ic_get", [NoFrame EXCEPT !.inst = i])
  /\ UNCHANGED <<maps, lock, health, nextVars, appVars>>

\* A physical device carries the dispatch key of its instance.
PhysicalDeviceCommand(t, p) ==
  /\ p \in appPd
  /\ Call(t, "ic_get", [NoFrame EXCEPT !.pd = p, !.inst = pdOwner[p]])
  /\ UNCHANGED <<maps, lock, health, nextVars, appVars>>

\* vkEnumerateDeviceExtensionProperties of another layer goes by the owner.
EnumerateDeviceExtensions(t, p) ==
  /\ p \in appPd
  /\ Call(t, "xp_pd", [NoFrame EXCEPT !.pd = p])
  /\ UNCHANGED <<maps, lock, health, nextVars, appVars>>

DeviceCommand(t, v) ==
  /\ v \in appDev
  /\ Call(t, "dc_get", [NoFrame EXCEPT !.dev = v])
  /\ UNCHANGED <<maps, lock, health, nextVars, appVars>>

LookupDevice(t) ==
  /\ pc[t] = "dc_get"
  /\ Free("dev")
  /\ Require(devMap[frame[t].dev] # None)
  /\ frame' = [frame EXCEPT ![t].custom = devMap[frame[t].dev]]
  /\ Goto(t, "dc_next")
  /\ UNCHANGED <<maps, lock, nextVars, appVars>>

CommandReturn(t) ==
  /\ pc[t] \in {"ic_next", "dc_next", "xp_next"}
  /\ Return(t)
  /\ UNCHANGED <<maps, lock, health, nextVars, appVars>>

-----------------------------------------------------------------------------

\* What the application starts.
Begin(t) ==
  \/ CreateInstance(t)
  \/ \E i \in Instances : \/ DestroyInstance(t, i)
                          \/ EnumeratePhysicalDevices(t, i)
                          \/ InstanceCommand(t, i)
  \/ \E p \in PhysDevs : \/ CreateDevice(t, p)
                         \/ PhysicalDeviceCommand(t, p)
                         \/ EnumerateDeviceExtensions(t, p)
  \/ \E v \in Devices : DestroyDevice(t, v) \/ DeviceCommand(t, v)

\* What a handler does once it was called.
Step(t) ==
  \/ RefuseInstance(t) \/ NextCreateInstance(t)
  \/ LockInstanceMap(t) \/ RegisterInstance(t)
  \/ RemoveInstance(t) \/ PurgePhysicalDevices(t) \/ NextDestroyInstance(t)
  \/ LookupInstance(t, "ep_get", "ep_next")
  \/ EnumerateNothing(t) \/ NextEnumerate(t)
  \/ CheckPhysicalDevice(t) \/ RegisterPhysicalDevice(t) \/ EnumerateReturn(t)
  \/ LookupPhysicalDevice(t, "cd_pd", "cd_inst")
  \/ LookupInstance(t, "cd_inst", "cd_next")
  \/ RefuseDevice(t) \/ NextCreateDevice(t)
  \/ LockDeviceMap(t) \/ RegisterDevice(t)
  \/ RemoveDevice(t) \/ NextDestroyDevice(t)
  \/ LookupPhysicalDevice(t, "xp_pd", "xp_inst")
  \/ LookupInstance(t, "xp_inst", "xp_next")
  \/ LookupInstance(t, "ic_get", "ic_next")
  \/ LookupDevice(t) \/ CommandReturn(t)

Next == health = "running" /\ \E t \in Threads : Begin(t) \/ Step(t)

Spec == Init /\ [][Next]_vars

\* A thread inside the layer is scheduled, and the next layer and the hooks
\* return; nothing is assumed of the application, nor of the order in which
\* the mutexes are granted.
Fairness == \A t \in Threads : WF_vars(health = "running" /\ Step(t))

FairSpec == Spec /\ Fairness

-----------------------------------------------------------------------------
(* What is correct.                                                        *)

\* No unwrap, expect, assert or Arc::try_unwrap of a handler fails while the
\* application keeps to the valid usage.
NoPanic == health = "running"

\* The handles the application holds are found in the maps, with the info
\* made for this very object and never for a former one with the same handle
\* or the same key.
HandlesResolve ==
  /\ \A i \in appInst :
       GetInstanceInfo(i) = [inst |-> i, custom |-> instCustom[i]]
  /\ \A p \in appPd : pdMap[p] = pdOwner[p] /\ pdOwner[p] \in appInst
  /\ \A v \in appDev : devMap[v] = devCustom[v] /\ devPd[v] \in appPd

\* Nothing in the maps outlives the object in the next layer, so a handle or
\* key handed out again never meets an entry of its former holder.
NoStaleEntry ==
  /\ \A k \in Keys : instMap[k] # None => instKey[instMap[k].inst] = k
  /\ \A p \in PhysDevs : pdMap[p] # None => pdMap[p] = pdOwner[p]
  /\ \A v \in Devices : devMap[v] # None => devPd[v] # None

\* Every object of the next layer is with the application or with a call in
\* flight: no error path forgets one.
NothingLost ==
  /\ \A i \in Instances : instKey[i] # None =>
       i \in appInst \/ \E t \in Threads : frame[t].inst = i
  /\ \A v \in Devices : devPd[v] # None =>
       v \in appDev \/ \E t \in Threads : frame[t].dev = v

\* With nothing alive and no call in flight, no collection is allocated: the
\* drop of Global is then a no-op.
TriviallyDestructible ==
  (appInst = {} /\ \A t \in Threads : pc[t] = "idle")
    => alloc = {}

\* A handler works on the info of the object it was called with, for as long
\* as it holds it.
InfoIsOwn ==
  \A t \in Threads :
    /\ frame[t].info # None =>
         LET i == frame[t].inst IN
         frame[t].info = [inst |-> i, custom |-> instCustom[i]]
    /\ frame[t].custom # None => frame[t].custom = devCustom[frame[t].dev]

\* The mutex a thread has to take for its next step.
Wants(t) ==
  CASE pc[t] \in {"ci_lock", "di_remove", "ep_get", "ep_insert", "cd_inst", "xp_inst",
                  "ic_get"} -> "inst"
    [] pc[t] \in {"di_purge", "cd_pd", "xp_pd"} -> "pd"
    [] pc[t] = "ep_each" /\ frame[t].todo # {} -> "pd"
    [] pc[t] \in {"cd_lock", "dd_remove", "dc_get"} -> "dev"
    [] OTHER -> "none"

Waits(t) == Wants(t) # "none" /\ ~ Free(Wants(t))

\* No cycle of waits: a thread waits for one that runs, or for one that waits for
\* one that runs, which is an enumeration that registers a device while an instance
\* is being created.
NoWaitCycle ==
  \A t \in Threads : Waits(t) =>
    LET u == lock[Wants(t)] IN Waits(u) => ~ Waits(lock[Wants(u)])

\* The registry as its callers see it: what each handle they hold resolves to
\* through the maps, and the info each call in flight was given.
SeenInstance(i) ==
  LET info == GetInstanceInfo(i) IN
  IF i \in appInst /\ info # None /\ info.inst = i THEN info.custom ELSE None

SeenPhysicalDevice(p) == IF p \in appPd THEN pdMap[p] ELSE None

SeenDevice(v) ==
  IF v \in appDev /\ devMap[v] # None
    THEN [pd |-> devPd[v], custom |-> devMap[v]] ELSE None

\* Where a call works for an instance: after the look-up, until it returns.
OnInstance == {"ep_next", "ep_each", "ep_insert", "cd_next", "cd_lock", "cd_insert",
               "xp_next", "ic_next"}

Served(t) ==
  IF pc[t] \in OnInstance /\ frame[t].info # None
    THEN [obj |-> frame[t].inst, custom |-> frame[t].info.custom]
  ELSE IF pc[t] = "dc_next" /\ frame[t].custom # None
    THEN [obj |-> frame[t].dev, custom |-> frame[t].custom]
  ELSE None

Insts == [i \in Instances |-> SeenInstance(i)]
Pds == [p \in PhysDevs |-> SeenPhysicalDevice(p)]
Devs == [v \in Devices |-> SeenDevice(v)]
Calls == [t \in Threads |-> Served(t)]

Contract == INSTANCE LayerContract WITH
  insts <- Insts, pds <- Pds, devs <- Devs, calls <- Calls

\* The handlers and their locks implement the contract.
ImplementsContract == Contract!Spec

\* Once the application starts no more calls, every call returns: no cycle of
\* locks, and no lock kept.
EveryCallReturns ==
  \/ []<><<\E t \in Threads : Begin(t)>>_vars
  \/ \A t \in Threads : pc[t] # "idle" ~> pc[t] = "idle"
=============================================================================
