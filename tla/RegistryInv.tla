---------------------------- MODULE RegistryInv -----------------------------
(* The inductive invariant of Registry: why its properties hold.           *)
EXTENDS Registry

CreatingInstance == {"ci_lock", "ci_insert"}
DestroyingInstance == {"di_remove", "di_purge", "di_next"}
Enumerating == {"ep_next", "ep_each", "ep_insert"}
OfPhysDev == {"cd_pd", "cd_inst", "cd_next", "cd_lock", "cd_insert",
              "xp_pd", "xp_inst", "xp_next"}
OfInstance == Enumerating \cup (OfPhysDev \ {"cd_pd", "xp_pd"})
                \cup {"ep_get", "ic_get", "ic_next"}
CreatingDevice == {"cd_lock", "cd_insert"}
DestroyingDevice == {"dd_remove", "dd_next"}

\* Where a thread owns an object that is in nobody else's hands, or a lock.
Owning == CreatingInstance \cup DestroyingInstance \cup CreatingDevice
            \cup DestroyingDevice \cup {"ep_insert"}

\* Live instances have distinct keys.
KeysDistinct ==
  /\ \A i, j \in Instances :
       instKey[i] # None /\ instKey[i] = instKey[j] => i = j
  /\ \A i \in Instances : instKey[i] # None <=> instCustom[i] # None

\* An entry of instance_map is the info of its key's instance, which the
\* application holds or a destroy_instance is about to remove.
InstancesRegistered ==
  /\ \A k \in Keys : instMap[k] # None =>
       /\ instKey[instMap[k].inst] = k
       /\ instMap[k].custom = instCustom[instMap[k].inst]
       /\ \/ instMap[k].inst \in appInst
          \/ \E t \in Threads : pc[t] = "di_remove" /\ frame[t].inst = instMap[k].inst
  /\ \A i \in appInst :
       /\ instKey[i] # None
       /\ instMap[instKey[i]] = [inst |-> i, custom |-> instCustom[i]]

PhysicalDevicesRegistered ==
  /\ \A p \in PhysDevs : pdOwner[p] # None => instKey[pdOwner[p]] # None
  /\ \A p \in PhysDevs : pdMap[p] # None =>
       /\ pdMap[p] = pdOwner[p]
       /\ \/ pdMap[p] \in appInst
          \/ \E t \in Threads : pc[t] \in {"di_remove", "di_purge"} /\ frame[t].inst = pdMap[p]
  /\ \A p \in appPd : pdMap[p] = pdOwner[p] /\ pdOwner[p] \in appInst

DevicesRegistered ==
  /\ \A v \in Devices : devPd[v] # None =>
       devPd[v] \in appPd /\ devCustom[v] # None
  /\ \A v \in Devices : devMap[v] # None =>
       /\ devPd[v] # None /\ devMap[v] = devCustom[v]
       /\ \/ v \in appDev
          \/ \E t \in Threads : pc[t] = "dd_remove" /\ frame[t].dev = v
  /\ \A v \in appDev : devPd[v] # None /\ devMap[v] = devCustom[v]

\* What the locals of a call are, by the point it has reached.
FrameOK(t) ==
  LET f == frame[t] IN
  /\ f.inst # None => instKey[f.inst] # None
  /\ f.pd # None => pdOwner[f.pd] # None
  /\ f.dev # None => devPd[f.dev] # None
  /\ f.info # None => f.inst # None /\
       f.info = [inst |-> f.inst, custom |-> instCustom[f.inst]]
  /\ f.custom # None => f.dev # None /\ f.custom = devCustom[f.dev]
  /\ pc[t] \in {"idle", "ci_next"} => f = NoFrame
  /\ pc[t] \notin Owning => /\ f.inst \in Option(appInst)
                            /\ f.pd \in Option(appPd)
                            /\ f.dev \in Option(appDev)
  /\ pc[t] \in CreatingInstance \cup DestroyingInstance =>
       f.pd = None /\ f.dev = None
  /\ pc[t] \in DestroyingDevice => f.inst = None /\ f.pd = None
  /\ pc[t] \in CreatingInstance =>
       /\ f.inst # None /\ f.inst \notin appInst /\ f.info # None
  /\ pc[t] \in DestroyingInstance => f.inst # None /\ f.inst \notin appInst
  /\ pc[t] = "di_remove" => instMap[instKey[f.inst]] =
                              [inst |-> f.inst, custom |-> instCustom[f.inst]]
  /\ pc[t] \in OfInstance => f.inst \in appInst
  /\ pc[t] \in OfPhysDev => f.pd \in appPd
  /\ pc[t] \in OfPhysDev \ {"cd_pd", "xp_pd"} => f.inst = pdOwner[f.pd]
  /\ pc[t] \in {"cd_pd", "xp_pd"} => f.inst = None
  /\ pc[t] \in {"ep_get", "ep_next"} => f.todo = {} /\ f.got = {}
  /\ pc[t] \in Enumerating =>
       /\ f.todo \subseteq f.got
       /\ \A p \in f.got : pdOwner[p] = f.inst
       /\ \A p \in f.got \ f.todo : pdMap[p] = f.inst
  /\ pc[t] = "ep_insert" =>
       f.pd \in f.todo /\ pdMap[f.pd] = None /\ f.dev \in Option(appDev)
  /\ pc[t] \in CreatingDevice \cup DestroyingDevice =>
       f.dev # None /\ f.dev \notin appDev
  /\ pc[t] \in CreatingDevice => f.custom # None
  /\ pc[t] = "dd_remove" => devMap[f.dev] # None
  /\ pc[t] \in {"dc_get", "dc_next"} => f.dev \in appDev

FramesOK == \A t \in Threads : FrameOK(t)

\* An object being created or destroyed is in no other call.
Exclusive ==
  \A t, u \in Threads : t # u =>
    /\ pc[t] \in CreatingInstance \cup DestroyingInstance =>
         ~ UsesInstance(u, frame[t].inst)
    /\ pc[t] \in CreatingDevice \cup DestroyingDevice =>
         frame[u].dev # frame[t].dev

LocksHeld ==
  \A t \in Threads :
    /\ lock["inst"] = t <=> pc[t] = "ci_insert"
    /\ lock["pd"] = t <=> pc[t] = "ep_insert"
    /\ lock["dev"] = t <=> pc[t] = "cd_insert"

\* A collection is allocated when it has an entry or is being written.
AllocatedWhenUsed ==
  /\ "inst" \in alloc <=> ~ Free("inst") \/ \E k \in Keys : instMap[k] # None
  /\ "pd" \in alloc <=> ~ Free("pd") \/ \E p \in PhysDevs : pdMap[p] # None
  /\ "dev" \in alloc <=> ~ Free("dev") \/ \E v \in Devices : devMap[v] # None

IInv ==
  /\ TypeOK /\ NoPanic /\ KeysDistinct /\ InstancesRegistered
  /\ PhysicalDevicesRegistered /\ DevicesRegistered /\ FramesOK
  /\ Exclusive /\ LocksHeld /\ AllocatedWhenUsed /\ NothingLost
=============================================================================
