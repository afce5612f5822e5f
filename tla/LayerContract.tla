--------------------------- MODULE LayerContract ----------------------------
(***************************************************************************)
(* What a layer built on Global<T> promises to its caller, with no maps,   *)
(* locks or dispatch keys: an instance and a device have the customized    *)
(* info they were created with until the application destroys them, a     *)
(* physical device belongs to one instance, and a call is served by the    *)
(* info of the object it was made on, which is not destroyed meanwhile.    *)
(***************************************************************************)

CONSTANTS Threads, Instances, PhysDevs, Devices, Customs, None

VARIABLES
  insts,  \* the customized info of each instance the application holds
  pds,    \* the instance of each physical device it was told of
  devs,   \* the physical device and customized info of each device it holds
  calls   \* the object and customized info that serve each thread's call

cvars == <<insts, pds, devs, calls>>

Init ==
  /\ insts = [i \in Instances |-> None]
  /\ pds = [p \in PhysDevs |-> None]
  /\ devs = [v \in Devices |-> None]
  /\ calls = [t \in Threads |-> None]

Quiet(x) == \A t \in Threads : calls[t] # None => calls[t].obj # x

CreateInstance(i, c) ==
  /\ insts[i] = None
  /\ insts' = [insts EXCEPT ![i] = c]
  /\ UNCHANGED <<pds, devs, calls>>

DestroyInstance(i) ==
  /\ insts[i] # None
  /\ Quiet(i)
  /\ \A v \in Devices : devs[v] # None => pds[devs[v].pd] # i
  /\ insts' = [insts EXCEPT ![i] = None]
  /\ pds' = [p \in PhysDevs |-> IF pds[p] = i THEN None ELSE pds[p]]
  /\ UNCHANGED <<devs, calls>>

Serve(t, x, c) ==
  /\ calls[t] = None
  /\ calls' = [calls EXCEPT ![t] = [obj |-> x, custom |-> c]]
  /\ UNCHANGED <<insts, pds, devs>>

ServeInstance(t, i) == insts[i] # None /\ Serve(t, i, insts[i])

ServeDevice(t, v) == devs[v] # None /\ Serve(t, v, devs[v].custom)

Finish(t) ==
  /\ calls[t] # None
  /\ calls' = [calls EXCEPT ![t] = None]

FinishCommand(t) == Finish(t) /\ UNCHANGED <<insts, pds, devs>>

FinishEnumerate(t, P) ==
  /\ Finish(t)
  /\ calls[t].obj \in Instances
  /\ \A p \in P : pds[p] \in {None, calls[t].obj}
  /\ pds' = [p \in PhysDevs |-> IF p \in P THEN calls[t].obj ELSE pds[p]]
  /\ UNCHANGED <<insts, devs>>

FinishCreateDevice(t, v, p, c) ==
  /\ Finish(t)
  /\ pds[p] = calls[t].obj
  /\ devs[v] = None
  /\ devs' = [devs EXCEPT ![v] = [pd |-> p, custom |-> c]]
  /\ UNCHANGED <<insts, pds>>

DestroyDevice(v) ==
  /\ devs[v] # None
  /\ Quiet(v)
  /\ devs' = [devs EXCEPT ![v] = None]
  /\ UNCHANGED <<insts, pds, calls>>

Next ==
  \/ \E i \in Instances, c \in Customs : CreateInstance(i, c)
  \/ \E i \in Instances : DestroyInstance(i)
  \/ \E v \in Devices : DestroyDevice(v)
  \/ \E t \in Threads :
       \/ \E i \in Instances : ServeInstance(t, i)
       \/ \E v \in Devices : ServeDevice(t, v)
       \/ FinishCommand(t)
       \/ \E P \in SUBSET PhysDevs : FinishEnumerate(t, P)
       \/ \E v \in Devices, p \in PhysDevs, c \in Customs :
            FinishCreateDevice(t, v, p, c)

Spec == Init /\ [][Next]_cvars

-----------------------------------------------------------------------------
(* What a caller may rely on.                                              *)

TypeOK ==
  /\ insts \in [Instances -> Customs \cup {None}]
  /\ pds \in [PhysDevs -> Instances \cup {None}]
  /\ devs \in [Devices -> [pd : PhysDevs, custom : Customs] \cup {None}]
  /\ calls \in [Threads -> [obj : Instances \cup Devices, custom : Customs] \cup {None}]

\* A physical device and a device go with their instance, and an object has the
\* info that serves a call on it for as long as the call runs.
Consistent ==
  /\ \A p \in PhysDevs : pds[p] # None => insts[pds[p]] # None
  /\ \A v \in Devices : devs[v] # None => pds[devs[v].pd] # None
  /\ \A t \in Threads : calls[t] # None =>
       LET x == calls[t].obj IN
       IF x \in Instances THEN insts[x] = calls[t].custom
                          ELSE devs[x] # None /\ devs[x].custom = calls[t].custom
=============================================================================
