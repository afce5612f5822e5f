----------------------------- MODULE Enumerate ------------------------------
(***************************************************************************)
(* The commands that give a list to the caller in an array the caller      *)
(* allocates: vkEnumeratePhysicalDevices, vkEnumeratePhysicalDeviceGroups, *)
(* and the properties of layers and of their extensions, which Android     *)
(* calls as functions of the library. A caller asks for the number with a  *)
(* NULL array, allocates, and asks again; between the two calls the list   *)
(* of the next layer may have changed.                                     *)
(*                                                                         *)
(* An element of a list is the set of physical devices it names: one for   *)
(* vkEnumeratePhysicalDevices, the members of a group for the groups; for  *)
(* properties it stands for one of them.                                   *)
(***************************************************************************)
EXTENDS Naturals, Sequences

CONSTANTS
  PhysDevs,  \* physical devices
  MaxLen,    \* bound: elements of a list
  MaxCap,    \* bound: elements the caller allocates
  Blank,     \* an element of the array that was not written
  None       \* the NULL array

\* A list of layers has an element.
ASSUME BoundsAssumption == MaxLen \in Nat \ {0} /\ MaxCap \in Nat /\ MaxLen <= MaxCap

\* Whose list is asked for: that of this layer, by its name, or always for
\* the properties of layers; that of another layer or of the driver; or that of
\* another layer where there is none below, as no instance is given.
Queries ==
  [entry : {"layers", "instance extensions", "device extensions"}, of : {"this"}]
    \cup [entry : {"instance extensions"}, of : {"nobody"}]
    \cup [entry : {"device extensions"}, of : {"nobody", "next"}]
    \cup [entry : {"devices", "groups"}, of : {"next"}]

Elements(entry) ==
  IF entry = "groups" THEN (SUBSET PhysDevs) \ {{}} ELSE {{p} : p \in PhysDevs}

\* No device is named twice.
DisjointLists(entry, lengths) ==
  {l \in UNION {[1..n -> Elements(entry)] : n \in lengths} :
     \A j, k \in DOMAIN l : j # k => l[j] \cap l[k] = {}}

\* layer_properties has one element; a layer has no instance extensions.
Lists(q) ==
  CASE q.entry = "layers" -> DisjointLists(q.entry, {1})
    [] q.entry = "instance extensions" -> {<<>>}
    [] OTHER -> DisjointLists(q.entry, 0..MaxLen)

Arrays == UNION {[1..n -> (SUBSET PhysDevs) \cup {Blank}] : n \in 0..MaxCap}

VARIABLES
  query,      \* the command the caller uses, and whose list it asks for
  list,       \* what there is to enumerate
  pc,         \* "idle", or where the call is
  count,      \* the caller's count
  array,      \* the caller's array, or None
  cap,        \* the elements it allocated
  result,     \* what the last call returned
  served,     \* history: the list the last call was answered from
  known,      \* the keys of physical_device_map
  undefined,  \* a slice was made from memory that is not valid for it
  health      \* "aborted" when the process ended for it

callVars == <<count, array, cap, result, served>>
vars == <<query, list, pc, callVars, known, undefined, health>>

TypeOK ==
  /\ query \in Queries
  /\ list \in Lists(query)
  /\ served \in Lists(query) \cup {<<>>}
  /\ pc \in {"idle", "answer", "register"}
  /\ count \in 0..MaxCap
  /\ cap \in 0..MaxCap
  /\ array # None => array \in Arrays /\ DOMAIN array = 1..cap
  /\ result \in {"none", "SUCCESS", "INCOMPLETE", "ERROR", "LAYER_NOT_PRESENT"}
  /\ known \in SUBSET PhysDevs
  /\ undefined \in BOOLEAN
  /\ health \in {"running", "aborted"}

Init ==
  /\ query \in Queries
  /\ list \in Lists(query)
  /\ pc = "idle"
  /\ count = 0
  /\ array = None
  /\ cap = 0
  /\ result = "none"
  /\ served = <<>>
  /\ known = {}
  /\ undefined = FALSE
  /\ health = "running"

Min2(m, n) == IF m < n THEN m ELSE n

\* The first n elements of the array are those of the list.
Overwrite(n) == [k \in 1..cap |-> IF k <= n THEN list[k] ELSE array[k]]

-----------------------------------------------------------------------------
(* fill_vk_out_array.                                                      *)

\* Mutant: an array that is just long enough counts as short.
FillIfRoomIsLeft ==
  \/ /\ array = None
     /\ count' = Len(list)
     /\ result' = "SUCCESS"
     /\ UNCHANGED array
  \/ /\ array # None
     /\ count' = Min2(count, Len(list))
     /\ result' = IF count <= Len(list) THEN "INCOMPLETE" ELSE "SUCCESS"
     /\ array' = Overwrite(Min2(count, Len(list)))

\* Mutant: the array is trusted to be long enough.
FillWhole ==
  \/ /\ array = None
     /\ count' = Len(list)
     /\ result' = "SUCCESS"
     /\ UNCHANGED array
  \/ /\ array # None
     /\ count' = Len(list)
     /\ result' = "SUCCESS"
     /\ array' = [k \in 1..(IF cap > Len(list) THEN cap ELSE Len(list)) |->
                    IF k <= Len(list) THEN list[k] ELSE array[k]]

\* Mutant: the count is not brought down to what was written.
FillKeepsCount ==
  \/ /\ array = None
     /\ count' = Len(list)
     /\ result' = "SUCCESS"
     /\ UNCHANGED array
  \/ /\ array # None
     /\ result' = IF count < Len(list) THEN "INCOMPLETE" ELSE "SUCCESS"
     /\ array' = Overwrite(Min2(count, Len(list)))
     /\ UNCHANGED count

FillVkOutArray ==
  \/ /\ array = None
     /\ count' = Len(list)
     /\ result' = "SUCCESS"
     /\ UNCHANGED array
  \/ /\ array # None
     /\ count = 0
     /\ result' = IF list = <<>> THEN "SUCCESS" ELSE "INCOMPLETE"
     /\ UNCHANGED <<count, array>>
  \/ /\ array # None
     /\ count # 0
     /\ count < Len(list)
     /\ array' = Overwrite(count)
     /\ result' = "INCOMPLETE"
     /\ UNCHANGED count
  \/ /\ array # None
     /\ count # 0
     /\ count >= Len(list)
     /\ count' = Len(list)
     /\ array' = Overwrite(Len(list))
     /\ result' = "SUCCESS"

-----------------------------------------------------------------------------
(* The calls.                                                              *)

\* The number alone: what the count holds before the call means nothing.
AskCount ==
  /\ pc = "idle"
  /\ \E n \in 0..MaxCap : count' = n
  /\ array' = None
  /\ cap' = 0
  /\ result' = "none"
  /\ pc' = "answer"
  /\ UNCHANGED <<query, list, served, known, undefined, health>>

Fetch(n) ==
  /\ pc = "idle"
  /\ count' = n
  /\ cap' = n
  /\ array' = [k \in 1..n |-> Blank]
  /\ result' = "none"
  /\ pc' = "answer"
  /\ UNCHANGED <<query, list, served, known, undefined, health>>

AnswerWith(pcAfter) ==
  /\ pc = "answer"
  /\ pc' = pcAfter
  /\ UNCHANGED <<query, list, cap, known, undefined, health>>

\* enumerate_instance_layer_properties, enumerate_device_layer_properties, and
\* enumerate_device_extension_properties for this layer.
AnswerOwn ==
  /\ query.of = "this" /\ query.entry # "instance extensions"
  /\ AnswerWith("idle")
  /\ FillVkOutArray
  /\ served' = list

\* enumerate_instance_extension_properties, which does not look at the array.
AnswerNone ==
  /\ query.of = "this" /\ query.entry = "instance extensions"
  /\ AnswerWith("idle")
  /\ count' = 0
  /\ result' = "SUCCESS"
  /\ served' = <<>>
  /\ UNCHANGED array

\* Both commands for another layer, without a physical device.
NotPresent ==
  /\ query.of = "nobody"
  /\ AnswerWith("idle")
  /\ result' = "LAYER_NOT_PRESENT"
  /\ UNCHANGED <<count, array, served>>

\* A handler that registers what the next layer answered, or returns it.
AfterNext == IF query.entry = "device extensions" THEN "idle" ELSE "register"

\* The next layer answers as Vulkan has it, from the list of this moment.
NextAnswers ==
  /\ query.of = "next"
  /\ AnswerWith(AfterNext)
  /\ IF array = None
       THEN count' = Len(list) /\ result' = "SUCCESS" /\ UNCHANGED array
       ELSE LET n == Min2(count, Len(list)) IN
            /\ count' = n
            /\ array' = Overwrite(n)
            /\ result' = IF n < Len(list) THEN "INCOMPLETE" ELSE "SUCCESS"
  /\ served' = list

NextFails ==
  /\ query.of = "next"
  /\ AnswerWith(AfterNext)
  /\ result' = "ERROR"
  /\ UNCHANGED <<count, array, served>>

\* Mutant: an incomplete list is taken for an error.
RegisterIfComplete ==
  /\ pc = "register"
  /\ query.entry = "devices"
  /\ known' = IF result = "SUCCESS" /\ array # None
                THEN known \cup UNION {array[k] : k \in 1..count} ELSE known
  /\ pc' = "idle"
  /\ UNCHANGED <<query, list, callVars, undefined, health>>

\* enumerate_physical_devices: nothing to register without an array.
RegisterDevices ==
  /\ pc = "register"
  /\ query.entry = "devices"
  /\ known' = IF result \in {"SUCCESS", "INCOMPLETE"} /\ array # None
                THEN known \cup UNION {array[k] : k \in 1..count} ELSE known
  /\ pc' = "idle"
  /\ UNCHANGED <<query, list, callVars, undefined, health>>

\* enumerate_physical_device_groups looks whether the pointer to the count is
\* NULL, which it never is, and not at the array. A slice of a NULL array with
\* elements is undefined: the process ends, or the loop meets a NULL element,
\* which is how the None that ends it is represented.
RegisterGroups ==
  /\ pc = "register"
  /\ query.entry = "groups"
  /\ pc' = "idle"
  /\ IF result \in {"SUCCESS", "INCOMPLETE"} /\ count > 0
       THEN IF array = None
              THEN /\ undefined' = TRUE
                   /\ health' \in {"running", "aborted"}
                   /\ UNCHANGED known
              ELSE /\ known' = known \cup UNION {array[k] : k \in 1..count}
                   /\ UNCHANGED <<undefined, health>>
       ELSE UNCHANGED <<known, undefined, health>>
  /\ UNCHANGED <<query, list, callVars>>

\* A device is plugged in or removed, or the list of the next layer changes.
Hotplug ==
  /\ query.of = "next"
  /\ \E l \in Lists(query) \ {list} : list' = l
  /\ UNCHANGED <<query, pc, callVars, known, undefined, health>>

Handler ==
  \/ AnswerOwn \/ AnswerNone \/ NotPresent
  \/ NextAnswers \/ NextFails \/ RegisterDevices \/ RegisterGroups

Next ==
  /\ health = "running"
  /\ AskCount \/ (\E n \in 0..MaxCap : Fetch(n)) \/ Handler \/ Hotplug

\* The caller of the two-call idiom: it fetches as many as it was told there
\* are, and begins again if that was too few.
Told == result = "SUCCESS" /\ array = None
Complete == pc = "idle" /\ result = "SUCCESS" /\ array # None

Idiom ==
  /\ ~ Complete
  /\ IF Told THEN Fetch(count) ELSE AskCount

IdiomStep == health = "running" /\ (Idiom \/ Handler)

\* The handlers return, and a caller that has to goes on with the idiom.
Spec == Init /\ [][Next]_vars /\ WF_vars(IdiomStep)

-----------------------------------------------------------------------------
(* What is correct.                                                        *)

\* The first elements of the array are those of the list, as many as fit.
Filled ==
  /\ count = Min2(cap, Len(served))
  /\ result = "SUCCESS" <=> cap >= Len(served)
  /\ \A k \in 1..cap : array[k] = IF k <= count THEN served[k] ELSE Blank

\* The count and the array are as the caller passed them.
Untouched == count = cap /\ \A k \in 1..cap : array[k] = Blank

\* What a caller reads in its array is a prefix of the list, all of it if and
\* only if the result is SUCCESS; the rest of the array is as it was. All of it
\* is, and the count too, when the layer is not there ("with all the out pointers
\* untouched").
ArrayIsExact ==
  pc = "idle" /\ array # None =>
    /\ result \in {"SUCCESS", "INCOMPLETE"} => Filled
    /\ result = "LAYER_NOT_PRESENT" => Untouched

\* Every physical device in the caller's array is registered when it reads it,
\* were the list incomplete, the array too long, or the device unplugged since.
ToldIsKnown ==
  pc = "idle" /\ query.entry \in {"devices", "groups"}
  /\ array # None /\ result \in {"SUCCESS", "INCOMPLETE"} =>
    UNION {array[k] : k \in 1..count} \subseteq known

\* The Safety section of slice_from_raw_parts: the data may be NULL only for a
\* slice of no element.
SlicesAreValid == ~ undefined

\* The list changes, the next layer fails, or the caller does something else.
Disturbance == NextFails \/ ~ IdiomStep

\* Once devices stop coming and going, calls stop failing and the caller keeps
\* to the two-call idiom, it ends with the whole list, whatever was before.
IdiomCompletes ==
  query.entry # "groups" /\ query.of # "nobody" =>
    []<><<Disturbance>>_vars \/ <>[]Complete
=============================================================================
