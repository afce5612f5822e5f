# A verification project for vk-layer-for-rust

`vulkan-layer` is a Rust framework for writing Vulkan layers. A layer sits in a call chain between
an application and a driver: the loader calls the first layer, each layer calls the one below, the
last one calls the driver. A layer author implements the trait `Layer` for a type `T`;
`Global<T>` then provides the entry points, keeps an info for every instance and device, decides
which function pointers are the layer's own, and calls the author's hooks.

This directory has TLA+ modules translated from that code, TLC configurations that check them on
small instances, and machine-checked proofs, for instances of any size, of what matters most in
its core. `PROJECT.json` lists the runs, the source lines each definition stands for, the hazards
each property is aimed at, and a mutant of the code that breaks each property.

    tlc -config MCRegistry.cfg MCRegistry     # a run
    tlapm Registry_proofs.tla                 # the proofs of a module

## 1. Inventory

| Component | State | Operations | Correct when |
|---|---|---|---|
| Registry (`vulkan-layer/src/lib.rs`, `Global<T>`) | `instance_map`, `physical_device_map`, `device_map`, each a `Mutex<LazyCollection<BTreeMap>>` of `Arc`s | `create_instance`, `destroy_instance`, `enumerate_physical_devices`, `enumerate_physical_device_groups`, `create_device`, `destroy_device`, look-ups by every other command | no handler panics; a handle resolves to the info made for its object, also after handles and dispatch keys were reused; no object is lost on an error path; no deadlock; the maps are deallocated when empty |
| `LazyCollection` (`lazy_collection.rs`) | a `OnceCell` | `get`, `get_mut_or_default`, drop of `CollectionRefMut` | allocated only while it has elements or is being written |
| Creation through the chain (`lib.rs`, `layer_trait.rs`, `bindings/vk_layer.rs`) | the link list in `pNext`, shared by all layers; the extension list; the entries of each layer | take and advance the link, hook, filter, call the next layer, undo | each layer takes its link once; all layers know an object or none does; the driver gets the right extensions; the info factories get what they are promised |
| Function pointers (`get_instance_proc_addr`, `get_device_proc_addr`, `global_simple_intercept/generated.rs`) | command tables of an instance and of a device, dispatch tables loaded from the next layer, the version and extensions enabled | query, load, call | no call goes round a layer that intercepts it; no NULL entry on the way; a command that is not enabled has no pointer |
| Enumeration (`vk_utils.rs` `fill_vk_out_array`; the two physical device queries; the four introspection queries) | arrays and counts of the caller | count query, fetch | result, count and array agree; what the caller reads is registered; the two-call idiom ends |
| Command tables and wrappers (`global_simple_intercept/generated.rs`) | two tables of 619 entries; none of their own | look up, hook, next layer | the tables, the wrappers and the dispatch tables agree; a declined call reaches the next layer |
| Hook traits (`layer_trait.rs`, `layer_trait/generated.rs`) | the layer author's | `create_*_info`, `hooked_*_commands`, one method per command | modelled as a nondeterministic environment |
| Autoinfo and introspection macros (`vulkan-layer-macros`) | none | exported functions, lists of commands | compile time, not modelled |
| Code generation (`scripts/codegen.rs`) | generator threads, comparison threads, two channels, exit code | generate, announce, compare, print, join | in check mode the exit code says whether the files differ; a failure is never a success; it ends |
| Generators (`scripts/vulkan_layer_genvk`, Python) | none | print text from `vk.xml` | not modelled; what they print is in the tables |
| `scripts/list_files` | a lazy walk, a chunk, tasks, a shared list of errors | walk, chunk, run, join | each file goes to one command; chunks stay short; an error stops the loop and fails the tool; it ends |
| CI, build scripts, example, tests, mocks | | | not modelled |

How they interact. The application calls an entry point of layer 1; the handler looks the info up in
a map (a short critical section that clones an `Arc`), calls a hook, and when the hook returns
`Unhandled` calls the next layer through the info's dispatch table. Creation is a recursion down the
chain through the `pNext` links, with the info registered on the way back; destruction removes the
entry first and then recurses. `create_instance` calls `vkGetInstanceProcAddr` of the next layer with
`instance_map` locked, and `create_physical_device_infos` calls `get_instance_info` and the next
layer with `physical_device_map` locked.

What is hard in this code:

* several application threads, three mutexes, calls out with a mutex held, and `Arc::try_unwrap`
  that panics if any other call still holds a clone;
* handles and dispatch keys are given out again by the next layer as soon as it has destroyed an
  object, which happens inside `destroy_*`, before the handler returns;
* failure at every level of a creation, in hooks as well as below;
* function pointers and tables are computed once and used long after, and in a chain the answer of
  one layer is computed from that of the next;
* lists that change between the two calls of the two-call idiom;
* 619 commands, some under two names, whose features, wrapper and dispatch table are written in three
  generated tables;
* the two tools start threads whose panics and errors reach the exit code only by way of channels, joins and
  a shared list.

## 2. Modules

| Module | Models | Used by |
|---|---|---|
| `Registry` | the maps and handlers of one layer, several threads | `MCRegistry` |
| `RegistryInv` | the inductive invariant of `Registry` | `MCRegistry`, `Registry_proofs` |
| `Registry_proofs` | the theorems about `Registry` | `RegistryContract_proofs` |
| `LayerContract` | what the registry promises, without maps, locks and keys | `Registry` (refinement) |
| `RegistryContract_proofs` | that `Registry` implements `LayerContract`, and what follows from the contract | |
| `LayerChain` | creation and destruction through N layers | `LayerChainInv` |
| `LayerChainInv` | the inductive invariant of `LayerChain` | `MCLayerChain`, `LayerChain_proofs` |
| `ChainContract` | what the layers of a chain promise together, without stack, links and answers | `LayerChain` (refinement) |
| `ChainContract_proofs` | that `LayerChain` implements `ChainContract`, and what follows from the contract | |
| `ProcAddr` | pointer queries, tables and calls through N layers | `ProcAddrInv`, `MCCommands` |
| `ProcAddrInv` | the inductive invariant of `ProcAddr` | `MCProcAddr`, `ProcAddr_proofs` |
| `CommandTables` | the tables of commands a layer can intercept | `MCCommands` |
| `DispatchTables` | the dispatch table each wrapper calls | `MCCommands` |
| `Enumerate` | lists returned in arrays of the caller | `EnumerateInv` |
| `EnumerateInv` | the inductive invariant of `Enumerate` | `MCEnumerate`, `Enumerate_proofs` |
| `Codegen` | the code generation program and its check mode | `MCCodegen`, `Codegen_proofs` |
| `ListFiles` | the program that runs commands on files | `MCListFiles`, `ListFiles_proofs` |
| `Codegen_proofs`, `ListFiles_proofs` | their inductive invariants and theorems | |
| `LayerChain_proofs`, `ProcAddr_proofs`, `Enumerate_proofs` | the theorems of these components | |

### Registry

The variables `instMap`, `pdMap`, `devMap` are the three maps; `alloc` is the set of collections
whose `OnceCell` is set; `lock` holds the mutexes that are kept from one step to the next. A
critical section that calls nothing is one atomic step guarded by `Free(m)`; one that calls the next
layer is two steps with `lock` held between them (`LockInstanceMap` / `RegisterInstance`,
`CheckPhysicalDevice` / `RegisterPhysicalDevice`, `LockDeviceMap` / `RegisterDevice`).
`pc` and `frame` are each thread's position and locals. `instKey`, `pdOwner`, `devPd` are the next
layer: what it has alive and under which dispatch key. A handle or key that is not alive can be given
out again. `instCustom` and `devCustom` remember what `create_instance_info` and
`create_device_info` returned for the object, so that properties can tell an info from one of a
former object. A device handle and its key are one value: both are read, written and given out
together.

| Handler | Steps |
|---|---|
| `create_instance` | `CreateInstance`; `RefuseInstance` or `NextCreateInstance`; `LockInstanceMap` (the duplicate check); `RegisterInstance` |
| `destroy_instance` | `DestroyInstance`; `RemoveInstance`; `PurgePhysicalDevices`; `NextDestroyInstance` |
| `enumerate_physical_devices(_groups)` | `EnumeratePhysicalDevices`; `LookupInstance`; `EnumerateNothing` or `NextEnumerate`; per device `CheckPhysicalDevice` and, if new, `RegisterPhysicalDevice`; `EnumerateReturn` |
| `create_device` | `CreateDevice`; `LookupPhysicalDevice`; `LookupInstance`; `RefuseDevice` or `NextCreateDevice`; `LockDeviceMap`; `RegisterDevice` |
| `destroy_device` | `DestroyDevice`; `RemoveDevice`; `NextDestroyDevice` |
| other commands | `InstanceCommand`, `PhysicalDeviceCommand`, `EnumerateDeviceExtensions`, `DeviceCommand`; look-ups; `CommandReturn` |

`Require` is an `unwrap`, `expect` or assert: a panic in an `extern "system"` function ends the
process, `health = "aborted"`, and nothing runs after it. The application is assumed to keep to
Vulkan's valid usage, which is in the guards of the starting actions; without it the code promises
nothing. `destroy_*` of a NULL handle returns at once and changes nothing, so it has no action.

`LayerContract` is the abstract specification: an instance or device has one customized info from
its creation until the application destroys it, a physical device belongs to one instance, and a
call is served by the info of its object, which is not destroyed meanwhile. `Registry` implements it
with the mapping at the end of the module (`ImplementsContract`): what each handle resolves to
*through the maps*, so a wrong entry is a step the contract does not have. `LayerContract!Consistent` is
what a caller may rely on.

`Wants(t)` is the mutex that the next step of a thread takes, `Waits(t)` that another thread holds it.
`NoWaitCycle` says that a thread waits for one that runs, or for one
that waits for one that runs: an enumeration that registers a device (`physical_device_map` held,
`get_instance_info` about to lock `instance_map`) while an instance is being created (`instance_map` held
while its table is loaded).

### LayerChain

`stack` is the call stack of the one thread, a frame per layer with the extension list the layer was
called with (`asked`), the list its own copy of the create info points to (`info`), and the link it
took. `link` is `u.pLayerInfo`, one pointer shared by all layers. `reg` is which layers have the
object in their map, `next` where the entry's dispatch table came from, `alive` what the driver has.
A hook refuses (`HookRefuses`), declines, or calls the layer below with a list of its own
(`HookCallsNext`: `HookLists` are the lists a hook passes on; the example in the documentation of
`GlobalHooks::create_instance` adds an extension), after which it reports what it got (`HookReturns`) or destroys
the object and reports an error (`HookUndoes`, `HookGivesUp`). A hook calls the layer below once, as
the examples in its documentation do. Memory that was freed reads as `Garbage`.

The dispatch table of a physical device's instance, which `create_device` looks up, is the entry of
the same layer in `reg["instance"]`.

`ChainContract` is the abstract specification, with three variables: `owners`, the layers that know an object and
the driver; `held`, the objects of the application; `call`, its call, with a phase in place of the stack: the object
is asked for, made, ending, or the call is over. A made object becomes known to one layer after the other, from
the driver up (`Make`, `Rise`, `Succeed`), or a hook that gives up has what was made destroyed (`Undo`); an ending one is
forgotten from the top down (`Sink`), the driver's being the last step. The mapping (`Objects`, `Phase`, `CallOfApp`
at the end of `LayerChain`) reads `owners` from the maps of the layers, and the phase from the call at the top
of the stack and the answer it got. Taking links, filtering extensions, hooks and returns are not seen.

### ProcAddr

Commands do not influence each other, so a behaviour follows one command `cmd`. `instUp`, `devUp` are
the layers that have built their info (the chain is built from the driver up); `instNext[l]` and
`devNext[l]` are what the layer below `l` answered, which is what the dispatch table of `l` has.
`GetInstanceProcAddr(l)` and `GetDeviceProcAddr(l)` are the two functions as operators on the current
tables. The application asks at any time, keeps the pointer, creates a device later, and calls;
`at` and `visited` follow that call. `instHooks`, `anyHooks`, `devHooks` are the layers with the
command in `hooked_instance_commands`, in `hooked_device_commands` without and with a device. The
documentation of the last one asks that the second contain the third
(`layer_trait.rs:1589-1592`), and that is the guard in `HookedDeviceCommands`.

A command may have two names, with a wrapper in common: `Entry[cmd]` is the name and the table of the entry
the wrapper calls, and `instNext`, `devNext` have an answer for both names.

### CommandTables, DispatchTables, MCCommands

The first is the data of `create_device_commands` and `create_instance_commands`: for each of the 619
commands the versions and extensions that have it, and the wrapper. A definition stands for a stretch of the
source; within it, entries with the same features are together, those with a wrapper of their own (`Of`) before
those with the wrapper of another command (`AliasOf`). The second is, for every wrapper, the dispatch
table whose entry it calls, a definition for each group of wrappers of one table. `MCCommands` makes the
CONSTANTS of `ProcAddr` of the two, so that the model of pointers and calls runs for each command of
the code. Which extensions are instance extensions the code does not say; that list is from Vulkan's registry.

### Enumerate

One caller, one command (`query.entry`) and one list, which another party may change at any moment
(`Hotplug`) if it is the next layer's. `query.of` says whose list the caller asks for: this layer's
(`AnswerOwn`, or `AnswerNone` for its instance extensions), the next layer's (`NextAnswers`), or that of
a layer nobody here knows (`NotPresent`). An element is the set of physical devices it names, so that groups,
single devices and properties are one model; `FillVkOutArray` has the branches of the function. The NULL
array is a value of its own. A slice of a NULL pointer with a length is undefined behaviour: `undefined` is
set, and the process ends or goes on.

### Codegen

`gen` is the position of each generator thread, `cmp` that of each comparison, `main` that of the main
thread; `completed` and `diffs` are the two channels. A channel is disconnected when every
thread that has a sender ended, by a return or by a panic; the main thread keeps none. A file is "partial" from
its truncation to the end of the write, and "raw" between the Python program and `rustfmt`. Each place of the code
with an `unwrap`, `expect` or assert is a step that may panic. `thread::scope` waits for its threads
before a panic goes on (`Unwind`); `thread.join().unwrap()` does not (`Join`).

### ListFiles

The iterator chain (`WalkBuilder`, `filter_map`, `scan`, `chunk_by`) is pulled one entry at a time, by the
`for` (`main = "first"`) or by `build_task` (`main = "fill"`). `chunk_by` reads one path past the end of a chunk
and keeps it (`ahead`). The errors are looked at between the two (`Check`). A task is a thread with a
command; `FileVanishes` is a command, or anyone, that removes a file the walk has not come to, after which the
walk has no entry for it (`SkipEntry`) or an entry with no file (`CanonicalizePanics`).

## 3. Runs

| Run | Instance | Shows | Distinct states |
|---|---|---|---|
| `registry` | 3 threads, 2 instances, 2 keys, 2 physical devices, 1 device, 2 infos | safety and inductive invariants, no cycle of waits | 282,807 (up to symmetry) |
| `registry_contract` | 2 threads, 2 instances, 2 keys, 1 physical device, 1 device, 2 infos | liveness, and `LayerContract` is implemented | 64,172 |
| `layer_chain` | 3 layers | link, nesting, all or nothing, extensions, termination; the inductive invariant; `ChainContract` is implemented | 335,084 |
| `layer_chain_info` | 2 layers | finding 2 | |
| `enumerate` | 3 physical devices, lists of 2, arrays of 3, all queries | arrays, registration, the two-call idiom; the inductive invariant | 233,259 |
| `enumerate_groups` | 3 physical devices, lists of 3, arrays of 4 | finding 1 | |
| `proc_addr` | 3 layers, 5 extensions, 2 versions, 13 commands | no layer skipped, no dead end, disabled commands; the inductive invariant | 57,692 |
| `commands` | 1 layer, 4 versions, all 619 commands and their extensions | no layer skipped, for each command; the tables agree, and have what the proofs assume | 85,081 |
| `commands_alias` | as `commands` | finding 3 | |
| `commands_intent` | as `commands` | finding 4 | |
| `codegen` | 3 files, two of them of the Python program | verdict, failures, termination | 76,267 |
| `list_files` | 4 entries, paths of length 1 or 3, limit 2 | chunks, errors, termination | 331,312 |

The invariants `IInv`, `ChainInv`, `EnumInv` and `ProcInv`, with which the proofs of section 5 are made, are checked by these
runs as well; the type invariant of a module is a conjunct of its own, so that the runs of `Registry`, `LayerChain`,
`Enumerate` and `ProcAddr` do not list `TypeOK` beside it. For the same reason `commands` does not list `NeverDeadEnd`: it is a
theorem from assumptions on the tables, and the run evaluates these for the tables of the code.

Why the bounds are enough. *Registry*: the hazards are an object being destroyed, another being
created with its handle or key, and a third call in between: two instances, two keys and three threads
are the least that has all three at once, and every handle is reused without limit, as nothing counts
creations. With two infos an info of a former object can be told from the present one. *LayerChain*: three layers are a first, a last
and one that is neither; the extensions are one that two layers share, one of the top layer alone that the
driver lacks, and one no layer recognizes, asked for in every combination; the lists of the hooks add
and drop names, and one is empty. *ProcAddr*: a command of
each class (core 1.0, core 1.1, instance extension, extension of one layer, of two layers and the driver,
of the driver alone, unknown, always hooked, global, physical device command of a device extension, device
command of an instance extension, alias of a core command) and both versions. *MCCommands*: every command, every
version, and each extension that matters to the command enabled or not; one layer is enough, as what a
chain adds is what `proc_addr` is for. *Enumerate*: arrays of every
length below, at and above that of the list, and zero; `MaxLen` and `MaxCap` are the bounds. *Codegen*: a file of
bindgen and two of the Python program, so that a generator can end first, between and last, in and out of the order
of the joins; the fourth file of the code is another of bindgen. *ListFiles*: a path is longer than
the limit or half of it, so that chunks have one path, several, or end at the limit exactly; four entries make
up to four chunks. The limit of the code is 1024. For every safety property but `TablesAgree`, and for both
refinements, the proofs do away with these bounds. There is no other bound in any guard.

`CHECK_DEADLOCK FALSE` is in the configurations of systems that may stop: in `Enumerate` the process may have
ended, and so it may in `ProcAddr`, `MCCommands` where a call comes to an entry the next layer did not answer;
`Codegen` and `ListFiles` are programs that exit.

Fairness. `Registry!Fairness` is weak fairness of each thread's step inside the layer: threads are
scheduled, and hooks and the next layer return. A `std::sync::Mutex` promises no order among its
waiters, so none is assumed: `EveryCallReturns` is stated for behaviours in which the application starts
finitely many calls, and there weak fairness is enough. `LayerChain!FairSpec` is the same
for its one thread; among its steps are the driver's answer and the hook's return. In `Enumerate` the handlers
return and the caller of the idiom is scheduled (`IdiomStep`); that lists stop changing and calls stop failing is an
assumption inside the property. In `Codegen` and `ListFiles` each thread is scheduled, and the programs they run
(bindgen, Python, rustfmt, the command of the user) come to an end; that any of them succeeds is not assumed.

Every property has a mutant, a plausible bug in one mapped definition that makes TLC find it violated
(a purge that is left out, a link advanced late, a filter on the wrong list, a boundary off by one).
The mutants stand next to the definitions they change, each with a comment that begins with "Mutant".

## 4. Findings

1. `enumerate_groups`: `enumerate_physical_device_groups` (`lib.rs:889`) tests the pointer to the count
   for NULL where `enumerate_physical_devices` tests the array. A count-only query, the first half of
   the usual idiom, makes a slice of a NULL pointer with the number of groups as its length, against
   the Safety section of `slice_from_raw_parts` (`vk_utils.rs:184-186`).
2. `layer_chain_info`: `create_device_info` gets the copy of the create info whose extension list was
   replaced by the filtered one (`lib.rs:1026-1031`), and the vector behind it is dropped at the end of
   the match arm, before the call at `lib.rs:1068`. The documentation (`layer_trait.rs:1413-1417`)
   promises the original. `create_instance_info` does get the original; `layer_chain` checks that.
3. `commands_alias`: a command and its KHR or EXT alias share a wrapper, and for a declined call the wrapper
   calls the entry of the core version (`generated.rs:15178` for `vkCmdBeginRenderingKHR`,
   `lib.rs:882` for `vkEnumeratePhysicalDeviceGroupsKHR`), which was loaded under the core name. If only
   the extension is enabled, below that version, the next layer has no function of that name, and the call goes to the
   stub of `ash`, which panics, instead of to the next layer (`layer_trait.rs:30-31`). 79 names of the tables are
   such aliases. `NeverDeadEnd`, proved for any tables with the property `AliasAssumption`, says that nothing else leads there.
4. `commands_intent`: some commands of a physical device come with a device extension. `get_instance_proc_addr`
   gives a hooked one out only if the instance has the extension enabled (`lib.rs:1494-1500`), which it never has.
   A layer that lists such a command is not called for it, though the documentation asks the layer only to "express the
   intent" (`lib.rs:1337-1339`). In the same way `get_device_proc_addr` does not give out a hook for a
   device command of an instance extension (`vkCmdBeginDebugUtilsLabelEXT`), but for that
   `get_instance_proc_addr` does.

Without a run, as each is a statement of a document that one line of the code contradicts:

* `vkGetInstanceProcAddr(instance, "vkCreateInstance")` is answered with any instance, though the documentation says
  NULL (`lib.rs:1370-1373`); the comment at `lib.rs:1427-1429` says that this is deliberate.
* Whether the layer's `get_instance_proc_addr` hook is asked depends on `GlobalHooksInfo::hooked_commands`
  (`lib.rs:1593-1594`), not on `hooked_instance_commands` as documented (`lib.rs:1356-1359`).
* `vkEnumeratePhysicalDeviceGroups` is not always answered with a local function (`lib.rs:1375-1378`): for an
  instance of version 1.0 the feature check at `lib.rs:1495` passes the query on. `DisabledIsNull` has the code's
  behaviour.
* The usage text of `list_files` says of a file that cannot be accessed that it "will be skipped instead of triggering
  an error" (`list_files/mod.rs:27-29`); one that vanishes between the walk and `canonicalize` is a panic
  (`mod.rs:95`). `CanonicalizePanics` has it.
* "One command will have only one single correspondent feature" (`global_simple_intercept.rs:40-41`) is not so for
  54 entries of the tables, and the check `is_command_enabled` takes any of them.

## 5. Proofs

The theorems are about the specifications the runs check, for every value of the constants that the named
assumptions allow. Each is `Spec => []P` for the property of the table, by the same argument: an inductive
invariant holds at first, each action keeps it (a lemma per action, or one for actions that change the same
variables), and it implies the property. An `...Inv` module has the invariant where a run checks it too.

| Module | Invariant | Assumptions on the constants |
|---|---|---|
| `Registry_proofs` | `IInv` | `NoneIsNothing`: the value for "no object" is none of the objects |
| `RegistryContract_proofs` | `IInv /\ Held` | also `KindsDiffer`: an instance is no device, as their handles are of two types |
| `LayerChain_proofs`, `ChainContract_proofs` | `ChainInv` | `ChainAssumption`: a layer or more, what a layer claims it recognizes |
| `ProcAddr_proofs` | `ProcInv` | `ProcAddrAssumption`, the types of the tables; `AliasAssumption` |
| `Enumerate_proofs` | `EnumInv` | `BoundsAssumption`: lists have an element or more at most, arrays have room for them |
| `Codegen_proofs` | `CInv`, `ChannelInv` | `CodegenAssumption`: no file is generated twice |
| `ListFiles_proofs` | `LInv`, `WInv` | `ListFilesAssumption`: lengths are natural numbers, the limit is not 0 |

TLC evaluates each assumption in every run of the module. `AliasAssumption` says of the tables that the command whose
entry an alias uses is of no instance extension and, for an instance command, of no extension at all. It is a fact
about `generated.rs`: the runs of `MCCommands` evaluate it for all 619 commands.

### Registry_proofs

| Theorem | Property |
|---|---|
| `Inductive` | `IInv` |
| `TypeCorrect` | `TypeOK` |
| `NeverPanics` | `NoPanic` |
| `HandlesAlwaysResolve` | `HandlesResolve` |
| `NeverStale` | `NoStaleEntry` |
| `NeverLost` | `NothingLost` |
| `InfoAlwaysOwn` | `InfoIsOwn` |
| `NeverWaitsInCycle` | `NoWaitCycle` |
| `DropIsTrivial` | `TriviallyDestructible` |

None of these properties is inductive alone. That `RemoveInstance` finds the entry and
is its only owner needs to know that every other thread is at work on another instance; that a
registration meets no entry needs to know that an entry has a live object. `RegistryInv!IInv`
joins what each rests on:

* `KeysDistinct`: live instances have distinct dispatch keys;
* `InstancesRegistered`, `PhysicalDevicesRegistered`, `DevicesRegistered`: an entry is the info of a
  live object that the application holds, or that a `destroy_*` at the named point is about to remove,
  and conversely a handle the application holds has its entry;
* `FramesOK`: what a thread's locals are at each point of each handler;
* `Exclusive`: an object that is being created or destroyed is in no other call;
* `LocksHeld`: a mutex is held exactly between the two steps of its section;
* `AllocatedWhenUsed`: a collection is allocated if and only if it has an entry or is being written.

Actions that change only the thread's own position and locals
share `LocalStep`, `ReturnStep` and `CallStep`; `ExclusiveKept` is the part that creations share.
`NeverWaitsInCycle` needs `LocksHeld` twice: the owner of a mutex is between the two steps of its section, which is a place where it
wants no mutex, unless it registers a physical device and wants `instance_map`; and the owner of that is in a creation.

`BeginInv` and `StepInv` join the lemmas, `Inductive` adds time, and each remaining theorem is a
consequence of `IInv` alone.

### RegistryContract_proofs

| Theorem | Statement |
|---|---|
| `AlwaysHeld` | `Spec => [](IInv /\ Held)` |
| `Implements` | `Spec => ImplementsContract`: `LayerContract` under the mapping |
| `ContractPromises` | `Contract!Spec => []Contract!Consistent` |
| `AlwaysConsistent` | `Spec => []Contract!Consistent` |

The contract sees what the handles of the application resolve to through the maps (`SeenInstance`, `SeenPhysicalDevice`,
`SeenDevice`) and which info each call is served by (`Served`). `IInv` says that an object the application holds is seen with
its own info; `Held`, that a served call has the info in hand from the look-up on. Then an action of `Registry` is a step
of the contract where a handle is given out, is given up or is looked up, and where a served call returns;
everywhere else, in the critical sections and in the purge of physical devices too, nothing is seen to change. An
instance's physical devices disappear from the contract with the instance, though the code removes their entries later:
the application holds none of them any more.

`ContractPromises` is about the contract alone: an object goes only after what was made from it, and the info that serves a call is that of
its object until the call returns. It is proved from the contract's own types, with no map, lock or key, and
`AlwaysConsistent` carries it over to the registry. `FinishEnumerate` and `FinishCreateDevice` are for a call on an
instance, which the contract has to say for this to hold: a device's call tells of no physical device.

### LayerChain_proofs

| Theorem | Property |
|---|---|
| `Inductive` | `ChainInv` |
| `TypeCorrect` | `TypeOK` |
| `NeverPanics` | `NoPanic` |
| `LinksAreOwn` | `OwnLink` |
| `AlwaysNested` | `Nested` |
| `AlwaysAllOrNothing` | `AllOrNothing` |
| `AlwaysRouted` | `ExtensionsRouted` |
| `AlwaysOriginal` | `InstanceInfoGetsOriginal` |

The chain is a recursion, and its layers change one link list. `ChainInv` says of each call on the stack which layer it is of and
what it waits for (`CallOK`, `CallerOK`), and of the one that runs how far the link list is (`TopOK`). From the call that runs one
knows who has the object: a creation has come back up to some layer and a destruction has gone down to some layer, so
that the owners are the layers from `First(kind)` on (`OwnersOK`). `Nested` and
`AllOrNothing` are about that number. `NoPanic` is a conjunct: each panic is a link or an entry that is not as `TopOK` and
`OwnersOK` have it. For the extensions `ListsOK` follows the list from the last hook that replaced it; the proof joins
the claims of the layers between one call at a time, so that no induction over the chain is needed.

### ChainContract_proofs

| Theorem | Statement |
|---|---|
| `Implements` | `Spec => ImplementsContract`: `ChainContract` under the mapping |
| `ContractPromises` | `Contract!Spec => []Contract!Whole` |
| `AlwaysWhole` | `Spec => []Contract!Whole` |

`OwnersOK` is what the mapping rests on: the layers that know an object are those from `First(kind)` on (`OwnersAre`), and for the object of
the call that runs this number follows from the top of the stack (`InFlight`). So an action is a step of the contract where
that number changes (`DriverCreates`, `Register`, `Remove`, `DriverDestroys`), where the phase does (`HookUndoes`, a refusal) or
where the application calls or gets its answer; everything else leaves `SeenVars` as they are (`StepSeen`). That a refusal finds no owner,
that a layer registers just above the first owner, and that the application gets an object only with every layer among the owners
are the guards of `Fail`, `Rise` and `Succeed`, and come from `TopOK`.

`Whole` says, of the contract alone, that between two calls every layer and the driver have an object or none has,
that a call disturbs no object but its own, and that a device goes before its instance.

### ProcAddr_proofs

| Theorem | Property |
|---|---|
| `Inductive` | `ProcInv` |
| `TypeCorrect` | `TypeOK` |
| `NeverSkips` | `NoLayerSkipped` |
| `NoDeadEnds` | `NeverDeadEnd` |
| `NullIfDisabled` | `DisabledIsNull` |

`TablesOK` says that an entry of the table of a layer leads to the first layer below it with a function of its own for the
command, or to the driver's function if there is none. A layer is loaded from what the layer below answers, its own
function or the entry of its table: one step of the program is one step of the induction over the chain.
What a layer has of its own may not change once a table above it was loaded, which `LoadOK`, `ExtensionsOK` and the phases of the
application give. A call that is at a layer has then visited every layer above it that intercepts the command. For
`NeverDeadEnd` one needs a layer or driver that has the enabled feature: among the layers that claim its extension the
first is taken, which exists as there are finitely many (`WellFoundedInduction` gives the minimum of a set of
numbers), and `UnavailableOK` is the converse for `DisabledIsNull`.

### Enumerate_proofs

| Theorem | Property |
|---|---|
| `Inductive` | `EnumInv` |
| `TypeCorrect` | `TypeOK` |
| `ArraysAreExact` | `ArrayIsExact` |
| `ToldAreKnown` | `ToldIsKnown` |

The array is followed between the points of a call: as the caller passed it until the answer (`AskedOK`), with the list from the
answer on (`AnsweredOK`), and its devices registered before the caller gets it back (`RegisterOK`, `ToldIsKnown`).
The lemmas about `FillVkOutArray` are for a list and an array of any length: what is written where, which result, which count.

### ListFiles_proofs

| Theorem | Property |
|---|---|
| `Inductive` | `LInv` |
| `Stops` | `StopsAfterError` |
| `Reported` | `FailureIsReported` |
| `WalkInductive` | `LInv /\ WInv` |
| `EachOnce` | `EveryFileOnce` |
| `AlwaysShort` | `ChunksAreShort` |
| `TypeCorrect` | `TypeOK` |

`StopsAfterError` bounds a counter of late starts, which the check before a chunk keeps low only because
the main thread, once it saw an error, leaves the loop. `LInv` says so: `ErrorsCounted` (there is an error
if and only if a task failed), `LateIsLast` (after a late start there are errors, so that the main
thread cannot pass `Check` again), `StatusTold` (how the status was computed), `NotStarted` (before the
loop there is no task).

`WInv` is about the paths. The walk is cut in four, in this order: the tasks, the chunk, the path that `chunk_by` read ahead, and the
entries to come; `Frontier` is where the last two meet (`ChunkOrdered`, `TasksOrdered`), and a file the walk has passed
is in one of the first three (`NoneLeftOut`). The loop leaves the first three without a task only when there is an error.
A chunk is cut where the length of *all* paths so far, divided by the limit, changes. `ChunkMeasured` says that this
number was the same after the first path of the chunk as it is now; two lengths with the same quotient are less than the
limit apart (`SameKey`), hence so is the length of the paths after the first. The length of a sequence of paths is stated by a
function that has it for each of its parts (`Short`, `Measures`), which `MeasuresAppend` extends by a path.

### Codegen_proofs

| Theorem | Property |
|---|---|
| `Inductive` | `CInv` |
| `Compared` | `ComparedWhenComplete` |
| `Verdict` | `CheckVerdict` |
| `Reported` | `FailureIsReported` |
| `TypeCorrect` | `TypeOK` |

The verdict of the main thread is computed from messages, so `CInv` follows a file on its way: a thread that is
about to send has written the file (`WrittenFirst`); a file is announced by a thread that ended well, and each such
thread's file is in the channel or with a comparison (`AnnouncedLast`, `NoneForgotten`); what a comparison found is in
the second channel, or printed, or nothing (`DiffsTrue`, `ComparedTold`, `PrintedTrue`); after the loops the channels
are empty (`Phases`); and the threads joined so far ended well (`JoinedDone`), which for the last `Join` is all of them.

`TypeOK` has the bound on the two channels, which are unbounded in the code. `ChannelInv` is why they do not grow beyond the number of
tasks: a file in the first has no comparison yet, one in the second has a comparison that ended, and none is in either twice;
`AtMostAll` counts them, as there is an injection into the files and a surjection from the tasks.

### Only model-checked

* `EveryCallReturns`, `CallsReturn`, `IdiomCompletes` and both `Exits`: liveness under fairness is beyond the prover.
* `TablesAgree`: a statement about the 619 rows of two constant tables, which has no parameter. TLC evaluates it, and a
  proof would be the same evaluation.
* That `Wants` is the mutex the next step waits for: that a thread inside a handler can step unless it `Waits` is a statement about `ENABLED`,
  which the prover does not have, and TLC found it true of the instance of `registry` (no run has it). `NoWaitCycle` excludes a cycle of waits; that the mutexes are then released
  is part of `EveryCallReturns`.
* That `ProcAddr` has the assumptions of its proofs when it is instantiated with those tables: TLC evaluates them in the
  three runs of `MCCommands`.

## 6. Not modelled

* The contents of infos and messages, the conversion of arguments in the wrappers, and logging.
* Poisoned mutexes: a panic ends the process, so nobody sees one.
* Hooks that answer a pointer query themselves; hooks that call the layer below twice with one create
  info, for which they would have to restore the link list.
* A layer's `Drop` of its infos, and threads started by hooks.
* The conversion of arguments and results in each of the wrappers: that one command passes what it got is not
  checked command by command. The tables say which wrapper and which entry it has.
* The commands the generator leaves out (`generated.rs:1526-1545`): no layer can intercept them.
* The clock: the copyright comment of a generated file has the year.
* Globs and ignore files of `list_files`: which entries match is a choice.
* Macros, bindings, the Python generators, CI and packaging: compile-time code, type declarations and sequential
  programs that print text.

## 7. Plan

Written first, because all else rests on it: `Registry` with its invariant, contract and proof; then
`LayerChain`, `ProcAddr` and `Enumerate`; then the tables of the commands, the introspection queries, and
the two tools with their proofs; then the proofs of the chain, of the pointers, of the arrays, of the refinement, and of the
paths and channels of the tools; then the contracts of the registry and of the chain, with what follows from each, and the order of
the mutexes. Every safety property of a run that has a parameter is a theorem now. What is left:

1. An abstract specification of `ProcAddr`, in which the layers that intercept a command are one sequence. `NoLayerSkipped` and
   `NeverDeadEnd` say what it would promise of a call.
2. A hook that calls the layer below again after a failure and restores the link list for it, if the framework comes
   to document one.
3. `Registry` over `LayerChain`: the next layer of `Registry` is a choice of what it may do, and several threads with
   several layers are beyond what TLC can enumerate.
