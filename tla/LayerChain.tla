----------------------------- MODULE LayerChain -----------------------------
(***************************************************************************)
(* vkCreateInstance, vkCreateDevice, vkDestroyDevice and vkDestroyInstance *)
(* through a chain of layers that are all built on Global<T>. Layer 1 is   *)
(* the one the loader calls, layer N calls the driver, which is N + 1.     *)
(*                                                                         *)
(* For a creation the loader puts a list of N links in the pNext chain of  *)
(* the create info; every layer takes the link the shared pointer          *)
(* u.pLayerInfo designates, moves the pointer to the following link, and   *)
(* calls the layer below through the link it took. A layer may intercept   *)
(* the creation with a hook, which refuses it, declines it, or makes the   *)
(* call to the layer below itself, then keeps the object or destroys it    *)
(* again. A hook calls the layer below once, as its documentation shows    *)
(* it, and may add extensions to the list or take some out.                *)
(*                                                                         *)
(* One thread, one instance and one device at a time: what several threads *)
(* do to the maps of one layer is in Registry.                             *)
(***************************************************************************)
EXTENDS Naturals, Sequences

CONSTANTS
  N,           \* the number of layers
  Exts,        \* extension names
  Recognized,  \* those the enum Extension has
  Claims,      \* LayerManifest::device_extensions of each layer
  DriverExts,  \* what the driver has
  Requests,    \* the lists of extensions the application asks for, per kind
  HookLists,   \* the lists of extensions a hook passes on, per kind
  Garbage      \* what memory that was freed reads as

Layers == 1..N
Driver == N + 1
App == 0
Kinds == {"instance", "device"}

ASSUME ChainAssumption ==
  /\ N \in Nat \ {0}
  /\ Recognized \subseteq Exts
  /\ Claims \in [Layers -> SUBSET Recognized]
  /\ DriverExts \subseteq Exts
  /\ Requests \in [Kinds -> SUBSET SUBSET Exts]
  /\ HookLists \in [Kinds -> SUBSET SUBSET Exts]
  /\ Garbage \notin Exts

\* A list of extensions read after it was dropped.
Freed == {Garbage}
Lists == (SUBSET Exts) \cup {Freed}

VARIABLES
  stack,    \* the calls in flight, the application's first
  answer,   \* what the call that just ended returned
  link,     \* u.pLayerInfo: the position of the next link, N + 1 for NULL
  hooked,   \* for each kind, the layers that intercept its creation
  reg,      \* for each kind, the layers that have it in their map
  seen,     \* history: the list create_instance_info, create_device_info got
  given,    \* history: the list the layer was called with
  next,     \* the layer the dispatch table of the entry was loaded from
  alive,    \* the kinds that exist in the driver
  held,     \* the kinds the application holds
  health    \* "aborted" once an unwrap or expect failed

entries == <<reg, seen, given, next>>
vars == <<stack, answer, link, hooked, entries, alive, held, health>>

\* A call on a layer: the extensions asked for, those in its own copy of the
\* create info, those a hook passed on, and the link it took.
Call(op, kind, layer, asked) ==
  [op |-> op, kind |-> kind, layer |-> layer, step |-> "enter",
   asked |-> asked, info |-> asked, passed |-> {}, link |-> 0]

Calls ==
  [op : {"create", "destroy"}, kind : Kinds, layer : 0..(N + 1),
   step : {"enter", "hook", "own", "hooked", "undo", "called", "made"},
   asked : SUBSET Exts, info : Lists, passed : SUBSET Exts, link : 0..N]

TypeOK ==
  /\ stack \in Seq(Calls) /\ Len(stack) \in 0..(N + 2)
  /\ answer \in {"none", "ok", "error"}
  /\ link \in 1..(N + 1)
  /\ hooked \in [Kinds -> SUBSET Layers]
  /\ reg \in [Kinds -> SUBSET Layers]
  /\ seen \in [Kinds -> [Layers -> Lists]]
  /\ given \in [Kinds -> [Layers -> SUBSET Exts]]
  /\ next \in [Kinds -> [Layers -> 0..(N + 1)]]
  /\ alive \in SUBSET Kinds
  /\ held \in SUBSET Kinds
  /\ health \in {"running", "aborted"}

PerLayer(x) == [kind \in Kinds |-> [l \in Layers |-> x]]

Init ==
  /\ stack = <<>>
  /\ answer = "none"
  /\ link = 1
  /\ \E H \in SUBSET Layers : hooked = [instance |-> H, device |-> {}]
  /\ reg = [kind \in Kinds |-> {}]
  /\ seen = PerLayer({})
  /\ given = PerLayer({})
  /\ next = PerLayer(0)
  /\ alive = {}
  /\ held = {}
  /\ health = "running"

-----------------------------------------------------------------------------

Top == stack[Len(stack)]
Below == SubSeq(stack, 1, Len(stack) - 1)

\* The layer that runs, in the middle of a call of this operation and step.
At(op, step) ==
  stack # <<>> /\ Top.op = op /\ Top.step = step /\ Top.layer \in Layers

Become(call) == stack' = Append(Below, call)

\* Calls into the layer below, and waits for it in step.
Push(waiting, call) ==
  /\ stack' = Append(Append(Below, waiting), call)
  /\ answer' = "none"

Return(result) ==
  /\ stack' = Below
  /\ answer' = result

Require(condition) == health' = IF condition THEN "running" ELSE "aborted"

-----------------------------------------------------------------------------
(* Creation.                                                               *)

\* Mutant: the pointer is moved after the layer below was called.
TakeLinkOnly ==
  /\ At("create", "enter")
  /\ Require(link \in Layers /\ (Top.kind = "device" => Top.layer \in reg["instance"]))
  /\ Become([Top EXCEPT !.link = IF link \in Layers THEN link ELSE 0,
                        !.step = IF Top.layer \in hooked[Top.kind]
                                   THEN "hook" ELSE "own"])
  /\ UNCHANGED <<answer, link, hooked, entries, alive, held>>

\* The link is taken and the pointer moved on; a device is created on a
\* registered instance.
TakeLink ==
  /\ At("create", "enter")
  /\ Require(link \in Layers /\ (Top.kind = "device" => Top.layer \in reg["instance"]))
  /\ link' = IF link \in Layers THEN link + 1 ELSE link
  /\ Become([Top EXCEPT !.link = IF link \in Layers THEN link ELSE 0,
                        !.step = IF Top.layer \in hooked[Top.kind]
                                   THEN "hook" ELSE "own"])
  /\ UNCHANGED <<answer, hooked, entries, alive, held>>

\* The pNext chain of the caller's create info has no link structure.
LinkMissing ==
  /\ At("create", "enter")
  /\ Return("error")
  /\ UNCHANGED <<link, hooked, entries, alive, held, health>>

\* LayerResult::Handled(Err(e)), without a call to the layer below.
HookRefuses ==
  /\ At("create", "hook")
  /\ Return("error")
  /\ UNCHANGED <<link, hooked, entries, alive, held, health>>

\* LayerResult::Unhandled.
HookDeclines ==
  /\ At("create", "hook")
  /\ Become([Top EXCEPT !.step = "own"])
  /\ UNCHANGED <<answer, link, hooked, entries, alive, held, health>>

\* The hook calls the layer of the link it was given, with a list of its own.
HookCallsNext ==
  /\ At("create", "hook")
  /\ \E passed \in HookLists[Top.kind] :
       Push([Top EXCEPT !.step = "hooked", !.passed = passed],
            Call("create", Top.kind, Top.link + 1, passed))
  /\ UNCHANGED <<link, hooked, entries, alive, held, health>>

\* LayerResult::Handled(Ok(())), or Handled(Err(e)) with the error from below.
HookReturns ==
  /\ At("create", "hooked")
  /\ answer # "none"
  /\ IF answer = "ok"
       THEN Become([Top EXCEPT !.step = "made"]) /\ UNCHANGED answer
       ELSE Return("error")
  /\ UNCHANGED <<link, hooked, entries, alive, held, health>>

\* Something the hook does next fails: it destroys the object, then returns
\* Handled(Err(e)).
HookUndoes ==
  /\ At("create", "hooked")
  /\ answer = "ok"
  /\ Push([Top EXCEPT !.step = "undo"],
          Call("destroy", Top.kind, Top.link + 1, {}))
  /\ UNCHANGED <<link, hooked, entries, alive, held, health>>

HookGivesUp ==
  /\ At("create", "undo")
  /\ answer = "ok"
  /\ Return("error")
  /\ UNCHANGED <<link, hooked, entries, alive, held, health>>

\* Mutant: a name that the enum Extension lacks is dropped too.
PassedOnIfRecognized(call) ==
  IF call.kind = "device"
    THEN {e \in call.asked : e \in Recognized /\ e \notin Claims[call.layer]}
    ELSE call.asked

\* For a device, what the layer's manifest has is kept from the layer below; a
\* name that is not recognized cannot be in the manifest.
PassedOn(call) ==
  IF call.kind = "device"
    THEN {e \in call.asked : e \notin Recognized \/ e \notin Claims[call.layer]}
    ELSE call.asked

\* Mutant: create_instance points its create info to a list of its own too.
CallNextWithList ==
  /\ At("create", "own")
  /\ LET passed == PassedOn(Top) IN
     Push([Top EXCEPT !.step = "called", !.info = IF passed = {} THEN {} ELSE Freed],
          Call("create", Top.kind, Top.link + 1, passed))
  /\ UNCHANGED <<link, hooked, entries, alive, held, health>>

\* The framework calls the layer below. For a device its copy of the create
\* info points from here on to a list that is dropped when the call returns.
CallNext ==
  /\ At("create", "own")
  /\ LET passed == PassedOn(Top) IN
     Push([Top EXCEPT !.step = "called",
                      !.info = IF Top.kind = "instance" THEN Top.asked
                               ELSE IF passed = {} THEN {} ELSE Freed],
          Call("create", Top.kind, Top.link + 1, passed))
  /\ UNCHANGED <<link, hooked, entries, alive, held, health>>

\* Mutant: what the layer below returned is not looked at.
NextReturnedAnyway ==
  /\ At("create", "called")
  /\ answer # "none"
  /\ Become([Top EXCEPT !.step = "made"])
  /\ UNCHANGED <<answer, link, hooked, entries, alive, held, health>>

NextReturned ==
  /\ At("create", "called")
  /\ answer # "none"
  /\ IF answer = "ok"
       THEN Become([Top EXCEPT !.step = "made"]) /\ UNCHANGED answer
       ELSE Return("error")
  /\ UNCHANGED <<link, hooked, entries, alive, held, health>>

\* The info is made and put in the map, with the tables loaded from the layer
\* below (Registry has the check for a duplicate). The layer decides here which
\* commands of the instance it intercepts, vkCreateDevice among them.
Register ==
  LET l == Top.layer  k == Top.kind IN
  /\ At("create", "made")
  /\ reg' = [reg EXCEPT ![k] = @ \cup {l}]
  /\ seen' = [seen EXCEPT ![k][l] = Top.info]
  /\ given' = [given EXCEPT ![k][l] = Top.asked]
  /\ next' = [next EXCEPT ![k][l] = Top.link + 1]
  /\ IF k = "instance"
       THEN \E H \in {{}, {l}} : hooked' = [hooked EXCEPT !["device"] = (@ \ {l}) \cup H]
       ELSE UNCHANGED hooked
  /\ Return("ok")
  /\ UNCHANGED <<link, alive, held, health>>

-----------------------------------------------------------------------------
(* Destruction.                                                            *)

\* Mutant: the call goes back to the top of the chain.
RemoveThenTrampoline ==
  LET l == Top.layer  k == Top.kind IN
  /\ At("destroy", "enter")
  /\ Require(l \in reg[k])
  /\ reg' = [reg EXCEPT ![k] = @ \ {l}]
  /\ Push([Top EXCEPT !.step = "called"], Call("destroy", k, 1, {}))
  /\ UNCHANGED <<link, hooked, seen, given, next, alive, held>>

\* Mutant: the entry is fetched, and stays in the map.
GetAndCall ==
  LET l == Top.layer  k == Top.kind IN
  /\ At("destroy", "enter")
  /\ Require(l \in reg[k])
  /\ Push([Top EXCEPT !.step = "called"], Call("destroy", k, next[k][l], {}))
  /\ UNCHANGED <<link, hooked, entries, alive, held>>

\* The entry leaves the map before the layer below is called.
Remove ==
  LET l == Top.layer  k == Top.kind IN
  /\ At("destroy", "enter")
  /\ Require(l \in reg[k])
  /\ reg' = [reg EXCEPT ![k] = @ \ {l}]
  /\ seen' = [seen EXCEPT ![k][l] = {}]
  /\ given' = [given EXCEPT ![k][l] = {}]
  /\ next' = [next EXCEPT ![k][l] = 0]
  /\ Push([Top EXCEPT !.step = "called"], Call("destroy", k, next[k][l], {}))
  /\ UNCHANGED <<link, hooked, alive, held>>

Destroyed ==
  /\ At("destroy", "called")
  /\ answer = "ok"
  /\ Return("ok")
  /\ UNCHANGED <<link, hooked, entries, alive, held, health>>

-----------------------------------------------------------------------------
(* The driver and the application.                                         *)

AtDriver(op) == stack # <<>> /\ Top.op = op /\ Top.layer = Driver

DriverCreates ==
  /\ AtDriver("create")
  /\ Top.kind = "device" => Top.asked \subseteq DriverExts
  /\ alive' = alive \cup {Top.kind}
  /\ Return("ok")
  /\ UNCHANGED <<link, hooked, entries, held, health>>

\* ERROR_EXTENSION_NOT_PRESENT, or any other error.
DriverRefuses ==
  /\ AtDriver("create")
  /\ Return("error")
  /\ UNCHANGED <<link, hooked, entries, alive, held, health>>

DriverDestroys ==
  /\ AtDriver("destroy")
  /\ alive' = alive \ {Top.kind}
  /\ Return("ok")
  /\ UNCHANGED <<link, hooked, entries, held, health>>

\* The application calls layer 1 through the loader, which makes a new list of
\* links for each creation.
Begin(op, kind, asked) ==
  /\ stack = <<>>
  /\ stack' = <<[Call(op, kind, App, asked) EXCEPT !.step = "called"],
                Call(op, kind, 1, asked)>>
  /\ answer' = "none"
  /\ link' = 1
  /\ held' = IF op = "destroy" THEN held \ {kind} ELSE held
  /\ UNCHANGED <<hooked, entries, alive, health>>

CreateInstance ==
  /\ held = {}
  /\ \E asked \in Requests["instance"] : Begin("create", "instance", asked)

CreateDevice ==
  /\ held = {"instance"}
  /\ \E asked \in Requests["device"] : Begin("create", "device", asked)

DestroyDevice == held = Kinds /\ Begin("destroy", "device", {})

DestroyInstance == held = {"instance"} /\ Begin("destroy", "instance", {})

Deliver ==
  /\ stack # <<>>
  /\ Top.layer = App
  /\ answer # "none"
  /\ stack' = Below
  /\ answer' = "none"
  /\ held' = IF Top.op = "create" /\ answer = "ok" THEN held \cup {Top.kind} ELSE held
  /\ UNCHANGED <<link, hooked, entries, alive, health>>

AppStep == CreateInstance \/ CreateDevice \/ DestroyDevice \/ DestroyInstance

ChainStep ==
  \/ TakeLink \/ LinkMissing \/ HookRefuses \/ HookDeclines \/ HookCallsNext \/ HookReturns
  \/ HookUndoes \/ HookGivesUp \/ CallNext \/ NextReturned \/ Register
  \/ Remove \/ Destroyed
  \/ DriverCreates \/ DriverRefuses \/ DriverDestroys \/ Deliver

Next == health = "running" /\ (AppStep \/ ChainStep)

Spec == Init /\ [][Next]_vars

\* Code runs, the driver answers, and a hook returns.
FairSpec == Spec /\ WF_vars(health = "running" /\ ChainStep)

-----------------------------------------------------------------------------
(* What is correct.                                                        *)

\* No layer dereferences the NULL end of the list, none is asked to create a
\* device on an instance it does not know or to destroy what it does not have.
NoPanic == health = "running"

\* Each layer takes its own link, and finds the list already moved on when its
\* hook runs; so every layer is entered once, in the order of the chain.
OwnLink ==
  \A k \in DOMAIN stack :
    /\ k > 1 => stack[k].layer = stack[k - 1].layer + 1
    /\ stack[k].op = "create" /\ stack[k].layer \in Layers /\ stack[k].step # "enter" =>
         stack[k].link = stack[k].layer
    /\ stack[k].step = "hook" => link = stack[k].layer + 1

\* A layer has an object in its map only while all the layers below have it too
\* and it exists in the driver: what a handler looks up, it can pass on.
Nested ==
  \A kind \in Kinds, l \in Layers :
    l \in reg[kind] => kind \in alive /\ (l + 1)..N \subseteq reg[kind]

\* A creation that fails anywhere leaves nothing behind, and one that succeeds
\* is known to every layer.
AllOrNothing ==
  stack = <<>> => \A kind \in Kinds :
    IF kind \in held THEN kind \in alive /\ reg[kind] = Layers
                     ELSE kind \notin alive /\ reg[kind] = {}

\* The list that the call at depth m was made with is that of the last hook that
\* called on, at depth j, or the application's, less what the layers between have
\* for themselves.
RoutedTo(m) ==
  \E j \in 1..(m - 1) :
    LET below == (j + 1)..(m - 1) IN
    /\ j = 1 \/ stack[j].step = "hooked"
    /\ \A k \in below : stack[k].step # "hooked"
    /\ stack[m].asked = (IF j = 1 THEN stack[1].asked ELSE stack[j].passed)
                          \ UNION {Claims[stack[k].layer] : k \in below}

\* What reaches the driver is the list of the last hook that called on, or that
\* of the application, less what the layers below it have for themselves: an
\* extension of a layer is never the reason why the driver refuses, and no other
\* extension is lost.
ExtensionsRouted ==
  stack # <<>> /\ Top.op = "create" /\ Top.kind = "device" /\ Top.layer = Driver =>
    RoutedTo(Len(stack))

\* create_instance_info gets the VkInstanceCreateInfo the layer was called with,
\* whatever its hook passed on.
InstanceInfoGetsOriginal ==
  \A l \in reg["instance"] : seen["instance"][l] = given["instance"][l]

\* The doc of Layer::create_device_info says the same of VkDeviceCreateInfo.
DeviceInfoGetsOriginal ==
  \A l \in reg["device"] : seen["device"][l] = given["device"][l]

\* The chain as the contract sees it: who has each object, and how far the call
\* of the application is. A creation is asked for until the driver or a layer
\* answers; a destruction, of a hook too, goes down to the driver.
Owners(kind) == reg[kind] \cup (IF kind \in alive THEN {Driver} ELSE {})

Objects == [kind \in Kinds |-> Owners(kind)]

Phase ==
  CASE Top.op = "create" /\ Top.step \in {"enter", "hook", "own"} -> "asked"
    [] Top.op = "create" /\ Top.step \in {"hooked", "called", "made"} /\ answer = "ok" -> "made"
    [] Top.op = "destroy" /\ Top.step = "enter" -> "ending"
    [] OTHER -> "over"

CallOfApp ==
  IF stack = <<>> THEN [op |-> "none", kind |-> "none", phase |-> "none"]
  ELSE [op |-> stack[1].op, kind |-> Top.kind, phase |-> Phase]

Contract == INSTANCE ChainContract WITH owners <- Objects, call <- CallOfApp

\* The layers and their hooks implement the contract.
ImplementsContract == Contract!Spec

\* Every creation and destruction returns to the application.
CallsReturn == stack # <<>> ~> stack = <<>>
=============================================================================
