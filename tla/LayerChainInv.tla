---------------------------- MODULE LayerChainInv ----------------------------
(* The inductive invariant of LayerChain: why its properties hold.         *)
EXTENDS LayerChain

\* A call that waits for the one it made.
Waiting == {"hooked", "undo", "called"}

\* A call is on the layer below that of its caller, creates or destroys as its
\* caller does, or destroys what its caller's hook gives up.
CallerOK(k) ==
  LET caller == stack[k - 1] IN
  /\ caller.step \in Waiting
  /\ stack[k].kind = caller.kind
  /\ stack[k].op = IF caller.step = "undo" THEN "destroy" ELSE caller.op

\* What a call is by the point it has reached.
CallOK(k) ==
  LET c == stack[k] IN
  /\ c.layer = k - 1
  /\ c.layer = App => c.step = "called"
  /\ c.layer = Driver => c.step = "enter"
  /\ c.op = "destroy" => c.step \in {"enter", "called"}
  /\ c.op = "create" /\ c.layer \in Layers /\ c.step # "enter" => c.link = c.layer
  /\ c.kind = "instance" => c.info = c.asked

StackOK ==
  /\ \A k \in DOMAIN stack : CallOK(k)
  /\ \A k \in 2..Len(stack) : CallerOK(k)

\* What the call that runs finds: the answer of the one that ended, and the link
\* of its own layer, or of the next once that was taken.
TopOK ==
  stack # <<>> =>
    /\ Top.step \in {"enter", "hook", "own"} => answer = "none"
    /\ Top.step = "made" => answer = "ok"
    /\ Top.step \in Waiting => answer \in {"ok", "error"}
    /\ Top.step = "undo" \/ Top.op = "destroy" => answer # "error"
    /\ Top.op = "create" /\ Top.step = "enter" => link = Top.layer
    /\ Top.step \in {"hook", "own"} => link = Top.layer + 1

\* The first layer that has the object of the call in flight; N + 2 if the driver
\* has none either. A creation comes back up from the driver, a destruction
\* goes down to it.
FirstInFlight ==
  IF Top.op = "create"
    THEN IF \/ Top.step = "made"
            \/ Top.step \in {"hooked", "called"} /\ answer = "ok"
           THEN Top.layer + 1 ELSE N + 2
    ELSE IF Top.step = "enter" THEN Top.layer ELSE N + 2

First(kind) ==
  IF stack # <<>> /\ Top.kind = kind THEN FirstInFlight
  ELSE IF kind \in held THEN 1 ELSE N + 2

\* Who has an object is known from the call that runs, or from the application.
OwnersOK ==
  \A kind \in Kinds :
    /\ reg[kind] = First(kind)..N
    /\ kind \in alive <=> First(kind) <= Driver

\* A device is held with its instance, and what is created or destroyed is not.
HeldOK ==
  IF stack = <<>> THEN "device" \in held => "instance" \in held
  ELSE held = IF Top.kind = "instance" THEN {} ELSE {"instance"}

\* An entry has the table of the layer below, and what it was made from.
EntriesOK ==
  \A kind \in Kinds : \A l \in reg[kind] :
    /\ next[kind][l] = l + 1
    /\ kind = "instance" => seen[kind][l] = given[kind][l]

ListsOK ==
  \A m \in 2..Len(stack) :
    stack[m].op = "create" /\ stack[m].kind = "device" => RoutedTo(m)

ChainInv ==
  /\ TypeOK /\ NoPanic /\ StackOK /\ TopOK
  /\ OwnersOK /\ HeldOK /\ EntriesOK /\ ListsOK
=============================================================================
