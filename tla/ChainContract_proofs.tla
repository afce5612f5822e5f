------------------------ MODULE ChainContract_proofs -------------------------
(* LayerChain implements ChainContract: who has an object, from the first  *)
(* layer that knows it down to the driver, changes only as the contract    *)
(* says, and everything else a layer, a hook or the driver does is unseen. *)
(*                                                                         *)
(* OwnersOK says who has the objects and TopOK which answer the call that  *)
(* runs finds; so the call at the top of the stack gives the phase.        *)
EXTENDS LayerChain_proofs

SeenVars == <<Objects, held, CallOfApp>>

-----------------------------------------------------------------------------
(* What the contract sees of a state.                                      *)

\* The owners are the layers from the first on, and the driver.
LEMMA OwnersAre ==
  ASSUME ChainInv, NEW kind \in Kinds
  PROVE  Owners(kind) = First(kind)..Driver /\ First(kind) \in 1..(N + 2)
<1>1. First(kind) \in 1..(N + 2)
  <2>1. CASE stack # <<>> /\ Top.kind = kind
    <3>1. /\ Top.layer \in 0..(N + 1) /\ N \in Nat \ {0}
          /\ Top.layer = App => Top.step = "called"
          /\ Top.op \in {"create", "destroy"}
      BY <2>1, TopOfStack DEF CallOK, Calls
    <3>2. Top.op = "destroy" /\ Top.step = "enter" => Top.layer \in 1..(N + 1)
      BY <3>1 DEF App
    <3> QED
      BY <2>1, <3>1, <3>2 DEF First, FirstInFlight
  <2>2. CASE ~ (stack # <<>> /\ Top.kind = kind)
    BY <2>2, ChainAssumption DEF First
  <2> QED
    BY <2>1, <2>2
<1>2. reg[kind] = First(kind)..N /\ (kind \in alive <=> First(kind) <= N + 1)
  BY DEF ChainInv, OwnersOK, Driver
<1>3. N \in Nat \ {0}
  BY ChainAssumption
<1>4. ASSUME NEW f \in 1..(N + 2)
      PROVE  (f..N) \cup (IF f <= N + 1 THEN {N + 1} ELSE {}) = f..(N + 1)
  BY <1>3
<1>5. Owners(kind) = (First(kind)..N) \cup (IF First(kind) <= N + 1 THEN {N + 1} ELSE {})
  BY <1>2 DEF Owners, Driver
<1> QED
  BY <1>1, <1>4, <1>5 DEF Driver

\* The owners of the object in flight.
LEMMA InFlight ==
  ASSUME ChainInv, stack # <<>>
  PROVE  /\ Top.kind \in Kinds
         /\ Owners(Top.kind) = FirstInFlight..Driver
         /\ Objects[Top.kind] = FirstInFlight..Driver
         /\ CallOfApp = [op |-> stack[1].op, kind |-> Top.kind, phase |-> Phase]
         /\ CallOfApp.kind = Top.kind /\ CallOfApp.phase = Phase
<1>1. Top.kind \in Kinds
  BY TopOfStack DEF Calls
<1>2. First(Top.kind) = FirstInFlight
  BY DEF First
<1> QED
  BY <1>1, <1>2, OwnersAre DEF Objects, CallOfApp

\* One object changes.
LEMMA ObjectChanges ==
  ASSUME NEW k \in Kinds, NEW new, Owners(k)' = new,
         \A x \in Kinds \ {k} : Owners(x)' = Owners(x)
  PROVE  Objects' = [Objects EXCEPT ![k] = new]
BY DEF Objects

\* No object changes.
LEMMA ObjectsStay == ASSUME UNCHANGED <<reg, alive>> PROVE Objects' = Objects
BY DEF Objects, Owners

-----------------------------------------------------------------------------
(* The stack under a step.                                                 *)

\* A call that is not the application's is above it.
LEMMA Above ==
  ASSUME ChainInv, stack # <<>>, Top.layer # App
  PROVE  /\ Len(stack) \in Nat /\ Len(stack) >= 2
         /\ Below \in Seq(Calls) /\ Len(Below) = Len(stack) - 1
         /\ Below[1] = stack[1]
<1>1. Len(stack) \in Nat /\ Len(stack) >= 2 /\ stack \in Seq(Calls)
  BY TopOfStack DEF App
<1>2. 1 \in 1..(Len(stack) - 1)
  BY <1>1
<1> QED
  BY <1>1, <1>2, TopFacts

\* A sequence that gets an element, whatever it is.
LEMMA Appended ==
  ASSUME NEW S, NEW s \in Seq(S), NEW c
  PROVE  /\ Append(s, c) \in Seq(S \cup {c})
         /\ Len(Append(s, c)) = Len(s) + 1
         /\ Append(s, c)[Len(s) + 1] = c
         /\ \A k \in 1..Len(s) : Append(s, c)[k] = s[k]
<1>1. s \in Seq(S \cup {c}) /\ c \in S \cup {c}
  OBVIOUS
<1> QED
  BY <1>1

\* After a step of a call the application's is still the first.
LEMMA BecomeTop ==
  ASSUME ChainInv, stack # <<>>, Top.layer # App, NEW c, Become(c)
  PROVE  stack' # <<>> /\ Top' = c /\ stack'[1] = stack[1]
<1>1. stack' = Append(Below, c)
  BY DEF Become
<1>2. Len(stack') = Len(Below) + 1 /\ Len(Below) \in Nat \ {0}
      /\ stack'[Len(Below) + 1] = c /\ stack'[1] = Below[1]
  BY <1>1, Above, Appended
<1>3. stack' # <<>>
  BY <1>2
<1> QED
  BY <1>2, <1>3, Above DEF Top

LEMMA PushTop ==
  ASSUME ChainInv, stack # <<>>, Top.layer # App, NEW w, NEW c, Push(w, c)
  PROVE  stack' # <<>> /\ Top' = c /\ stack'[1] = stack[1] /\ answer' = "none"
<1>1. stack' = Append(Append(Below, w), c) /\ answer' = "none"
  BY DEF Push
<1>2. PICK s \in Seq(Calls \cup {w}) : s = Append(Below, w)
  BY Above, Appended
<1>3. Len(s) \in Nat \ {0} /\ s[1] = stack[1]
  BY <1>2, Above, Appended
<1>4. Len(stack') = Len(s) + 1 /\ stack'[Len(s) + 1] = c /\ stack'[1] = s[1]
  BY <1>1, <1>2, <1>3, Appended
<1>5. stack' # <<>>
  BY <1>3, <1>4
<1> QED
  BY <1>1, <1>3, <1>4, <1>5 DEF Top

\* A call that returns leaves the phase its result says: the object is made, or
\* the call of the application is over.
LEMMA ReturnTop ==
  ASSUME ChainInv, stack # <<>>, Top.layer # App, NEW result, Return(result)
  PROVE  /\ stack' # <<>> /\ stack'[1] = stack[1] /\ Top'.kind = Top.kind
         /\ Phase' = IF Top.op = "create" /\ result = "ok" THEN "made" ELSE "over"
<1>1. PICK n \in Nat \ {0} :
        /\ stack \in Seq(Calls) /\ Len(stack) = n /\ Top = stack[n] /\ n >= 2
  BY TopOfStack, Above
<1>2. /\ stack' # <<>> /\ Top' = stack[n - 1]
      /\ \A k \in 1..(n - 1) : stack'[k] = stack[k]
  BY <1>1, ReturnFacts
<1>3. n \in 2..Len(stack) /\ n - 1 \in DOMAIN stack /\ 1 \in 1..(n - 1)
  BY <1>1
<1>4. CallerOK(n) /\ CallOK(n - 1)
  BY <1>3 DEF ChainInv, StackOK
<1>5. /\ Top'.step \in Waiting /\ Top'.kind = Top.kind
      /\ Top.op = IF Top'.step = "undo" THEN "destroy" ELSE Top'.op
      /\ Top'.op = "destroy" => Top'.step = "called"
      /\ Top'.op \in {"create", "destroy"}
  <2>1. stack[n - 1].op \in {"create", "destroy"}
    <3>1. stack[n - 1] \in Calls
      BY <1>1, <1>3
    <3> QED
      BY <3>1 DEF Calls
  <2> QED
    BY <1>1, <1>2, <1>4, <2>1 DEF CallerOK, CallOK, Waiting
<1>6. answer' = result
  BY DEF Return
<1>7. Phase' = IF Top.op = "create" /\ result = "ok" THEN "made" ELSE "over"
  BY <1>5, <1>6 DEF Phase, Waiting
<1> QED
  BY <1>2, <1>3, <1>5, <1>7

-----------------------------------------------------------------------------
(* Steps the contract does not see.                                        *)

\* The call goes on in the same phase.
LEMMA SamePhase ==
  ASSUME ChainInv, stack # <<>>, stack' # <<>>, stack'[1] = stack[1],
         Top'.kind = Top.kind, Phase' = Phase, UNCHANGED <<entries, alive, held>>
  PROVE  UNCHANGED SeenVars
<1>1. CallOfApp' = CallOfApp
  BY DEF CallOfApp
<1>2. Objects' = Objects
  BY ObjectsStay DEF entries
<1> QED
  BY <1>1, <1>2 DEF SeenVars

\* A creation goes down the chain: links are taken, hooks decline or call on, the
\* layer below is called with another list.
LEMMA GoesDown ==
  ASSUME ChainInv, TakeLink \/ HookDeclines \/ HookCallsNext \/ CallNext
  PROVE  UNCHANGED SeenVars
<1>1. /\ stack # <<>> /\ Top.op = "create" /\ Top.step \in {"enter", "hook", "own"}
      /\ Top.layer \in Layers /\ Top.layer # App /\ UNCHANGED <<entries, alive, held>>
  <2>1. /\ stack # <<>> /\ Top.op = "create" /\ Top.step \in {"enter", "hook", "own"}
        /\ Top.layer \in Layers
    BY DEF TakeLink, HookDeclines, HookCallsNext, CallNext, At
  <2>2. UNCHANGED <<entries, alive, held>>
    BY DEF TakeLink, HookDeclines, HookCallsNext, CallNext
  <2> QED
    BY <2>1, <2>2 DEF Layers, App
<1>2. Phase = "asked"
  BY <1>1 DEF Phase
<1>3. Top \in Calls
  BY <1>1, TopOfStack
<1>4. ASSUME TakeLink \/ HookDeclines
      PROVE  /\ stack' # <<>> /\ stack'[1] = stack[1] /\ Top'.kind = Top.kind
             /\ Top'.op = "create" /\ Top'.step \in {"hook", "own"}
  <2>1. PICK c : /\ Become(c) /\ c.kind = Top.kind /\ c.op = Top.op
                 /\ c.step \in {"hook", "own"}
    <3>1. CASE TakeLink
      <4> DEFINE c == [Top EXCEPT !.link = IF link \in Layers THEN link ELSE 0,
                                  !.step = IF Top.layer \in hooked[Top.kind]
                                             THEN "hook" ELSE "own"]
      <4>1. Become(c)
        BY <3>1 DEF TakeLink
      <4>2. c.kind = Top.kind /\ c.op = Top.op /\ c.step \in {"hook", "own"}
        BY <1>3 DEF Calls
      <4> QED
        BY <4>1, <4>2
    <3>2. CASE HookDeclines
      <4> DEFINE c == [Top EXCEPT !.step = "own"]
      <4>1. Become(c)
        BY <3>2 DEF HookDeclines
      <4>2. c.kind = Top.kind /\ c.op = Top.op /\ c.step \in {"hook", "own"}
        BY <1>3 DEF Calls
      <4> QED
        BY <4>1, <4>2
    <3> QED
      BY <1>4, <3>1, <3>2
  <2> QED
    BY <1>1, <2>1, BecomeTop
<1>5. ASSUME HookCallsNext \/ CallNext
      PROVE  /\ stack' # <<>> /\ stack'[1] = stack[1] /\ Top'.kind = Top.kind
             /\ Top'.op = "create" /\ Top'.step = "enter"
  <2>1. PICK w, below, asked : Push(w, Call("create", Top.kind, below, asked))
    BY <1>5 DEF HookCallsNext, CallNext
  <2> QED
    BY <1>1, <2>1, PushTop DEF Call
<1>6. Phase' = "asked" /\ stack' # <<>> /\ stack'[1] = stack[1] /\ Top'.kind = Top.kind
  BY <1>4, <1>5 DEF Phase
<1> QED
  BY <1>1, <1>2, <1>6, SamePhase

\* An answer goes up the chain: a caller learns that the object was made, or that
\* the layer below failed; a hook that undid it gives up; a destruction is over.
LEMMA GoesUp ==
  ASSUME ChainInv, HookReturns \/ NextReturned \/ HookGivesUp \/ Destroyed
  PROVE  UNCHANGED SeenVars
<1>1. /\ stack # <<>> /\ Top.layer \in Layers /\ Top.layer # App /\ Top \in Calls
      /\ UNCHANGED <<entries, alive, held>> /\ answer \in {"ok", "error"}
  <2>1. stack # <<>> /\ Top.layer \in Layers /\ Top.layer # App
        /\ UNCHANGED <<entries, alive, held>> /\ Top.step \in Waiting
    BY DEF HookReturns, NextReturned, HookGivesUp, Destroyed, At, Layers, App, Waiting
  <2> QED
    BY <2>1, TopOfStack DEF ChainInv, TopOK
<1>2. CASE (HookReturns \/ NextReturned) /\ answer = "ok"
  <2>1. /\ Become([Top EXCEPT !.step = "made"]) /\ UNCHANGED answer
        /\ Top.op = "create" /\ Top.step \in {"hooked", "called"}
    BY <1>2 DEF HookReturns, NextReturned, At
  <2>2. /\ stack' # <<>> /\ stack'[1] = stack[1]
        /\ Top' = [Top EXCEPT !.step = "made"]
    BY <1>1, <2>1, BecomeTop
  <2>3. Top'.kind = Top.kind /\ Top'.op = "create" /\ Top'.step = "made"
    BY <1>1, <2>1, <2>2 DEF Calls
  <2>4. Phase = "made" /\ Phase' = "made"
    BY <1>2, <2>1, <2>3 DEF Phase
  <2> QED
    BY <1>1, <2>2, <2>3, <2>4, SamePhase
<1>3. CASE \/ (HookReturns \/ NextReturned) /\ answer = "error"
           \/ HookGivesUp \/ Destroyed
  <2>1. PICK result \in {"ok", "error"} :
          Return(result) /\ (result = "ok" => Top.op = "destroy")
    BY <1>3 DEF HookReturns, NextReturned, HookGivesUp, Destroyed, At
  <2>2. /\ stack' # <<>> /\ stack'[1] = stack[1] /\ Top'.kind = Top.kind
        /\ Phase' = "over"
    BY <1>1, <2>1, ReturnTop
  <2>3. Phase = "over"
    BY <1>3 DEF HookReturns, NextReturned, HookGivesUp, Destroyed, At, Phase
  <2> QED
    BY <1>1, <2>2, <2>3, SamePhase
<1> QED
  BY <1>1, <1>2, <1>3

-----------------------------------------------------------------------------
(* Steps of the contract.                                                  *)

\* The phase changes, or the owners of the object in flight.
LEMMA Passed ==
  ASSUME ChainInv, stack # <<>>, stack' # <<>>, stack'[1] = stack[1],
         Top'.kind = Top.kind, UNCHANGED held
  PROVE  Contract!Pass(Phase, Phase')
BY InFlight DEF Contract!Pass, CallOfApp

\* A layer or hook refuses, or the driver: nobody has the object.
LEMMA Fails ==
  ASSUME ChainInv, LinkMissing \/ HookRefuses \/ DriverRefuses
  PROVE  Contract!Fail
<1>1. /\ stack # <<>> /\ Top.op = "create" /\ Top.layer # App
      /\ Top.layer = Driver \/ Top.step \in {"enter", "hook"}
      /\ Return("error") /\ UNCHANGED <<entries, alive, held>>
  BY ChainAssumption DEF LinkMissing, HookRefuses, DriverRefuses, At, AtDriver,
     Layers, Driver, App
<1>2. Top.step \in {"enter", "hook"}
  BY <1>1, TopOfStack DEF CallOK
<1>3. /\ stack' # <<>> /\ stack'[1] = stack[1] /\ Top'.kind = Top.kind
      /\ Phase' = "over" /\ Phase = "asked"
  BY <1>1, <1>2, ReturnTop DEF Phase
<1>4. Objects[CallOfApp.kind] = {}
  <2>1. FirstInFlight = N + 2 /\ (N + 2)..(N + 1) = {}
    BY <1>1, <1>2, ChainAssumption DEF FirstInFlight
  <2>2. FirstInFlight..Driver = {}
    BY <2>1 DEF Driver
  <2> QED
    BY <1>1, <2>2, InFlight
<1>5. Objects' = Objects
  BY <1>1, ObjectsStay DEF entries
<1>6. Contract!Pass("asked", "over")
  BY <1>1, <1>3, Passed
<1> QED
  BY <1>4, <1>5, <1>6 DEF Contract!Fail, Objects

\* The driver makes the object.
LEMMA Makes == ASSUME ChainInv, DriverCreates PROVE Contract!Make
<1>1. /\ stack # <<>> /\ Top.op = "create" /\ Top.layer = Driver /\ Top.layer # App
      /\ Return("ok") /\ UNCHANGED <<entries, held>>
      /\ alive' = alive \cup {Top.kind}
  BY ChainAssumption DEF DriverCreates, AtDriver, Driver, App
<1>2. Top.step = "enter"
  BY <1>1, TopOfStack DEF CallOK
<1>3. /\ stack' # <<>> /\ stack'[1] = stack[1] /\ Top'.kind = Top.kind
      /\ Phase' = "made" /\ Phase = "asked"
  BY <1>1, <1>2, ReturnTop DEF Phase
<1>4. PICK k \in Kinds : k = Top.kind
  BY <1>1, InFlight
<1>5. Objects[k] = {} /\ Owners(k) = {} /\ CallOfApp.kind = k
  <2>1. FirstInFlight = N + 2 /\ (N + 2)..(N + 1) = {}
    BY <1>1, <1>2, ChainAssumption DEF FirstInFlight
  <2>2. FirstInFlight..Driver = {}
    BY <2>1 DEF Driver
  <2> QED
    BY <1>1, <1>4, <2>2, InFlight
<1>6. Objects' = [Objects EXCEPT ![k] = {Driver}]
  <2>1. Owners(k)' = {Driver}
    BY <1>1, <1>4, <1>5 DEF Owners, entries
  <2>2. \A x \in Kinds \ {k} : Owners(x)' = Owners(x)
    BY <1>1, <1>4 DEF Owners, entries
  <2> QED
    BY <2>1, <2>2, ObjectChanges
<1>7. Contract!Pass("asked", "made")
  BY <1>1, <1>3, Passed
<1> QED
  BY <1>5, <1>6, <1>7 DEF Contract!Make, Contract!OwnersBecome, Objects,
     Contract!Driver, Driver

\* A layer has the object next after those below it.
LEMMA Rises == ASSUME ChainInv, Register PROVE \E l \in 1..N : Contract!Rise(l)
<1>1. /\ stack # <<>> /\ Top.op = "create" /\ Top.step = "made" /\ Top.layer \in Layers
      /\ Return("ok") /\ UNCHANGED <<alive, held>>
      /\ reg' = [reg EXCEPT ![Top.kind] = @ \cup {Top.layer}]
  BY DEF Register, At
<1>2. PICK l \in 1..N : l = Top.layer /\ l # App
  BY <1>1 DEF Layers, App
<1>3. answer = "ok"
  BY <1>1 DEF ChainInv, TopOK
<1>4. /\ stack' # <<>> /\ stack'[1] = stack[1] /\ Top'.kind = Top.kind
      /\ Phase' = "made" /\ Phase = "made"
  BY <1>1, <1>2, <1>3, ReturnTop DEF Phase
<1>5. PICK k \in Kinds : k = Top.kind
  BY <1>1, InFlight
<1>6. Objects[k] = (l + 1)..(N + 1) /\ Owners(k) = (l + 1)..(N + 1) /\ CallOfApp.kind = k
  <2>1. FirstInFlight = l + 1
    BY <1>1, <1>2 DEF FirstInFlight
  <2>2. FirstInFlight..Driver = (l + 1)..(N + 1)
    BY <2>1 DEF Driver
  <2> QED
    BY <1>1, <1>5, <2>2, InFlight
<1>7. reg \in [Kinds -> SUBSET Layers]
  BY DEF ChainInv, TypeOK
<1>8. Objects' = [Objects EXCEPT ![k] = l..(N + 1)]
  <2>1. Owners(k)' = Owners(k) \cup {l}
    BY <1>1, <1>2, <1>5, <1>7 DEF Owners
  <2>2. Owners(k)' = l..(N + 1)
    BY <1>2, <1>6, <2>1, ChainAssumption
  <2>3. \A x \in Kinds \ {k} : Owners(x)' = Owners(x)
    BY <1>1, <1>5, <1>7 DEF Owners
  <2> QED
    BY <2>2, <2>3, ObjectChanges
<1>9. Contract!Pass("made", "made")
  BY <1>1, <1>4, Passed
<1>10. Contract!Rise(l)
  BY <1>6, <1>8, <1>9 DEF Contract!Rise, Contract!OwnersBecome, Contract!From,
     Contract!Driver, Objects
<1> QED
  BY <1>10

\* A hook gives up what the layers below made, before its own layer knows it.
LEMMA Undoes == ASSUME ChainInv, HookUndoes PROVE \E l \in 1..N : Contract!Undo(l)
<1>1. /\ stack # <<>> /\ Top.op = "create" /\ Top.step = "hooked" /\ Top.layer \in Layers
      /\ answer = "ok" /\ UNCHANGED <<entries, alive, held>>
      /\ Push([Top EXCEPT !.step = "undo"], Call("destroy", Top.kind, Top.link + 1, {}))
  BY DEF HookUndoes, At
<1>2. PICK l \in 1..N : l = Top.layer /\ l # App
  BY <1>1 DEF Layers, App
<1>3. /\ stack' # <<>> /\ stack'[1] = stack[1]
      /\ Top' = Call("destroy", Top.kind, Top.link + 1, {})
  BY <1>1, <1>2, PushTop
<1>4. Top'.kind = Top.kind /\ Phase' = "ending" /\ Phase = "made"
  BY <1>1, <1>3 DEF Phase, Call
<1>5. Objects[CallOfApp.kind] = (l + 1)..(N + 1)
  <2>1. FirstInFlight = l + 1
    BY <1>1, <1>2 DEF FirstInFlight
  <2>2. FirstInFlight..Driver = (l + 1)..(N + 1)
    BY <2>1 DEF Driver
  <2> QED
    BY <1>1, <2>2, InFlight
<1>6. Objects' = Objects
  BY <1>1, ObjectsStay DEF entries
<1>7. Contract!Pass("made", "ending")
  BY <1>1, <1>3, <1>4, Passed
<1>8. Contract!Undo(l)
  BY <1>5, <1>6, <1>7 DEF Contract!Undo, Contract!From, Contract!Driver, Objects
<1> QED
  BY <1>8

\* The first layer that has the object forgets it, and then calls the next one.
LEMMA Sinks == ASSUME ChainInv, Remove PROVE \E l \in 1..(N + 1) : Contract!Sink(l)
<1>1. /\ stack # <<>> /\ Top.op = "destroy" /\ Top.step = "enter" /\ Top.layer \in Layers
      /\ UNCHANGED <<alive, held>>
      /\ reg' = [reg EXCEPT ![Top.kind] = @ \ {Top.layer}]
      /\ \E w, below : Push(w, Call("destroy", Top.kind, below, {}))
  BY DEF Remove, At
<1>2. PICK l \in 1..N : l = Top.layer /\ l # App
  BY <1>1 DEF Layers, App
<1>3. PICK w, below : Push(w, Call("destroy", Top.kind, below, {}))
  BY <1>1
<1>4. /\ stack' # <<>> /\ stack'[1] = stack[1]
      /\ Top' = Call("destroy", Top.kind, below, {})
  BY <1>1, <1>2, <1>3, PushTop
<1>5. Top'.kind = Top.kind /\ Phase' = "ending" /\ Phase = "ending"
  BY <1>1, <1>4 DEF Phase, Call
<1>6. PICK k \in Kinds : k = Top.kind
  BY <1>1, InFlight
<1>7. Objects[k] = l..(N + 1) /\ Owners(k) = l..(N + 1) /\ CallOfApp.kind = k
  <2>1. FirstInFlight = l
    BY <1>1, <1>2 DEF FirstInFlight
  <2>2. FirstInFlight..Driver = l..(N + 1)
    BY <2>1 DEF Driver
  <2> QED
    BY <1>1, <1>6, <2>2, InFlight
<1>8. reg \in [Kinds -> SUBSET Layers] /\ N \in Nat
  BY ChainAssumption DEF ChainInv, TypeOK
<1>9. Objects' = [Objects EXCEPT ![k] = (l + 1)..(N + 1)]
  <2>1. Driver # l
    BY <1>2, <1>8 DEF Driver
  <2>2. Owners(k)' = Owners(k) \ {l}
    BY <1>1, <1>2, <1>6, <1>8, <2>1 DEF Owners
  <2>3. Owners(k)' = (l + 1)..(N + 1)
    BY <1>2, <1>7, <1>8, <2>2
  <2>4. \A x \in Kinds \ {k} : Owners(x)' = Owners(x)
    BY <1>1, <1>6, <1>8 DEF Owners
  <2> QED
    BY <2>3, <2>4, ObjectChanges
<1>10. l # N + 1 /\ l \in 1..(N + 1)
  BY <1>2, <1>8
<1>11. Contract!Pass("ending", "ending")
  BY <1>1, <1>4, <1>5, Passed
<1>12. Contract!Sink(l)
  BY <1>7, <1>9, <1>10, <1>11 DEF Contract!Sink, Contract!OwnersBecome, Contract!From,
     Contract!Driver, Objects
<1> QED
  BY <1>10, <1>12

\* The driver destroys the object when no layer knows it any more.
LEMMA Ends == ASSUME ChainInv, DriverDestroys PROVE Contract!Sink(N + 1)
<1>1. /\ stack # <<>> /\ Top.op = "destroy" /\ Top.layer = Driver /\ Top.layer # App
      /\ Return("ok") /\ UNCHANGED <<entries, held>>
      /\ alive' = alive \ {Top.kind}
  BY ChainAssumption DEF DriverDestroys, AtDriver, Driver, App
<1>2. Top.step = "enter"
  BY <1>1, TopOfStack DEF CallOK
<1>3. /\ stack' # <<>> /\ stack'[1] = stack[1] /\ Top'.kind = Top.kind
      /\ Phase' = "over" /\ Phase = "ending"
  BY <1>1, <1>2, ReturnTop DEF Phase
<1>4. PICK k \in Kinds : k = Top.kind
  BY <1>1, InFlight
<1>5. Objects[k] = (N + 1)..(N + 1) /\ CallOfApp.kind = k /\ reg[k] = {}
  <2>1. FirstInFlight = N + 1 /\ First(k) = N + 1
    BY <1>1, <1>2, <1>4 DEF FirstInFlight, First, Driver
  <2>2. FirstInFlight..Driver = (N + 1)..(N + 1)
    BY <2>1 DEF Driver
  <2>3. reg[k] = (N + 1)..N
    BY <1>4, <2>1 DEF ChainInv, OwnersOK
  <2>4. (N + 1)..N = {}
    BY ChainAssumption
  <2> QED
    BY <1>1, <1>4, <2>2, <2>3, <2>4, InFlight
<1>6. Objects' = [Objects EXCEPT ![k] = {}]
  <2>1. Owners(k)' = {}
    BY <1>1, <1>4, <1>5 DEF Owners, entries
  <2>2. \A x \in Kinds \ {k} : Owners(x)' = Owners(x)
    BY <1>1, <1>4 DEF Owners, entries
  <2> QED
    BY <2>1, <2>2, ObjectChanges
<1>7. Contract!Pass("ending", "over")
  BY <1>1, <1>3, Passed
<1>8. ((N + 1) + 1)..(N + 1) = {}
  BY ChainAssumption
<1> QED
  BY <1>5, <1>6, <1>7, <1>8 DEF Contract!Sink, Contract!OwnersBecome, Contract!From,
     Contract!Driver, Objects

\* The application learns the result.
LEMMA Delivers == ASSUME ChainInv, Deliver PROVE Contract!Succeed \/ Contract!End
<1>1. /\ stack # <<>> /\ Top.layer = App /\ answer # "none"
      /\ stack' = Below /\ UNCHANGED <<entries, alive>>
      /\ held' = (IF Top.op = "create" /\ answer = "ok" THEN held \cup {Top.kind} ELSE held)
  BY DEF Deliver
<1>2. /\ Top \in Calls /\ Top.step = "called" /\ Len(stack) = 1
      /\ stack \in Seq(Calls) /\ N \in Nat \ {0}
  BY <1>1, TopOfStack DEF CallOK, App
<1>3. stack' = <<>>
  <2>1. stack' \in Seq(Calls) /\ Len(stack') = 0
    BY <1>1, <1>2, TopFacts
  <2> QED
    BY <2>1
<1>4. CallOfApp' = [op |-> "none", kind |-> "none", phase |-> "none"]
  BY <1>3 DEF CallOfApp
<1>5. Objects' = Objects
  BY <1>1, ObjectsStay DEF entries
<1>6. Contract!Return
  BY <1>4, <1>5 DEF Contract!Return, Contract!NoCall, Objects
<1>7. answer \in {"ok", "error"} /\ (Top.op = "destroy" => answer = "ok")
      /\ Top.op \in {"create", "destroy"}
  BY <1>1, <1>2 DEF ChainInv, TopOK, Waiting, Calls
<1>8. CASE Top.op = "create" /\ answer = "ok"
  <2>1. Phase = "made"
    BY <1>2, <1>8 DEF Phase
  <2>2. FirstInFlight = 1
    BY <1>1, <1>2, <1>8 DEF FirstInFlight, App
  <2>3. Objects[CallOfApp.kind] = 1..(N + 1)
    BY <1>1, <2>2, InFlight DEF Driver
  <2>4. held' = held \cup {CallOfApp.kind} /\ CallOfApp.phase = "made"
    BY <1>1, <1>8, <2>1, InFlight
  <2> QED
    BY <1>6, <2>3, <2>4 DEF Contract!Succeed, Contract!From, Contract!Driver, Objects
<1>9. CASE ~ (Top.op = "create" /\ answer = "ok")
  <2>1. Phase = "over"
    BY <1>2, <1>7, <1>9 DEF Phase
  <2>2. FirstInFlight = N + 2 /\ (N + 2)..(N + 1) = {}
    BY <1>2, <1>7, <1>9 DEF FirstInFlight
  <2>3. FirstInFlight..Driver = {}
    BY <2>2 DEF Driver
  <2>4. Objects[CallOfApp.kind] = {}
    BY <1>1, <2>3, InFlight
  <2>5. UNCHANGED held /\ CallOfApp.phase = "over"
    BY <1>1, <1>9, <2>1, InFlight
  <2> QED
    BY <1>6, <2>4, <2>5 DEF Contract!End, Objects
<1> QED
  BY <1>8, <1>9

\* The application begins a call.
LEMMA BeginsSeen ==
  ASSUME NEW op \in {"create", "destroy"}, NEW kind \in Kinds, NEW asked,
         Begin(op, kind, asked)
  PROVE  /\ CallOfApp = [op |-> "none", kind |-> "none", phase |-> "none"]
         /\ CallOfApp' = [op |-> op, kind |-> kind,
                          phase |-> IF op = "create" THEN "asked" ELSE "ending"]
         /\ Objects' = Objects
         /\ held' = IF op = "destroy" THEN held \ {kind} ELSE held
<1> DEFINE w == [Call(op, kind, App, asked) EXCEPT !.step = "called"]
           c == Call(op, kind, 1, asked)
<1>1. /\ stack = <<>> /\ stack' = <<w, c>>
      /\ held' = (IF op = "destroy" THEN held \ {kind} ELSE held)
      /\ UNCHANGED <<entries, alive>>
  BY DEF Begin
<1>2. w.op = op /\ c.op = op /\ c.kind = kind /\ c.step = "enter"
  BY DEF Call
<1> HIDE DEF w, c
<1>3. stack' # <<>> /\ stack'[1] = w /\ Top' = c
  BY <1>1 DEF Top
<1>4. Phase' = IF op = "create" THEN "asked" ELSE "ending"
  BY <1>2, <1>3 DEF Phase
<1>5. CallOfApp' = [op |-> op, kind |-> kind,
                    phase |-> IF op = "create" THEN "asked" ELSE "ending"]
  BY <1>2, <1>3, <1>4 DEF CallOfApp
<1>6. CallOfApp = [op |-> "none", kind |-> "none", phase |-> "none"]
  BY <1>1 DEF CallOfApp
<1>7. Objects' = Objects
  BY <1>1, ObjectsStay DEF entries
<1> QED
  BY <1>1, <1>5, <1>6, <1>7

LEMMA AppSeen ==
  ASSUME ChainInv, AppStep
  PROVE  \E kind \in Kinds : Contract!Create(kind) \/ Contract!Destroy(kind)
<1>1. ASSUME NEW kind \in Kinds, NEW asked, Begin("create", kind, asked),
             held = IF kind = "instance" THEN {} ELSE {"instance"}
      PROVE  Contract!Create(kind)
  BY <1>1, BeginsSeen DEF Contract!Create, Contract!NoCall, Objects
<1>2. ASSUME NEW kind \in Kinds, NEW asked, Begin("destroy", kind, asked),
             held = IF kind = "instance" THEN {"instance"} ELSE Kinds
      PROVE  Contract!Destroy(kind)
  BY <1>2, BeginsSeen DEF Contract!Destroy, Contract!NoCall, Contract!Kinds, Kinds, Objects
<1>3. CASE CreateInstance \/ CreateDevice
  BY <1>1, <1>3 DEF CreateInstance, CreateDevice, Kinds
<1>4. CASE DestroyInstance \/ DestroyDevice
  BY <1>2, <1>4 DEF DestroyInstance, DestroyDevice, Kinds
<1> QED
  BY <1>3, <1>4 DEF AppStep

-----------------------------------------------------------------------------
(* The theorem.                                                            *)

LEMMA StepSeen ==
  ASSUME ChainInv, Next
  PROVE  Contract!Next \/ UNCHANGED SeenVars
<1>1. CASE AppStep
  BY <1>1, AppSeen DEF Contract!Next, Contract!Kinds, Kinds
<1>2. CASE TakeLink \/ HookDeclines \/ HookCallsNext \/ CallNext
  BY <1>2, GoesDown
<1>3. CASE HookReturns \/ NextReturned \/ HookGivesUp \/ Destroyed
  BY <1>3, GoesUp
<1>4. CASE LinkMissing \/ HookRefuses \/ DriverRefuses
  BY <1>4, Fails DEF Contract!Next
<1>5. CASE DriverCreates
  BY <1>5, Makes DEF Contract!Next
<1>6. CASE Register
  BY <1>6, Rises DEF Contract!Next
<1>7. CASE HookUndoes
  BY <1>7, Undoes DEF Contract!Next
<1>8. CASE Remove
  BY <1>8, Sinks DEF Contract!Next, Contract!Driver
<1>9. CASE DriverDestroys
  <2>1. N + 1 \in 1..(N + 1)
    BY ChainAssumption
  <2> QED
    BY <1>9, <2>1, Ends DEF Contract!Next, Contract!Driver
<1>10. CASE Deliver
  BY <1>10, Delivers DEF Contract!Next
<1> QED
  BY <1>1, <1>2, <1>3, <1>4, <1>5, <1>6, <1>7, <1>8, <1>9, <1>10 DEF Next, ChainStep

\* The layers, hooks and driver implement the contract, in a chain of any length
\* and with a failure at any point: the object of a creation is made below and
\* becomes known upwards one layer after the other, or nothing of it stays; that
\* of a destruction is forgotten downwards, and the driver destroys it last.
THEOREM Implements == Spec => ImplementsContract
<1>1. Init => Contract!Init
  <2> SUFFICES ASSUME Init PROVE Contract!Init
    OBVIOUS
  <2>1. \A kind \in Kinds : Owners(kind) = {}
    BY DEF Init, Owners
  <2>2. held = {} /\ CallOfApp = [op |-> "none", kind |-> "none", phase |-> "none"]
    BY DEF Init, CallOfApp
  <2> QED
    BY <2>1, <2>2 DEF Contract!Init, Contract!NoCall, Contract!Kinds, Kinds, Objects
<1>2. ASSUME ChainInv, [Next]_vars
      PROVE  [Contract!Next]_(Contract!cvars)
  <2>1. CASE UNCHANGED vars
    BY <2>1 DEF vars, entries, Contract!cvars, Objects, Owners, CallOfApp, Phase, Top
  <2>2. CASE Next
    <3>1. Contract!Next \/ UNCHANGED SeenVars
      BY <1>2, <2>2, StepSeen
    <3> QED
      BY <3>1 DEF Contract!cvars, SeenVars, Objects
  <2> QED
    BY <1>2, <2>1, <2>2
<1> QED
  BY <1>1, <1>2, Inductive, PTL DEF Spec, ImplementsContract, Contract!Spec

-----------------------------------------------------------------------------
(* What the contract promises.                                             *)

ContractInv == Contract!TypeOK /\ Contract!Whole

\* The layers that know an object, from one layer down.
LEMMA FromFacts ==
  /\ \A l \in 1..(N + 2) : Contract!From(l) = {} <=> l = N + 2
  /\ Contract!From(N + 1) = {N + 1}
<1> USE ChainAssumption DEF Contract!From, Contract!Driver
<1>1. \A l \in 1..(N + 2) : l..(N + 1) = {} <=> l = N + 2
  <2>1. ASSUME NEW l \in 1..(N + 2), l # N + 2 PROVE l \in l..(N + 1)
    BY <2>1
  <2>2. (N + 2)..(N + 1) = {}
    OBVIOUS
  <2> QED
    BY <2>1, <2>2
<1>2. (N + 1)..(N + 1) = {N + 1}
  OBVIOUS
<1> QED
  BY <1>1, <1>2

\* A call of the application begins, or ends with everything or nothing.
LEMMA ContractCalls ==
  ASSUME ContractInv,
         \/ \E kind \in Contract!Kinds : Contract!Create(kind) \/ Contract!Destroy(kind)
         \/ Contract!Succeed \/ Contract!End
  PROVE  ContractInv'
<1> USE DEF ContractInv, Contract!TypeOK, Contract!Whole, Contract!Kinds, Contract!NoCall
<1>1. ASSUME NEW kind \in Contract!Kinds, Contract!Create(kind) PROVE ContractInv'
  BY <1>1 DEF Contract!Create
<1>2. ASSUME NEW kind \in Contract!Kinds, Contract!Destroy(kind) PROVE ContractInv'
  BY <1>2 DEF Contract!Destroy
<1>3. CASE Contract!Succeed
  BY <1>3 DEF Contract!Succeed, Contract!Return
<1>4. CASE Contract!End
  BY <1>4 DEF Contract!End, Contract!Return
<1> QED
  BY <1>1, <1>2, <1>3, <1>4

\* The owners of the object of the call become those from another layer on.
LEMMA ContractPasses ==
  ASSUME ContractInv, NEW l \in 1..(N + 2), NEW from \in {"asked", "made", "ending"},
         NEW to \in {"made", "ending", "over"},
         Contract!Pass(from, to), Contract!OwnersBecome(Contract!From(l)),
         to = "over" => Contract!From(l) = {}
  PROVE  ContractInv'
<1>1. /\ CallOfApp' = [CallOfApp EXCEPT !.phase = to]
      /\ CallOfApp.phase = from /\ CallOfApp.kind \in Contract!Kinds
      /\ held' = held
      /\ Objects' = [Objects EXCEPT ![CallOfApp.kind] = Contract!From(l)]
  BY DEF ContractInv, Contract!TypeOK, Contract!Pass, Contract!OwnersBecome
<1>2. Contract!From(l) \in {Contract!From(m) : m \in 1..(Contract!Driver + 1)}
  <2>1. l \in 1..(Contract!Driver + 1)
    BY ChainAssumption DEF Contract!Driver
  <2> QED
    BY <2>1
<1>3. Contract!TypeOK'
  BY <1>1, <1>2 DEF ContractInv, Contract!TypeOK, Contract!NoCall
<1>4. Contract!Whole'
  BY <1>1 DEF ContractInv, Contract!TypeOK, Contract!Whole
<1> QED
  BY <1>3, <1>4 DEF ContractInv

\* Between two calls every layer and the driver have an object or none has it,
\* whatever failed, and a device goes before its instance.
THEOREM ContractPromises == Contract!Spec => []Contract!Whole
<1>1. Contract!Init => ContractInv
  <2>1. Contract!From(N + 2) = {}
    BY FromFacts, ChainAssumption
  <2>2. N + 2 \in 1..(Contract!Driver + 1)
    BY ChainAssumption DEF Contract!Driver
  <2> QED
    BY <2>1, <2>2 DEF Contract!Init, ContractInv, Contract!TypeOK, Contract!Whole,
       Contract!Kinds, Contract!NoCall
<1>2. ContractInv /\ [Contract!Next]_(Contract!cvars) => ContractInv'
  <2> SUFFICES ASSUME ContractInv, [Contract!Next]_(Contract!cvars) PROVE ContractInv'
    OBVIOUS
  <2>1. CASE \/ \E kind \in Contract!Kinds : Contract!Create(kind) \/ Contract!Destroy(kind)
             \/ Contract!Succeed \/ Contract!End
    BY <2>1, ContractCalls
  <2>2. CASE Contract!Fail
    BY <2>2 DEF ContractInv, Contract!TypeOK, Contract!Whole, Contract!Fail,
       Contract!Pass, Contract!NoCall
  <2>3. CASE Contract!Make
    <3>1. N + 1 \in 1..(N + 2)
      BY ChainAssumption
    <3>2. Contract!From(N + 1) = {Contract!Driver}
      BY FromFacts DEF Contract!Driver
    <3> QED
      BY <2>3, <3>1, <3>2, ContractPasses DEF Contract!Make
  <2>4. ASSUME NEW l \in 1..N, Contract!Rise(l) PROVE ContractInv'
    <3>1. l \in 1..(N + 2)
      BY ChainAssumption
    <3> QED
      BY <2>4, <3>1, ContractPasses DEF Contract!Rise
  <2>5. ASSUME NEW l \in 1..N, Contract!Undo(l) PROVE ContractInv'
    BY <2>5 DEF ContractInv, Contract!TypeOK, Contract!Whole, Contract!Undo,
       Contract!Pass, Contract!NoCall
  <2>6. ASSUME NEW l \in 1..Contract!Driver, Contract!Sink(l) PROVE ContractInv'
    <3>1. /\ l + 1 \in 1..(N + 2)
          /\ l = Contract!Driver => Contract!From(l + 1) = {}
      BY FromFacts, ChainAssumption DEF Contract!Driver
    <3>2. CASE l = Contract!Driver
      BY <2>6, <3>1, <3>2, ContractPasses DEF Contract!Sink
    <3>3. CASE l # Contract!Driver
      BY <2>6, <3>1, <3>3, ContractPasses DEF Contract!Sink
    <3> QED
      BY <3>2, <3>3
  <2>7. CASE UNCHANGED Contract!cvars
    BY <2>7 DEF ContractInv, Contract!cvars, Contract!TypeOK, Contract!Whole
  <2> QED
    BY <2>1, <2>2, <2>3, <2>4, <2>5, <2>6, <2>7 DEF Contract!Next
<1>3. ContractInv => Contract!Whole
  BY DEF ContractInv
<1> QED
  BY <1>1, <1>2, <1>3, PTL DEF Contract!Spec

\* So the application may rely on it, with a chain of any length.
THEOREM AlwaysWhole == Spec => []Contract!Whole
BY Implements, ContractPromises, PTL DEF ImplementsContract
=============================================================================
