-------------------------- MODULE LayerChain_proofs --------------------------
(***************************************************************************)
(* That creation and destruction are correct in a chain of any number of   *)
(* layers, with any extensions: the inductive invariant of LayerChain and  *)
(* the properties that follow from it.                                     *)
(***************************************************************************)
EXTENDS LayerChainInv, SequenceTheorems, TLAPS

-----------------------------------------------------------------------------
(* The stack of calls.                                                     *)

\* The call that runs, and those below it.
LEMMA TopFacts ==
  ASSUME stack \in Seq(Calls), stack # <<>>
  PROVE  /\ Len(stack) \in Nat \ {0}
         /\ Top \in Calls
         /\ Below \in Seq(Calls)
         /\ Len(Below) = Len(stack) - 1
         /\ \A k \in 1..(Len(stack) - 1) : Below[k] = stack[k]
<1>1. Len(stack) \in Nat \ {0} /\ \A k \in 1..Len(stack) : stack[k] \in Calls
  OBVIOUS
<1>2. Top \in Calls
  BY <1>1 DEF Top
<1>3. \A k \in 1..(Len(stack) - 1) : stack[k] \in Calls
  BY <1>1
<1>4. Below \in Seq(Calls) /\ Len(Below) = Len(stack) - 1
  <2>1. /\ 1 \in Int /\ Len(stack) - 1 \in Int
        /\ \A k \in 1..(Len(stack) - 1) : stack[k] \in Calls
    BY <1>1, <1>3
  <2> DEFINE n == Len(stack) - 1
  <2>2. n \in Int
    BY <2>1
  <2> HIDE DEF n
  <2>3. /\ SubSeq(stack, 1, n) \in Seq(Calls)
        /\ Len(SubSeq(stack, 1, n)) = IF 1 <= n THEN n - 1 + 1 ELSE 0
    BY <2>1, <2>2, SubSeqProperties DEF n
  <2>4. Below = SubSeq(stack, 1, n)
    BY DEF Below, n
  <2>5. n \in Nat /\ n = Len(stack) - 1
    BY <1>1 DEF n
  <2>6. Below \in Seq(Calls)
    BY <2>3, <2>4
  <2>7. Len(Below) = IF 1 <= n THEN n - 1 + 1 ELSE 0
    BY <2>3, <2>4, Zenon
  <2> QED
    BY <2>5, <2>6, <2>7
<1>5. \A k \in 1..(Len(stack) - 1) : Below[k] = stack[k]
  BY <1>1, <1>3 DEF Below
<1> QED
  BY <1>1, <1>2, <1>4, <1>5

\* A call that goes on replaces the top of the stack.
LEMMA BecomeFacts ==
  ASSUME stack \in Seq(Calls), stack # <<>>, NEW c \in Calls, Become(c)
  PROVE  /\ stack' \in Seq(Calls)
         /\ Len(stack') = Len(stack)
         /\ stack' # <<>> /\ Top' = c /\ stack'[Len(stack)] = c
         /\ \A k \in 1..(Len(stack) - 1) : stack'[k] = stack[k]
<1>1. stack' = Append(Below, c)
  BY DEF Become
<1> QED
  BY <1>1, TopFacts DEF Top

\* A call that waits stays on the stack below the one it makes.
LEMMA PushFacts ==
  ASSUME stack \in Seq(Calls), stack # <<>>, NEW w \in Calls, NEW c \in Calls, Push(w, c)
  PROVE  /\ stack' \in Seq(Calls)
         /\ Len(stack') = Len(stack) + 1
         /\ stack' # <<>> /\ Top' = c /\ stack'[Len(stack) + 1] = c
         /\ stack'[Len(stack)] = w
         /\ \A k \in 1..(Len(stack) - 1) : stack'[k] = stack[k]
<1>1. stack' = Append(Append(Below, w), c)
  BY DEF Push
<1> DEFINE waiting == Append(Below, w)
<1>2. /\ waiting \in Seq(Calls)
      /\ Len(waiting) = Len(stack)
      /\ waiting[Len(stack)] = w
      /\ \A k \in 1..(Len(stack) - 1) : waiting[k] = stack[k]
  BY TopFacts
<1>3. Len(stack) \in Nat \ {0}
  BY TopFacts
<1> HIDE DEF waiting
<1>4. stack' = Append(waiting, c)
  BY <1>1 DEF waiting
<1> QED
  BY <1>2, <1>3, <1>4 DEF Top

\* A call that returns leaves its caller at the top.
LEMMA ReturnFacts ==
  ASSUME stack \in Seq(Calls), stack # <<>>, Len(stack) > 1, NEW result, Return(result)
  PROVE  /\ stack' \in Seq(Calls)
         /\ Len(stack') = Len(stack) - 1
         /\ stack' # <<>> /\ Top' = stack[Len(stack) - 1]
         /\ \A k \in 1..(Len(stack) - 1) : stack'[k] = stack[k]
BY TopFacts DEF Return, Top

\* The call that runs is on the layer of its place in the stack.
LEMMA TopOfStack ==
  ASSUME ChainInv, stack # <<>>
  PROVE  /\ stack \in Seq(Calls) /\ Len(stack) \in Nat \ {0}
         /\ Top = stack[Len(stack)] /\ Top \in Calls
         /\ CallOK(Len(stack))
         /\ Top.layer = Len(stack) - 1
         /\ N \in Nat \ {0}
         /\ Len(stack) <= N + 2
BY TopFacts, ChainAssumption DEF ChainInv, TypeOK, StackOK, CallOK, Top


\* What a call is says nothing of the calls around it.
LEMMA SameCall ==
  ASSUME NEW k, CallOK(k), stack'[k] = stack[k]
  PROVE  CallOK(k)'
BY DEF CallOK

\* The list of a call is that of a hook or of the application, less the claims of
\* the layers between, for as long as these calls wait.
LEMMA SameRoute ==
  ASSUME NEW m \in Nat, RoutedTo(m), stack'[m].asked = stack[m].asked,
         \A k \in 1..(m - 1) : stack'[k] = stack[k]
  PROVE  RoutedTo(m)'
<1>1. PICK j \in 1..(m - 1) :
        /\ j = 1 \/ stack[j].step = "hooked"
        /\ \A k \in (j + 1)..(m - 1) : stack[k].step # "hooked"
        /\ stack[m].asked = (IF j = 1 THEN stack[1].asked ELSE stack[j].passed)
                              \ UNION {Claims[stack[k].layer] : k \in (j + 1)..(m - 1)}
  BY DEF RoutedTo
<1>2. \A k \in (j + 1)..(m - 1) : stack'[k] = stack[k]
  OBVIOUS
<1>3. stack'[j] = stack[j] /\ stack'[1] = stack[1]
  OBVIOUS
<1>4. {Claims[stack[k].layer] : k \in (j + 1)..(m - 1)}
        = {Claims[stack'[k].layer] : k \in (j + 1)..(m - 1)}
  BY <1>2
<1>5. /\ j = 1 \/ stack'[j].step = "hooked"
      /\ \A k \in (j + 1)..(m - 1) : stack'[k].step # "hooked"
      /\ stack'[m].asked = (IF j = 1 THEN stack'[1].asked ELSE stack'[j].passed)
                             \ UNION {Claims[stack'[k].layer] : k \in (j + 1)..(m - 1)}
  BY <1>1, <1>2, <1>3, <1>4
<1> QED
  BY <1>5 DEF RoutedTo

\* The invariant of the stack when the call that runs goes on.
LEMMA BecomeInv ==
  ASSUME ChainInv, stack # <<>>, NEW c \in Calls, Become(c),
         c.op = Top.op, c.kind = Top.kind, c.layer = Top.layer, c.asked = Top.asked,
         Top.layer \in Layers,
         c.op = "destroy" => c.step \in {"enter", "called"},
         c.op = "create" /\ c.step # "enter" => c.link = c.layer,
         c.kind = "instance" => c.info = c.asked
  PROVE  StackOK' /\ ListsOK'
<1>1. PICK n \in Nat \ {0} :
        /\ stack \in Seq(Calls) /\ Len(stack) = n /\ Top = stack[n]
        /\ Top.layer = n - 1 /\ N \in Nat \ {0}
  BY TopOfStack
<1>2. /\ stack' \in Seq(Calls) /\ Len(stack') = n /\ stack'[n] = c
      /\ \A k \in 1..(n - 1) : stack'[k] = stack[k]
  BY <1>1, BecomeFacts
<1>3. \A k \in 1..n : CallOK(k)
  BY <1>1 DEF ChainInv, StackOK
<1>4. \A k \in 1..(n - 1) : CallOK(k)'
  BY <1>1, <1>2, <1>3, SameCall
<1>5. CallOK(n)'
  BY <1>1, <1>2, ChainAssumption DEF CallOK, Layers, Driver, App
<1>6. \A k \in 2..n : CallerOK(k)'
  <2>1. \A k \in 2..n : CallerOK(k)
    BY <1>1 DEF ChainInv, StackOK
  <2>2. \A k \in 2..n : stack'[k - 1] = stack[k - 1]
    BY <1>1, <1>2
  <2>3. \A k \in 2..n : stack'[k].op = stack[k].op /\ stack'[k].kind = stack[k].kind
    BY <1>1, <1>2
  <2> QED
    BY <2>1, <2>2, <2>3 DEF CallerOK
<1>7. StackOK'
  <2>1. \A k \in 1..n : CallOK(k)'
    BY <1>1, <1>4, <1>5
  <2>2. DOMAIN stack' = 1..n
    BY <1>2
  <2> QED
    BY <1>2, <1>6, <2>1, <2>2 DEF StackOK
<1>8. ListsOK'
  <2> SUFFICES ASSUME NEW m \in 2..n, stack'[m].op = "create", stack'[m].kind = "device"
               PROVE  RoutedTo(m)'
    BY <1>2 DEF ListsOK
  <2>1. /\ stack'[m].op = stack[m].op /\ stack'[m].kind = stack[m].kind
        /\ stack'[m].asked = stack[m].asked
    BY <1>1, <1>2
  <2>2. RoutedTo(m)
    BY <1>1, <2>1 DEF ChainInv, ListsOK
  <2>3. m \in Nat /\ \A k \in 1..(m - 1) : stack'[k] = stack[k]
    BY <1>1, <1>2
  <2> QED
    BY <2>1, <2>2, <2>3, SameRoute
<1> QED
  BY <1>7, <1>8


\* One more claim among those that were taken out.
LEMMA UnionOfCup == ASSUME NEW S, NEW x PROVE UNION (S \cup {x}) = (UNION S) \cup x
OBVIOUS

\* When it calls the layer below and waits: the list it passes on is its own, less
\* what the layer has for itself, or that of its hook.
LEMMA PushInv ==
  ASSUME ChainInv, stack # <<>>, NEW w \in Calls, NEW c \in Calls, Push(w, c),
         Top.layer \in Layers,
         w.op = Top.op, w.kind = Top.kind, w.layer = Top.layer, w.asked = Top.asked,
         w.step \in Waiting, w.op = "destroy" => w.step = "called",
         w.op = "create" => w.link = w.layer,
         w.kind = "instance" => w.info = w.asked,
         c.op = IF w.step = "undo" THEN "destroy" ELSE w.op,
         c.kind = w.kind, c.layer = w.layer + 1, c.step = "enter", c.info = c.asked,
         c.op = "create" /\ c.kind = "device" =>
           IF w.step = "hooked" THEN c.asked = w.passed
           ELSE c.asked = w.asked \ Claims[w.layer]
  PROVE  StackOK' /\ ListsOK'
<1>1. PICK n \in Nat \ {0} :
        /\ stack \in Seq(Calls) /\ Len(stack) = n /\ Top = stack[n]
        /\ Top.layer = n - 1 /\ N \in Nat \ {0} /\ n >= 2
  <2>1. Len(stack) - 1 \in 1..N /\ Len(stack) \in Nat \ {0}
    BY TopOfStack DEF Layers
  <2>2. Len(stack) >= 2
    BY <2>1
  <2> QED
    BY <2>2, TopOfStack
<1>2. /\ stack' \in Seq(Calls) /\ Len(stack') = n + 1
      /\ stack'[n] = w /\ stack'[n + 1] = c
      /\ \A k \in 1..(n - 1) : stack'[k] = stack[k]
  BY <1>1, PushFacts
<1>3. \A k \in 1..(n - 1) : CallOK(k)'
  <2>1. \A k \in 1..n : CallOK(k)
    BY <1>1 DEF ChainInv, StackOK
  <2> QED
    BY <1>1, <1>2, <2>1, SameCall
<1>4. CallOK(n)'
  BY <1>1, <1>2, ChainAssumption DEF CallOK, Layers, Driver, App, Waiting
<1>5. CallOK(n + 1)'
  BY <1>1, <1>2, ChainAssumption DEF CallOK, Layers, Driver, App
<1>6. \A k \in 2..(n + 1) : CallerOK(k)'
  <2>1. \A k \in 2..n : CallerOK(k)
    BY <1>1 DEF ChainInv, StackOK
  <2>2. \A k \in 2..n : stack'[k - 1] = stack[k - 1]
    BY <1>1, <1>2
  <2>3. \A k \in 2..n : stack'[k].op = stack[k].op /\ stack'[k].kind = stack[k].kind
    BY <1>1, <1>2
  <2>4. \A k \in 2..n : CallerOK(k)'
    BY <2>1, <2>2, <2>3 DEF CallerOK
  <2>5. stack'[(n + 1) - 1] = w
    BY <1>2
  <2>6. CallerOK(n + 1)'
    BY <1>2, <2>5 DEF CallerOK
  <2> QED
    BY <1>1, <2>4, <2>6
<1>7. StackOK'
  <2>1. \A k \in 1..(n + 1) : CallOK(k)'
    BY <1>1, <1>3, <1>4, <1>5
  <2>2. DOMAIN stack' = 1..(n + 1)
    BY <1>2
  <2> QED
    BY <1>2, <1>6, <2>1, <2>2 DEF StackOK
<1>8. ListsOK'
  <2> SUFFICES ASSUME NEW m \in 2..(n + 1),
                      stack'[m].op = "create", stack'[m].kind = "device"
               PROVE  RoutedTo(m)'
    BY <1>2 DEF ListsOK
  <2>1. CASE m \in 2..n
    <3>1. /\ stack'[m].op = stack[m].op /\ stack'[m].kind = stack[m].kind
          /\ stack'[m].asked = stack[m].asked
      BY <1>1, <1>2, <2>1
    <3>2. RoutedTo(m)
      BY <1>1, <2>1, <3>1 DEF ChainInv, ListsOK
    <3>3. m \in Nat /\ \A k \in 1..(m - 1) : stack'[k] = stack[k]
      BY <1>1, <1>2, <2>1
    <3> QED
      BY <3>1, <3>2, <3>3, SameRoute
  <2>2. CASE m = n + 1 /\ w.step = "hooked"
    <3>1. c.asked = w.passed
      BY <1>2, <2>2
    <3>2. /\ n \in 1..(m - 1)
          /\ (n + 1)..(m - 1) = {}
          /\ n # 1
      BY <1>1, <2>2
    <3>3. {Claims[stack'[k].layer] : k \in (n + 1)..(m - 1)} = {}
      BY <3>2
    <3>4. UNION {Claims[stack'[k].layer] : k \in (n + 1)..(m - 1)} = {}
      BY <3>3
    <3>5. stack'[m].asked = stack'[n].passed \ {}
      BY <1>2, <2>2, <3>1
    <3>6. stack'[m].asked = (IF n = 1 THEN stack'[1].asked ELSE stack'[n].passed)
                         \ UNION {Claims[stack'[k].layer] : k \in (n + 1)..(m - 1)}
      BY <3>2, <3>4, <3>5
    <3>7. /\ stack'[n].step = "hooked"
          /\ \A k \in (n + 1)..(m - 1) : stack'[k].step # "hooked"
      BY <1>2, <2>2, <3>2
    <3> QED
      BY <3>2, <3>6, <3>7 DEF RoutedTo
  <2>3. CASE m = n + 1 /\ w.step # "hooked"
    <3>1. c.op = "create" /\ c.kind = "device" /\ w.step = "called"
          /\ w.op = "create"
      BY <1>2, <2>3 DEF Waiting
    <3>2. c.asked = w.asked \ Claims[n - 1]
      BY <1>1, <2>3, <3>1
    <3>3. RoutedTo(n)
      BY <1>1, <3>1 DEF ChainInv, ListsOK
    <3>4. stack'[n].asked = stack[n].asked
      BY <1>1, <1>2
    <3>5. RoutedTo(n)'
      BY <1>1, <1>2, <3>3, <3>4, SameRoute
    <3>6. PICK j \in 1..(n - 1) :
            /\ j = 1 \/ stack'[j].step = "hooked"
            /\ \A k \in (j + 1)..(n - 1) : stack'[k].step # "hooked"
            /\ stack'[n].asked = (IF j = 1 THEN stack'[1].asked ELSE stack'[j].passed)
                           \ UNION {Claims[stack'[k].layer] : k \in (j + 1)..(n - 1)}
      BY <3>5 DEF RoutedTo
    <3>7. (j + 1)..(m - 1) = (j + 1)..(n - 1) \cup {n} /\ j \in 1..(m - 1)
      BY <1>1, <2>3
    <3>8. stack'[n].layer = n - 1 /\ stack'[n].step # "hooked"
      BY <1>1, <1>2, <2>3
    <3>9. UNION {Claims[stack'[k].layer] : k \in (j + 1)..(m - 1)}
            = (UNION {Claims[stack'[k].layer] : k \in (j + 1)..(n - 1)}) \cup Claims[n - 1]
      <4>1. {Claims[stack'[k].layer] : k \in (j + 1)..(m - 1)}
              = {Claims[stack'[k].layer] : k \in (j + 1)..(n - 1)} \cup {Claims[n - 1]}
        BY <3>7, <3>8
      <4> QED
        BY <4>1, UnionOfCup
    <3>10. stack'[m].asked = (IF j = 1 THEN stack'[1].asked ELSE stack'[j].passed)
                           \ UNION {Claims[stack'[k].layer] : k \in (j + 1)..(m - 1)}
      BY <1>2, <2>3, <3>2, <3>6, <3>9
    <3>11. \A k \in (j + 1)..(m - 1) : stack'[k].step # "hooked"
      BY <3>6, <3>7, <3>8
    <3> QED
      BY <3>6, <3>7, <3>10, <3>11 DEF RoutedTo
  <2> QED
    BY <1>1, <2>1, <2>2, <2>3
<1> QED
  BY <1>7, <1>8

\* When it returns to its caller.
LEMMA ReturnInv ==
  ASSUME ChainInv, stack # <<>>, Top.layer # App, NEW result, Return(result)
  PROVE  StackOK' /\ ListsOK'
<1>1. PICK n \in Nat \ {0} :
        /\ stack \in Seq(Calls) /\ Len(stack) = n
        /\ Top.layer = n - 1 /\ n >= 2
  BY TopOfStack DEF App
<1>2. /\ stack' \in Seq(Calls) /\ Len(stack') = n - 1
      /\ \A k \in 1..(n - 1) : stack'[k] = stack[k]
  BY <1>1, ReturnFacts
<1>3. \A k \in 1..(n - 1) : CallOK(k)'
  <2>1. \A k \in 1..n : CallOK(k)
    BY <1>1 DEF ChainInv, StackOK
  <2> QED
    BY <1>1, <1>2, <2>1, SameCall
<1>4. \A k \in 2..(n - 1) : CallerOK(k)'
  <2>1. \A k \in 2..n : CallerOK(k)
    BY <1>1 DEF ChainInv, StackOK
  <2>2. \A k \in 2..(n - 1) : stack'[k - 1] = stack[k - 1] /\ stack'[k] = stack[k]
    BY <1>1, <1>2
  <2> QED
    BY <1>1, <2>1, <2>2 DEF CallerOK
<1>5. StackOK'
  BY <1>1, <1>2, <1>3, <1>4 DEF StackOK
<1>6. ListsOK'
  <2> SUFFICES ASSUME NEW m \in 2..(n - 1),
                      stack'[m].op = "create", stack'[m].kind = "device"
               PROVE  RoutedTo(m)'
    BY <1>2 DEF ListsOK
  <2>1. stack'[m] = stack[m] /\ m \in 2..n
    BY <1>1, <1>2
  <2>2. RoutedTo(m)
    BY <1>1, <2>1 DEF ChainInv, ListsOK
  <2>3. m \in Nat /\ \A k \in 1..(m - 1) : stack'[k] = stack[k]
    BY <1>1, <1>2
  <2> QED
    BY <2>1, <2>2, <2>3, SameRoute
<1> QED
  BY <1>5, <1>6


-----------------------------------------------------------------------------
(* Who has an object, and what the call that runs finds.                   *)

\* The owners are the same when the object in flight has the same first one.
LEMMA OwnersKept ==
  ASSUME ChainInv, stack # <<>>, stack' # <<>>, Top'.kind = Top.kind,
         FirstInFlight' = FirstInFlight, UNCHANGED <<reg, alive, held>>
  PROVE  OwnersOK' /\ HeldOK'
<1>1. \A kind \in Kinds : First(kind)' = First(kind)
  BY DEF First
<1>2. OwnersOK'
  BY <1>1 DEF ChainInv, OwnersOK
<1>3. HeldOK'
  BY DEF ChainInv, HeldOK
<1> QED
  BY <1>2, <1>3

\* After a return the caller runs: what it made is there from this layer on, or
\* nothing is.
LEMMA AfterReturn ==
  ASSUME ChainInv, stack # <<>>, Top.layer # App, NEW result \in {"ok", "error"},
         result = "error" => Top.op = "create", Return(result), UNCHANGED held
  PROVE  /\ stack' \in Seq(Calls) /\ Len(stack') \in 0..(N + 2) /\ stack' # <<>>
         /\ answer' \in {"ok", "error"}
         /\ Top'.kind = Top.kind
         /\ TopOK' /\ HeldOK'
         /\ FirstInFlight' =
              IF result = "ok" /\ Top.op = "create" THEN Top.layer ELSE N + 2
         /\ \A kind \in Kinds \ {Top.kind} : First(kind)' = First(kind)
<1>1. PICK n \in Nat \ {0} :
        /\ stack \in Seq(Calls) /\ Len(stack) = n /\ Top = stack[n]
        /\ Top.layer = n - 1 /\ n >= 2 /\ n <= N + 2 /\ N \in Nat \ {0}
  BY TopOfStack DEF App
<1>2. /\ stack' \in Seq(Calls) /\ Len(stack') = n - 1
      /\ stack' # <<>> /\ Top' = stack[n - 1]
  BY <1>1, ReturnFacts
<1>3. n - 1 \in DOMAIN stack /\ n \in 2..Len(stack)
  BY <1>1
<1>4. CallOK(n - 1) /\ CallerOK(n)
  BY <1>3 DEF ChainInv, StackOK
<1>5. /\ Top'.step \in Waiting
      /\ Top'.kind = Top.kind
      /\ Top.op = IF Top'.step = "undo" THEN "destroy" ELSE Top'.op
      /\ Top'.layer + 1 = Top.layer
      /\ Top'.op = "destroy" => Top'.step = "called"
      /\ Top'.op \in {"create", "destroy"} /\ Top.op \in {"create", "destroy"}
  <2>1. stack[n - 1] \in Calls /\ stack[n] \in Calls
    BY <1>1, <1>3
  <2>2. stack[n - 1].layer + 1 = Top.layer
    BY <1>1, <1>4 DEF CallOK
  <2> QED
    BY <1>1, <1>2, <1>4, <2>1, <2>2 DEF CallerOK, CallOK, Calls, Waiting
<1>6. answer' = result
  BY DEF Return
<1>7. TopOK'
  BY <1>5, <1>6 DEF TopOK, Waiting
<1>8. HeldOK'
  BY <1>2, <1>5 DEF ChainInv, HeldOK
<1>9. FirstInFlight' = IF result = "ok" /\ Top.op = "create" THEN Top.layer ELSE N + 2
  BY <1>5, <1>6 DEF FirstInFlight, Waiting
<1>10. \A kind \in Kinds \ {Top.kind} : First(kind)' = First(kind)
  BY <1>2, <1>5 DEF First
<1> QED
  BY <1>1, <1>2, <1>5, <1>6, <1>7, <1>8, <1>9, <1>10

-----------------------------------------------------------------------------
(* The steps of a creation.                                                *)

\* The call goes on by itself: it has its link and no answer yet, or the answer
\* that the object was made below.
LEMMA GoOnInv ==
  ASSUME ChainInv, stack # <<>>, NEW c \in Calls, Become(c),
         c.op = "create", Top.op = "create", c.kind = Top.kind, c.layer = Top.layer,
         c.asked = Top.asked, c.info = Top.info, Top.layer \in Layers, c.link = c.layer,
         \/ /\ Top.step \in {"enter", "hook"} /\ c.step \in {"hook", "own"}
            /\ link' = c.layer + 1
         \/ /\ Top.step \in {"hooked", "called"} /\ c.step = "made"
            /\ answer = "ok" /\ UNCHANGED link,
         UNCHANGED <<answer, hooked, entries, alive, held, health>>
  PROVE  ChainInv'
<1>1. c.kind = "instance" => c.info = c.asked
  BY TopOfStack DEF CallOK
<1>2. StackOK' /\ ListsOK'
  BY <1>1, BecomeInv
<1>3. /\ stack' \in Seq(Calls) /\ stack' # <<>> /\ Top' = c
      /\ Len(stack') = Len(stack)
  BY BecomeFacts, TopOfStack
<1>4. TopOK'
  BY <1>3 DEF ChainInv, TopOK, Waiting
<1>5. FirstInFlight' = FirstInFlight
  BY <1>3 DEF FirstInFlight
<1>6. OwnersOK' /\ HeldOK'
  BY <1>3, <1>5, OwnersKept DEF entries
<1>7. EntriesOK' /\ NoPanic'
  BY DEF ChainInv, EntriesOK, NoPanic, entries
<1>8. link' \in 1..(N + 1)
  BY ChainAssumption DEF ChainInv, TypeOK, Layers
<1>9. TypeOK'
  BY <1>3, <1>8 DEF ChainInv, TypeOK, entries
<1> QED
  BY <1>2, <1>4, <1>6, <1>7, <1>9 DEF ChainInv

\* The link of the layer is where the pointer is, and a device has its instance.
LEMMA TakeLinkInv == ASSUME ChainInv, TakeLink PROVE ChainInv'
<1> DEFINE c == [Top EXCEPT !.link = IF link \in Layers THEN link ELSE 0,
                            !.step = IF Top.layer \in hooked[Top.kind]
                                       THEN "hook" ELSE "own"]
<1>1. stack # <<>> /\ Top.op = "create" /\ Top.step = "enter" /\ Top.layer \in Layers
  BY DEF TakeLink, At
<1>2. Top \in Calls
  BY <1>1, TopOfStack
<1>3. link = Top.layer
  BY <1>1 DEF ChainInv, TopOK
<1>4. Top.kind = "device" => Top.layer \in reg["instance"]
  <2> SUFFICES ASSUME Top.kind = "device" PROVE Top.layer \in reg["instance"]
    OBVIOUS
  <2>1. held = {"instance"}
    BY <1>1 DEF ChainInv, HeldOK
  <2>2. First("instance") = 1
    BY <2>1 DEF First
  <2>3. reg["instance"] = 1..N
    BY <2>2 DEF ChainInv, OwnersOK, Kinds
  <2> QED
    BY <1>1, <2>3 DEF Layers
<1>5. c \in Calls /\ c.link = Top.layer
  <2>1. c = [Top EXCEPT !.link = link,
                        !.step = IF Top.layer \in hooked[Top.kind] THEN "hook" ELSE "own"]
    BY <1>1, <1>3
  <2>2. link \in 0..N
    BY <1>1, <1>3 DEF Layers
  <2> QED
    BY <1>2, <1>3, <2>1, <2>2 DEF Calls
<1>6. c.step \in {"hook", "own"} /\ c.op = Top.op /\ c.kind = Top.kind
      /\ c.layer = Top.layer /\ c.asked = Top.asked /\ c.info = Top.info
  BY <1>2 DEF Calls
<1>7. Become(c) /\ health' = "running" /\ link' = Top.layer + 1
      /\ UNCHANGED <<answer, hooked, entries, alive, held>>
  BY <1>1, <1>3, <1>4 DEF TakeLink, Require
<1>8. health = "running"
  BY DEF ChainInv, NoPanic
<1> HIDE DEF c
<1> QED
  BY <1>1, <1>5, <1>6, <1>7, <1>8, GoOnInv

\* create_device finds no hook, or one that declines: only the point it has
\* reached changes.
LEMMA HookDeclinesInv == ASSUME ChainInv, HookDeclines PROVE ChainInv'
<1> DEFINE c == [Top EXCEPT !.step = "own"]
<1>1. stack # <<>> /\ Top.op = "create" /\ Top.step = "hook" /\ Top.layer \in Layers
  BY DEF HookDeclines, At
<1>2. Top \in Calls /\ Top.link = Top.layer /\ link = Top.layer + 1
  BY <1>1, TopOfStack DEF CallOK, ChainInv, TopOK
<1>3. c \in Calls /\ c.step = "own" /\ c.op = Top.op /\ c.kind = Top.kind
      /\ c.layer = Top.layer /\ c.asked = Top.asked /\ c.info = Top.info
      /\ c.link = Top.link
  BY <1>2 DEF Calls
<1>4. Become(c) /\ UNCHANGED <<answer, link, hooked, entries, alive, held, health>>
  BY DEF HookDeclines
<1> HIDE DEF c
<1> QED
  BY <1>1, <1>2, <1>3, <1>4, GoOnInv

\* A creation fails: nobody has the object.
LEMMA FailInv ==
  ASSUME ChainInv, stack # <<>>, Top.op = "create", Top.layer # App,
         \/ Top.step \in {"enter", "hook", "own", "undo"}
         \/ Top.step \in {"hooked", "called"} /\ answer = "error",
         Return("error"), UNCHANGED <<link, hooked, entries, alive, held, health>>
  PROVE  ChainInv'
<1>1. FirstInFlight = N + 2
  BY DEF FirstInFlight
<1>2. /\ stack' \in Seq(Calls) /\ Len(stack') \in 0..(N + 2) /\ stack' # <<>>
      /\ answer' \in {"ok", "error"} /\ Top'.kind = Top.kind /\ TopOK'
      /\ FirstInFlight' = N + 2
  BY AfterReturn
<1>3. StackOK' /\ ListsOK'
  BY ReturnInv
<1>4. OwnersOK' /\ HeldOK'
  BY <1>1, <1>2, OwnersKept DEF entries
<1>5. EntriesOK' /\ NoPanic'
  BY DEF ChainInv, EntriesOK, NoPanic, entries
<1>6. TypeOK'
  BY <1>2 DEF ChainInv, TypeOK, entries
<1> QED
  BY <1>2, <1>3, <1>4, <1>5, <1>6 DEF ChainInv

\* The answers of the layer below, to the hook and to the framework.
LEMMA AnsweredInv ==
  ASSUME ChainInv, HookReturns \/ NextReturned
  PROVE  ChainInv'
<1> DEFINE c == [Top EXCEPT !.step = "made"]
<1>1. /\ stack # <<>> /\ Top.op = "create" /\ Top.step \in {"hooked", "called"}
      /\ Top.layer \in Layers
  BY DEF HookReturns, NextReturned, At
<1>2. Top \in Calls /\ Top.link = Top.layer /\ answer \in {"ok", "error"}
  BY <1>1, TopOfStack DEF CallOK, ChainInv, TopOK, Waiting
<1>3. UNCHANGED <<link, hooked, entries, alive, held, health>>
  BY DEF HookReturns, NextReturned
<1>4. CASE answer = "ok"
  <2>1. c \in Calls /\ c.step = "made" /\ c.op = Top.op /\ c.kind = Top.kind
        /\ c.layer = Top.layer /\ c.asked = Top.asked /\ c.info = Top.info
        /\ c.link = Top.link
    BY <1>2 DEF Calls
  <2>2. Become(c) /\ UNCHANGED answer
    BY <1>4 DEF HookReturns, NextReturned
  <2> HIDE DEF c
  <2> QED
    BY <1>1, <1>2, <1>3, <1>4, <2>1, <2>2, GoOnInv
<1>5. CASE answer = "error"
  <2>1. Return("error")
    BY <1>5 DEF HookReturns, NextReturned
  <2>2. Top.layer # App
    BY <1>1 DEF Layers, App
  <2> QED
    BY <1>1, <1>3, <1>5, <2>1, <2>2, FailInv
<1> QED
  BY <1>2, <1>4, <1>5


\* The layer below is called: to create, when nobody has the object and the link
\* is that of the layer below, or to destroy what it and those below it have.
LEMMA CallInv ==
  ASSUME ChainInv, stack # <<>>, NEW w \in Calls, NEW c \in Calls, Push(w, c),
         Top.op = "create", Top.layer \in Layers,
         w.op = "create", w.kind = Top.kind, w.layer = Top.layer, w.asked = Top.asked,
         w.link = w.layer, w.kind = "instance" => w.info = w.asked,
         c.kind = w.kind, c.layer = w.layer + 1, c.step = "enter", c.info = c.asked,
         \/ /\ Top.step \in {"hook", "own"} /\ w.step \in {"hooked", "called"}
            /\ c.op = "create"
            /\ c.kind = "device" =>
                 IF w.step = "hooked" THEN c.asked = w.passed
                 ELSE c.asked = w.asked \ Claims[w.layer]
         \/ /\ Top.step = "hooked" /\ answer = "ok" /\ w.step = "undo"
            /\ c.op = "destroy",
         UNCHANGED <<link, hooked, entries, alive, held, health>>
  PROVE  ChainInv'
<1>1. StackOK' /\ ListsOK'
  BY PushInv DEF Waiting
<1>2. /\ stack' \in Seq(Calls) /\ stack' # <<>> /\ Top' = c
      /\ Len(stack') = Len(stack) + 1
  BY PushFacts, TopOfStack
<1>3. Len(stack') \in 0..(N + 2)
  BY <1>2, TopOfStack DEF Layers
<1>4. answer' = "none"
  BY DEF Push
<1>5. TopOK'
  BY <1>2, <1>4 DEF ChainInv, TopOK, Waiting
<1>6. FirstInFlight' = FirstInFlight
  BY <1>2, <1>4 DEF FirstInFlight
<1>7. OwnersOK' /\ HeldOK'
  BY <1>2, <1>6, OwnersKept DEF entries
<1>8. EntriesOK' /\ NoPanic'
  BY DEF ChainInv, EntriesOK, NoPanic, entries
<1>9. TypeOK'
  BY <1>2, <1>3, <1>4 DEF ChainInv, TypeOK, entries
<1> QED
  BY <1>1, <1>5, <1>7, <1>8, <1>9 DEF ChainInv

\* A hook calls down with a list of its own, or undoes what it created: the
\* layer below is entered, and the link it will take is the one that is left.
LEMMA HookCallsInv ==
  ASSUME ChainInv, HookCallsNext \/ HookUndoes
  PROVE  ChainInv'
<1>1. /\ stack # <<>> /\ Top.op = "create" /\ Top.step \in {"hook", "hooked"}
      /\ Top.layer \in Layers
      /\ UNCHANGED <<link, hooked, entries, alive, held, health>>
  BY DEF HookCallsNext, HookUndoes, At
<1>2. Top \in Calls /\ Top.link = Top.layer /\ Top.kind \in Kinds
      /\ (Top.kind = "instance" => Top.info = Top.asked)
  BY <1>1, TopOfStack DEF CallOK, Calls
<1>3. CASE HookCallsNext
  <2>1. Top.step = "hook"
    BY <1>3 DEF HookCallsNext, At
  <2>2. PICK passed \in HookLists[Top.kind] :
          Push([Top EXCEPT !.step = "hooked", !.passed = passed],
               Call("create", Top.kind, Top.link + 1, passed))
    BY <1>3 DEF HookCallsNext
  <2>3. passed \in SUBSET Exts
    BY <1>2, ChainAssumption
  <2> DEFINE w == [Top EXCEPT !.step = "hooked", !.passed = passed]
             c == Call("create", Top.kind, Top.link + 1, passed)
  <2>4. /\ w \in Calls /\ w.op = Top.op /\ w.kind = Top.kind /\ w.layer = Top.layer
        /\ w.asked = Top.asked /\ w.info = Top.info /\ w.link = Top.link
        /\ w.step = "hooked" /\ w.passed = passed
    BY <1>2, <2>3 DEF Calls
  <2>5. /\ c \in Calls /\ c.op = "create" /\ c.kind = Top.kind /\ c.asked = passed
        /\ c.layer = Top.layer + 1 /\ c.step = "enter" /\ c.info = passed
    BY <1>1, <1>2, <2>3, ChainAssumption DEF Call, Calls, Lists, Layers
  <2>6. Push(w, c)
    BY <2>2
  <2> HIDE DEF w, c
  <2> QED
    BY <1>1, <1>2, <2>1, <2>4, <2>5, <2>6, CallInv
<1>4. CASE HookUndoes
  <2> DEFINE w == [Top EXCEPT !.step = "undo"]
             c == Call("destroy", Top.kind, Top.link + 1, {})
  <2>1. Top.step = "hooked" /\ answer = "ok" /\ Push(w, c)
    BY <1>4 DEF HookUndoes, At
  <2>2. /\ w \in Calls /\ w.op = Top.op /\ w.kind = Top.kind /\ w.layer = Top.layer
        /\ w.asked = Top.asked /\ w.info = Top.info /\ w.link = Top.link
        /\ w.step = "undo"
    BY <1>2 DEF Calls
  <2>3. /\ c \in Calls /\ c.op = "destroy" /\ c.kind = Top.kind /\ c.asked = {}
        /\ c.layer = Top.layer + 1 /\ c.step = "enter" /\ c.info = {}
    BY <1>1, <1>2, ChainAssumption DEF Call, Calls, Lists, Layers
  <2> HIDE DEF w, c
  <2> QED
    BY <1>1, <1>2, <2>1, <2>2, <2>3, CallInv
<1> QED
  BY <1>3, <1>4

\* What a layer does not recognize it cannot have: all it keeps from the layer
\* below is what it claims.
LEMMA PassedOnIsRest ==
  ASSUME NEW call \in Calls, call.layer \in Layers
  PROVE  /\ PassedOn(call) \in SUBSET Exts
         /\ call.kind = "device" => PassedOn(call) = call.asked \ Claims[call.layer]
<1>1. call.asked \in SUBSET Exts /\ Claims[call.layer] \in SUBSET Recognized
  BY ChainAssumption DEF Calls
<1> QED
  BY <1>1 DEF PassedOn

\* The layer calls the one below itself: its list is filtered first, and freed
\* before create_device_info would read it.
LEMMA CallNextInv == ASSUME ChainInv, CallNext PROVE ChainInv'
<1> DEFINE passed == PassedOn(Top)
           list == IF Top.kind = "instance" THEN Top.asked
                   ELSE IF passed = {} THEN {} ELSE Freed
           w == [Top EXCEPT !.step = "called", !.info = list]
           c == Call("create", Top.kind, Top.link + 1, passed)
<1>1. /\ stack # <<>> /\ Top.op = "create" /\ Top.step = "own" /\ Top.layer \in Layers
      /\ UNCHANGED <<link, hooked, entries, alive, held, health>>
      /\ Push(w, c)
  BY DEF CallNext, At
<1>2. Top \in Calls /\ Top.link = Top.layer /\ Top.asked \in SUBSET Exts
  BY <1>1, TopOfStack DEF CallOK, Calls
<1>3. /\ passed \in SUBSET Exts
      /\ Top.kind = "device" => passed = Top.asked \ Claims[Top.layer]
  BY <1>1, <1>2, PassedOnIsRest
<1> HIDE DEF passed
<1>4. list \in Lists /\ (Top.kind = "instance" => list = Top.asked)
  <2>1. Top.asked \in Lists
    BY <1>2 DEF Lists
  <2>2. {} \in Lists
    BY DEF Lists
  <2>3. Freed \in {Freed}
    OBVIOUS
  <2>4. Freed \in Lists
    BY <2>3 DEF Lists
  <2> QED
    BY <2>1, <2>2, <2>4, <1>2
<1> HIDE DEF list
<1>5. /\ w \in Calls /\ w.op = Top.op /\ w.kind = Top.kind /\ w.layer = Top.layer
      /\ w.asked = Top.asked /\ w.info = list /\ w.link = Top.link
      /\ w.step = "called"
  BY <1>2, <1>4 DEF Calls
<1>6. /\ c \in Calls /\ c.op = "create" /\ c.kind = Top.kind /\ c.asked = passed
      /\ c.layer = Top.layer + 1 /\ c.step = "enter" /\ c.info = passed
  BY <1>1, <1>2, <1>3, ChainAssumption DEF Call, Calls, Lists, Layers
<1> HIDE DEF w, c
<1> QED
  BY <1>1, <1>2, <1>3, <1>4, <1>5, <1>6, CallInv

\* The layers below have the object, and now this one does.
LEMMA RegisterInv == ASSUME ChainInv, Register PROVE ChainInv'
<1>0. PICK l, k : l = Top.layer /\ k = Top.kind
  OBVIOUS
<1>1. /\ stack # <<>> /\ Top.op = "create" /\ Top.step = "made" /\ l \in Layers
      /\ l # App
  BY <1>0 DEF Register, At, Layers, App
<1>2. Top \in Calls /\ Top.link = l /\ k \in Kinds
      /\ (k = "instance" => Top.info = Top.asked)
  BY <1>0, <1>1, TopOfStack DEF CallOK, Calls
<1>3. /\ reg' = [reg EXCEPT ![k] = @ \cup {l}]
      /\ seen' = [seen EXCEPT ![k][l] = Top.info]
      /\ given' = [given EXCEPT ![k][l] = Top.asked]
      /\ next' = [next EXCEPT ![k][l] = l + 1]
      /\ Return("ok") /\ UNCHANGED <<link, alive, held, health>>
  BY <1>0, <1>2 DEF Register
<1>4. hooked' \in [Kinds -> SUBSET Layers]
  <2>1. hooked \in [Kinds -> SUBSET Layers]
    BY <1>0 DEF ChainInv, TypeOK
  <2>2. CASE k = "instance"
    <3>1. PICK H \in {{}, {l}} : hooked' = [hooked EXCEPT !["device"] = (@ \ {l}) \cup H]
      BY <1>0, <2>2 DEF Register
    <3> QED
      BY <1>0, <1>1, <2>1, <3>1 DEF Kinds
  <2>3. CASE k # "instance"
    BY <1>0, <2>1, <2>3 DEF Register
  <2> QED
    BY <1>0, <2>2, <2>3
<1>5. /\ reg \in [Kinds -> SUBSET Layers] /\ seen \in [Kinds -> [Layers -> Lists]]
      /\ given \in [Kinds -> [Layers -> SUBSET Exts]]
      /\ next \in [Kinds -> [Layers -> 0..(N + 1)]]
  BY <1>0 DEF ChainInv, TypeOK
<1>6. FirstInFlight = l + 1
  BY <1>0, <1>1 DEF FirstInFlight
<1>7. /\ stack' \in Seq(Calls) /\ Len(stack') \in 0..(N + 2) /\ stack' # <<>>
      /\ answer' \in {"ok", "error"} /\ Top'.kind = k /\ TopOK' /\ HeldOK'
      /\ FirstInFlight' = l
      /\ \A kind \in Kinds \ {k} : First(kind)' = First(kind)
  BY <1>0, <1>1, <1>3, AfterReturn
<1>8. StackOK' /\ ListsOK'
  BY <1>0, <1>1, <1>3, ReturnInv
<1>9. First(k) = l + 1 /\ First(k)' = l
  BY <1>0, <1>1, <1>6, <1>7 DEF First
<1>10. OwnersOK'
  <2> SUFFICES ASSUME NEW kind \in Kinds
               PROVE  /\ reg'[kind] = First(kind)'..N
                      /\ kind \in alive' <=> First(kind)' <= Driver
    BY <1>0 DEF OwnersOK
  <2>1. reg[kind] = First(kind)..N /\ (kind \in alive <=> First(kind) <= Driver)
    BY <1>0 DEF ChainInv, OwnersOK
  <2>2. CASE kind = k
    <3>1. reg'[k] = reg[k] \cup {l}
      BY <1>0, <1>2, <1>3, <1>5
    <3>2. reg'[k] = l..N
      BY <1>0, <1>1, <1>9, <2>1, <2>2, <3>1, ChainAssumption DEF Layers
    <3>3. k \in alive'
      BY <1>0, <1>1, <1>3, <1>9, <2>1, <2>2, ChainAssumption DEF Layers, Driver
    <3> QED
      BY <1>0, <1>1, <1>9, <2>2, <3>2, <3>3, ChainAssumption DEF Layers, Driver
  <2>3. CASE kind # k
    BY <1>0, <1>3, <1>5, <1>7, <2>1, <2>3
  <2> QED
    BY <1>0, <2>2, <2>3
<1>11. EntriesOK'
  <2> SUFFICES ASSUME NEW kind \in Kinds, NEW j \in reg'[kind]
               PROVE  /\ next'[kind][j] = j + 1
                      /\ kind = "instance" => seen'[kind][j] = given'[kind][j]
    BY <1>0 DEF EntriesOK
  <2>1. CASE kind = k /\ j = l
    BY <1>0, <1>1, <1>2, <1>3, <1>5, <2>1
  <2>2. CASE ~ (kind = k /\ j = l)
    <3>1. j \in reg[kind] /\ j \in Layers
      BY <1>0, <1>1, <1>2, <1>3, <1>5, <2>2
    <3>2. next'[kind][j] = next[kind][j] /\ seen'[kind][j] = seen[kind][j]
          /\ given'[kind][j] = given[kind][j]
      BY <1>0, <1>2, <1>3, <1>5, <2>2, <3>1
    <3> QED
      BY <1>0, <3>1, <3>2 DEF ChainInv, EntriesOK
  <2> QED
    BY <1>0, <2>1, <2>2
<1>12. NoPanic'
  BY <1>0, <1>3 DEF ChainInv, NoPanic
<1>13. /\ reg' \in [Kinds -> SUBSET Layers] /\ seen' \in [Kinds -> [Layers -> Lists]]
       /\ given' \in [Kinds -> [Layers -> SUBSET Exts]]
       /\ next' \in [Kinds -> [Layers -> 0..(N + 1)]]
  <2>1. Top.info \in Lists /\ Top.asked \in SUBSET Exts
    BY <1>0, <1>2 DEF Calls
  <2>2. l + 1 \in 0..(N + 1)
    BY <1>0, <1>1, ChainAssumption DEF Layers
  <2> QED
    BY <1>0, <1>1, <1>2, <1>3, <1>5, <2>1, <2>2
<1>14. TypeOK'
  BY <1>0, <1>3, <1>4, <1>7, <1>13 DEF ChainInv, TypeOK
<1> QED
  BY <1>0, <1>7, <1>8, <1>10, <1>11, <1>12, <1>14 DEF ChainInv


-----------------------------------------------------------------------------
(* The steps of a destruction.                                             *)

\* This layer has the object, and the next call is on the first that still has it.
LEMMA RemoveInv == ASSUME ChainInv, Remove PROVE ChainInv'
<1>0. PICK l, k : l = Top.layer /\ k = Top.kind
  OBVIOUS
<1> DEFINE w == [Top EXCEPT !.step = "called"]
           c == Call("destroy", k, next[k][l], {})
<1>1. stack # <<>> /\ Top.op = "destroy" /\ Top.step = "enter" /\ l \in Layers
  BY <1>0 DEF Remove, At
<1>2. Top \in Calls /\ k \in Kinds /\ (k = "instance" => Top.info = Top.asked)
  BY <1>0, <1>1, TopOfStack DEF CallOK, Calls
<1>3. /\ reg \in [Kinds -> SUBSET Layers] /\ seen \in [Kinds -> [Layers -> Lists]]
      /\ given \in [Kinds -> [Layers -> SUBSET Exts]]
      /\ next \in [Kinds -> [Layers -> 0..(N + 1)]]
  BY <1>0 DEF ChainInv, TypeOK
<1>4. First(k) = l
  BY <1>0, <1>1 DEF First, FirstInFlight
<1>5. reg[k] = l..N /\ k \in alive
  BY <1>0, <1>1, <1>2, <1>4, ChainAssumption DEF ChainInv, OwnersOK, Layers, Driver
<1>6. l \in reg[k]
  BY <1>0, <1>1, <1>5 DEF Layers
<1>7. next[k][l] = l + 1
  BY <1>0, <1>2, <1>6 DEF ChainInv, EntriesOK
<1>8. /\ reg' = [reg EXCEPT ![k] = @ \ {l}]
      /\ seen' = [seen EXCEPT ![k][l] = {}]
      /\ given' = [given EXCEPT ![k][l] = {}]
      /\ next' = [next EXCEPT ![k][l] = 0]
      /\ Push(w, c) /\ health' = "running"
      /\ UNCHANGED <<link, hooked, alive, held>>
  BY <1>0, <1>6 DEF Remove, Require
<1>9. /\ w \in Calls /\ w.op = "destroy" /\ w.kind = k /\ w.layer = l
      /\ w.asked = Top.asked /\ w.info = Top.info /\ w.step = "called"
  BY <1>0, <1>1, <1>2 DEF Calls
<1>10. /\ c \in Calls /\ c.op = "destroy" /\ c.kind = k /\ c.asked = {}
       /\ c.layer = l + 1 /\ c.step = "enter" /\ c.info = {}
  BY <1>0, <1>1, <1>2, <1>7, ChainAssumption DEF Call, Calls, Lists, Layers
<1> HIDE DEF w, c
<1>11. StackOK' /\ ListsOK'
  BY <1>0, <1>1, <1>2, <1>8, <1>9, <1>10, PushInv DEF Waiting
<1>12. /\ stack' \in Seq(Calls) /\ stack' # <<>> /\ Top' = c
       /\ Len(stack') = Len(stack) + 1
  BY <1>0, <1>1, <1>8, <1>9, <1>10, PushFacts, TopOfStack
<1>13. Len(stack') \in 0..(N + 2)
  BY <1>0, <1>1, <1>12, TopOfStack DEF Layers
<1>14. answer' = "none"
  BY <1>0, <1>8 DEF Push
<1>15. TopOK'
  BY <1>0, <1>10, <1>12, <1>14 DEF TopOK, Waiting
<1>16. /\ First(k)' = l + 1
       /\ \A kind \in Kinds \ {k} : First(kind)' = First(kind)
  BY <1>0, <1>1, <1>8, <1>10, <1>12 DEF First, FirstInFlight
<1>17. OwnersOK'
  <2> SUFFICES ASSUME NEW kind \in Kinds
               PROVE  /\ reg'[kind] = First(kind)'..N
                      /\ kind \in alive' <=> First(kind)' <= Driver
    BY <1>0 DEF OwnersOK
  <2>1. CASE kind = k
    <3>1. reg'[k] = (l + 1)..N
      <4>1. reg'[k] = (l..N) \ {l}
        BY <1>2, <1>3, <1>5, <1>8
      <4> QED
        BY <1>1, <4>1, ChainAssumption DEF Layers
    <3>2. k \in alive' /\ First(k)' <= Driver
      BY <1>0, <1>1, <1>5, <1>8, <1>16, ChainAssumption DEF Layers, Driver
    <3> QED
      BY <1>0, <1>16, <2>1, <3>1, <3>2
  <2>2. CASE kind # k
    BY <1>0, <1>3, <1>8, <1>16, <2>2 DEF ChainInv, OwnersOK
  <2> QED
    BY <1>0, <2>1, <2>2
<1>18. HeldOK'
  BY <1>0, <1>1, <1>8, <1>10, <1>12 DEF ChainInv, HeldOK
<1>19. EntriesOK'
  <2> SUFFICES ASSUME NEW kind \in Kinds, NEW j \in reg'[kind]
               PROVE  /\ next'[kind][j] = j + 1
                      /\ kind = "instance" => seen'[kind][j] = given'[kind][j]
    BY <1>0 DEF EntriesOK
  <2>1. j \in reg[kind] /\ j \in Layers /\ ~ (kind = k /\ j = l)
    BY <1>0, <1>2, <1>3, <1>8
  <2>2. next'[kind][j] = next[kind][j] /\ seen'[kind][j] = seen[kind][j]
        /\ given'[kind][j] = given[kind][j]
    BY <1>0, <1>2, <1>3, <1>8, <2>1
  <2> QED
    BY <1>0, <2>1, <2>2 DEF ChainInv, EntriesOK
<1>20. NoPanic'
  BY <1>0, <1>8 DEF NoPanic
<1>21. /\ reg' \in [Kinds -> SUBSET Layers] /\ seen' \in [Kinds -> [Layers -> Lists]]
       /\ given' \in [Kinds -> [Layers -> SUBSET Exts]]
       /\ next' \in [Kinds -> [Layers -> 0..(N + 1)]]
  BY <1>0, <1>1, <1>2, <1>3, <1>8, ChainAssumption DEF Lists
<1>22. TypeOK'
  BY <1>0, <1>8, <1>12, <1>13, <1>14, <1>21 DEF ChainInv, TypeOK
<1> QED
  BY <1>0, <1>11, <1>15, <1>17, <1>18, <1>19, <1>20, <1>22 DEF ChainInv

\* The layer below is back from the destruction: the one above still lacks the
\* object, and the return goes to it.
LEMMA DestroyedInv == ASSUME ChainInv, Destroyed PROVE ChainInv'
<1>1. /\ stack # <<>> /\ Top.op = "destroy" /\ Top.step = "called" /\ Top.layer # App
      /\ Return("ok") /\ UNCHANGED <<link, hooked, entries, alive, held, health>>
  BY DEF Destroyed, At, Layers, App
<1>2. FirstInFlight = N + 2
  BY <1>1 DEF FirstInFlight
<1>3. /\ stack' \in Seq(Calls) /\ Len(stack') \in 0..(N + 2) /\ stack' # <<>>
      /\ answer' \in {"ok", "error"} /\ Top'.kind = Top.kind /\ TopOK'
      /\ FirstInFlight' = N + 2
  BY <1>1, AfterReturn
<1>4. StackOK' /\ ListsOK'
  BY <1>1, ReturnInv
<1>5. OwnersOK' /\ HeldOK'
  BY <1>1, <1>2, <1>3, OwnersKept DEF entries
<1>6. EntriesOK' /\ NoPanic'
  BY <1>1 DEF ChainInv, EntriesOK, NoPanic, entries
<1>7. TypeOK'
  BY <1>1, <1>3 DEF ChainInv, TypeOK, entries
<1> QED
  BY <1>3, <1>4, <1>5, <1>6, <1>7 DEF ChainInv

-----------------------------------------------------------------------------
(* The steps of the driver and of the application.                         *)

\* The driver has the object, or no longer has it; no layer above does.
LEMMA DriverInv ==
  ASSUME ChainInv, DriverCreates \/ DriverDestroys
  PROVE  ChainInv'
<1>0. PICK k : k = Top.kind
  OBVIOUS
<1>1. /\ stack # <<>> /\ Top.layer = Driver /\ Top.layer # App
      /\ Return("ok") /\ UNCHANGED <<link, hooked, entries, held, health>>
  BY <1>0, ChainAssumption DEF DriverCreates, DriverDestroys, AtDriver, Driver, App
<1>2. Top \in Calls /\ k \in Kinds /\ Top.step = "enter"
  BY <1>0, <1>1, TopOfStack, ChainAssumption DEF CallOK, Calls, Driver, App
<1>3. /\ stack' \in Seq(Calls) /\ Len(stack') \in 0..(N + 2) /\ stack' # <<>>
      /\ answer' \in {"ok", "error"} /\ Top'.kind = Top.kind /\ TopOK' /\ HeldOK'
      /\ FirstInFlight' = IF Top.op = "create" THEN Top.layer ELSE N + 2
      /\ \A kind \in Kinds \ {k} : First(kind)' = First(kind)
  BY <1>0, <1>1, AfterReturn
<1>4. StackOK' /\ ListsOK'
  BY <1>0, <1>1, ReturnInv
<1>5. First(k)' = IF Top.op = "create" THEN N + 1 ELSE N + 2
  BY <1>0, <1>1, <1>3 DEF First, Driver
<1>6. First(k) = IF Top.op = "create" THEN N + 2 ELSE N + 1
  BY <1>0, <1>1, <1>2 DEF First, FirstInFlight, Driver
<1>7. alive' = IF Top.op = "create" THEN alive \cup {k} ELSE alive \ {k}
  BY <1>0 DEF DriverCreates, DriverDestroys, AtDriver
<1>8. OwnersOK'
  <2> SUFFICES ASSUME NEW kind \in Kinds
               PROVE  /\ reg'[kind] = First(kind)'..N
                      /\ kind \in alive' <=> First(kind)' <= Driver
    BY <1>0 DEF OwnersOK
  <2>1. reg[kind] = First(kind)..N /\ (kind \in alive <=> First(kind) <= Driver)
    BY <1>0 DEF ChainInv, OwnersOK
  <2>2. CASE kind = k
    <3>1. reg'[k] = {}
      BY <1>0, <1>1, <1>6, <2>1, <2>2, ChainAssumption DEF entries
    <3>2. First(k)'..N = {}
      BY <1>0, <1>5, ChainAssumption
    <3>3. k \in alive' <=> First(k)' <= Driver
      BY <1>0, <1>5, <1>7, ChainAssumption DEF Driver
    <3> QED
      BY <1>0, <2>2, <3>1, <3>2, <3>3
  <2>3. CASE kind # k
    BY <1>0, <1>1, <1>3, <1>7, <2>1, <2>3 DEF entries
  <2> QED
    BY <1>0, <2>2, <2>3
<1>9. EntriesOK' /\ NoPanic'
  BY <1>0, <1>1 DEF ChainInv, EntriesOK, NoPanic, entries
<1>10. alive' \in SUBSET Kinds
  BY <1>0, <1>2, <1>7 DEF ChainInv, TypeOK
<1>11. TypeOK'
  BY <1>0, <1>1, <1>3, <1>10 DEF ChainInv, TypeOK, entries
<1> QED
  BY <1>0, <1>3, <1>4, <1>8, <1>9, <1>11 DEF ChainInv

\* The driver fails: nobody below has the object, so that all of it is undone.
LEMMA DriverRefusesInv == ASSUME ChainInv, DriverRefuses PROVE ChainInv'
<1>1. /\ stack # <<>> /\ Top.op = "create" /\ Top.layer = Driver /\ Top.layer # App
      /\ Return("error") /\ UNCHANGED <<link, hooked, entries, alive, held, health>>
  BY ChainAssumption DEF DriverRefuses, AtDriver, Driver, App
<1>2. Top.step = "enter"
  BY <1>1, TopOfStack DEF CallOK
<1> QED
  BY <1>1, <1>2, FailInv

\* The application begins with the object it does not hold, or gives it up.
LEMMA BeginInv ==
  ASSUME ChainInv, NEW op \in {"create", "destroy"}, NEW kind \in Kinds,
         NEW asked \in SUBSET Exts, Begin(op, kind, asked),
         op = "create" => kind \notin held,
         op = "destroy" => kind \in held,
         kind = "instance" => held \subseteq {"instance"},
         kind = "device" => "instance" \in held
  PROVE  ChainInv'
<1> DEFINE w == [Call(op, kind, App, asked) EXCEPT !.step = "called"]
           c == Call(op, kind, 1, asked)
<1>1. N \in Nat \ {0}
  BY ChainAssumption
<1>2. /\ stack = <<>> /\ stack' = <<w, c>> /\ answer' = "none" /\ link' = 1
      /\ held' = (IF op = "destroy" THEN held \ {kind} ELSE held)
      /\ UNCHANGED <<hooked, entries, alive, health>>
  BY DEF Begin
<1>3. /\ w \in Calls /\ w.op = op /\ w.kind = kind /\ w.layer = 0 /\ w.step = "called"
      /\ w.asked = asked /\ w.info = asked
  BY <1>1 DEF Call, Calls, Lists, App
<1>4. /\ c \in Calls /\ c.op = op /\ c.kind = kind /\ c.layer = 1 /\ c.step = "enter"
      /\ c.asked = asked /\ c.info = asked
  BY <1>1 DEF Call, Calls, Lists
<1> HIDE DEF w, c
<1>5. /\ stack' \in Seq(Calls) /\ Len(stack') = 2 /\ stack' # <<>>
      /\ stack'[1] = w /\ stack'[2] = c /\ Top' = c /\ DOMAIN stack' = 1..2
  BY <1>2, <1>3, <1>4 DEF Top
<1>6. StackOK'
  <2>1. CallOK(1)'
    BY <1>1, <1>3, <1>5 DEF CallOK, App, Driver, Layers
  <2>2. CallOK(2)'
    BY <1>1, <1>4, <1>5 DEF CallOK, App, Driver, Layers
  <2>3. CallerOK(2)'
    <3>1. stack'[2 - 1] = w
      BY <1>5
    <3> QED
      BY <1>3, <1>4, <1>5, <3>1 DEF CallerOK, Waiting
  <2>4. \A k \in 1..2 : k = 1 \/ k = 2
    OBVIOUS
  <2>5. \A k \in 2..2 : k = 2
    OBVIOUS
  <2> QED
    BY <1>5, <2>1, <2>2, <2>3, <2>4, <2>5 DEF StackOK
<1>7. ListsOK'
  <2>1. RoutedTo(2)'
    <3>1. (1 + 1)..(2 - 1) = {}
      OBVIOUS
    <3>2. UNION {Claims[stack'[k].layer] : k \in (1 + 1)..(2 - 1)} = {}
      BY <3>1
    <3>3. stack'[2].asked = stack'[1].asked \ {}
      BY <1>3, <1>4, <1>5
    <3> QED
      BY <3>1, <3>2, <3>3 DEF RoutedTo
  <2>2. \A m \in 2..2 : m = 2
    OBVIOUS
  <2> QED
    BY <1>5, <2>1, <2>2 DEF ListsOK
<1>8. TopOK'
  BY <1>2, <1>4, <1>5 DEF TopOK, Waiting
<1>9. OwnersOK'
  <2> SUFFICES ASSUME NEW x \in Kinds
               PROVE  /\ reg'[x] = First(x)'..N
                      /\ x \in alive' <=> First(x)' <= Driver
    BY DEF OwnersOK
  <2>1. reg[x] = First(x)..N /\ (x \in alive <=> First(x) <= Driver)
    BY DEF ChainInv, OwnersOK
  <2>2. First(x)' = First(x)
    BY <1>2, <1>4, <1>5 DEF First, FirstInFlight
  <2> QED
    BY <1>2, <2>1, <2>2 DEF entries
<1>10. HeldOK'
  <2>1. held \in SUBSET Kinds /\ ("device" \in held => "instance" \in held)
    BY <1>2 DEF ChainInv, TypeOK, HeldOK
  <2>2. held' = IF kind = "instance" THEN {} ELSE {"instance"}
    BY <1>2, <2>1 DEF Kinds
  <2> QED
    BY <1>4, <1>5, <2>2 DEF HeldOK
<1>11. EntriesOK' /\ NoPanic'
  BY <1>2 DEF ChainInv, EntriesOK, NoPanic, entries
<1>12. TypeOK'
  BY <1>1, <1>2, <1>5 DEF ChainInv, TypeOK, entries
<1> QED
  BY <1>6, <1>7, <1>8, <1>9, <1>10, <1>11, <1>12 DEF ChainInv

\* What the application starts, and what it learns when the call is back.
LEMMA AppInv == ASSUME ChainInv, AppStep PROVE ChainInv'
<1>1. CASE CreateInstance
  <2>1. PICK asked \in Requests["instance"] : Begin("create", "instance", asked)
    BY <1>1 DEF CreateInstance
  <2>2. asked \in SUBSET Exts
    BY <2>1, ChainAssumption DEF Kinds
  <2>3. held = {} /\ "instance" \in Kinds
    BY <1>1 DEF CreateInstance, Kinds
  <2> QED
    BY <2>1, <2>2, <2>3, BeginInv
<1>2. CASE CreateDevice
  <2>1. PICK asked \in Requests["device"] : Begin("create", "device", asked)
    BY <1>2 DEF CreateDevice
  <2>2. asked \in SUBSET Exts
    BY <2>1, ChainAssumption DEF Kinds
  <2>3. held = {"instance"} /\ "device" \in Kinds
    BY <1>2 DEF CreateDevice, Kinds
  <2> QED
    BY <2>1, <2>2, <2>3, BeginInv
<1>3. CASE DestroyDevice
  BY <1>3, BeginInv DEF DestroyDevice, Kinds
<1>4. CASE DestroyInstance
  BY <1>4, BeginInv DEF DestroyInstance, Kinds
<1> QED
  BY <1>1, <1>2, <1>3, <1>4 DEF AppStep

\* The application gets the answer: the object is everywhere, or nowhere.
LEMMA DeliverInv == ASSUME ChainInv, Deliver PROVE ChainInv'
<1>1. /\ stack # <<>> /\ Top.layer = App /\ answer # "none"
      /\ stack' = Below /\ answer' = "none"
      /\ held' = (IF Top.op = "create" /\ answer = "ok" THEN held \cup {Top.kind} ELSE held)
      /\ UNCHANGED <<link, hooked, entries, alive, health>>
  BY DEF Deliver
<1>2. /\ Top \in Calls /\ Top.step = "called" /\ Len(stack) = 1
      /\ stack \in Seq(Calls) /\ N \in Nat \ {0}
  BY <1>1, TopOfStack DEF CallOK, App
<1>3. stack' = <<>>
  <2>1. stack' \in Seq(Calls) /\ Len(stack') = 0
    BY <1>1, <1>2, TopFacts
  <2> QED
    BY <2>1
<1>4. answer \in {"ok", "error"} /\ (Top.op = "destroy" => answer = "ok")
  BY <1>1, <1>2 DEF ChainInv, TopOK, Waiting
<1>5. held = IF Top.kind = "instance" THEN {} ELSE {"instance"}
  BY <1>1 DEF ChainInv, HeldOK
<1>6. StackOK' /\ ListsOK'
  BY <1>3 DEF StackOK, ListsOK
<1>7. TopOK'
  BY <1>3 DEF TopOK
<1>8. OwnersOK'
  <2> SUFFICES ASSUME NEW x \in Kinds
               PROVE  /\ reg'[x] = First(x)'..N
                      /\ x \in alive' <=> First(x)' <= Driver
    BY DEF OwnersOK
  <2>1. reg[x] = First(x)..N /\ (x \in alive <=> First(x) <= Driver)
    BY DEF ChainInv, OwnersOK
  <2>2. First(x)' = IF x \in held' THEN 1 ELSE N + 2
    BY <1>3 DEF First
  <2>3. CASE x = Top.kind
    <3>1. Top.op \in {"create", "destroy"}
      BY <1>2 DEF Calls
    <3>2. First(x) = IF Top.op = "create" /\ answer = "ok" THEN 1 ELSE N + 2
      BY <1>1, <1>2, <2>3, <3>1 DEF First, FirstInFlight, App
    <3>3. x \in held' <=> Top.op = "create" /\ answer = "ok"
      BY <1>1, <1>5, <2>3
    <3> QED
      BY <1>1, <2>1, <2>2, <3>2, <3>3 DEF entries
  <2>4. CASE x # Top.kind
    <3>1. First(x)' = First(x)
      BY <1>1, <2>2, <2>4 DEF First
    <3> QED
      BY <1>1, <2>1, <3>1 DEF entries
  <2> QED
    BY <2>3, <2>4
<1>9. HeldOK'
  BY <1>1, <1>3, <1>5 DEF HeldOK
<1>10. EntriesOK' /\ NoPanic'
  BY <1>1 DEF ChainInv, EntriesOK, NoPanic, entries
<1>11. TypeOK'
  <2>1. held' \in SUBSET Kinds
    BY <1>1, <1>2 DEF ChainInv, TypeOK, Calls
  <2>2. stack' \in Seq(Calls) /\ Len(stack') \in 0..(N + 2)
    BY <1>2, <1>3
  <2> QED
    BY <1>1, <2>1, <2>2 DEF ChainInv, TypeOK, entries
<1> QED
  BY <1>6, <1>7, <1>8, <1>9, <1>10, <1>11 DEF ChainInv


-----------------------------------------------------------------------------
(* The theorems.                                                           *)

\* A step of the chain keeps the invariant.
LEMMA ChainStepInv == ASSUME ChainInv, ChainStep PROVE ChainInv'
<1>1. CASE LinkMissing \/ HookRefuses \/ HookGivesUp
  <2>1. /\ stack # <<>> /\ Top.op = "create" /\ Top.layer # App
        /\ Top.step \in {"enter", "hook", "undo"}
        /\ Return("error") /\ UNCHANGED <<link, hooked, entries, alive, held, health>>
    BY <1>1 DEF LinkMissing, HookRefuses, HookGivesUp, At, Layers, App
  <2> QED
    BY <2>1, FailInv
<1>2. CASE DriverCreates \/ DriverDestroys
  BY <1>2, DriverInv
<1>3. CASE HookReturns \/ NextReturned
  BY <1>3, AnsweredInv
<1>4. CASE HookCallsNext \/ HookUndoes
  BY <1>4, HookCallsInv
<1> QED
  BY <1>1, <1>2, <1>3, <1>4, TakeLinkInv, HookDeclinesInv, CallNextInv, RegisterInv,
     RemoveInv, DestroyedInv, DriverRefusesInv, DeliverInv DEF ChainStep

\* The inductive invariant of the chain.
THEOREM Inductive == Spec => []ChainInv
<1>1. Init => ChainInv
  <2> SUFFICES ASSUME Init PROVE ChainInv
    OBVIOUS
  <2>1. N \in Nat \ {0}
    BY ChainAssumption
  <2>2. TypeOK
    BY <2>1 DEF Init, TypeOK, PerLayer, Kinds, Lists
  <2>3. StackOK /\ TopOK /\ ListsOK
    BY DEF Init, StackOK, TopOK, ListsOK
  <2>4. OwnersOK
    BY <2>1 DEF Init, OwnersOK, First, Driver
  <2>5. HeldOK /\ EntriesOK /\ NoPanic
    BY DEF Init, HeldOK, EntriesOK, NoPanic
  <2> QED
    BY <2>2, <2>3, <2>4, <2>5 DEF ChainInv
<1>2. ChainInv /\ [Next]_vars => ChainInv'
  <2> SUFFICES ASSUME ChainInv, [Next]_vars PROVE ChainInv'
    OBVIOUS
  <2>1. CASE Next
    BY <2>1, AppInv, ChainStepInv DEF Next
  <2>2. CASE UNCHANGED vars
    <3>1. UNCHANGED <<stack, answer, link, hooked, reg, seen, given, next, alive, held, health>>
      BY <2>2 DEF vars, entries
    <3>2. TypeOK' /\ NoPanic'
      BY <3>1 DEF ChainInv, TypeOK, NoPanic
    <3>3. StackOK'
      BY <3>1 DEF ChainInv, StackOK, CallOK, CallerOK
    <3>4. ListsOK'
      BY <3>1 DEF ChainInv, ListsOK, RoutedTo
    <3>5. TopOK' /\ HeldOK' /\ EntriesOK'
      BY <3>1 DEF ChainInv, TopOK, Top, HeldOK, EntriesOK
    <3>6. OwnersOK'
      BY <3>1 DEF ChainInv, OwnersOK, First, FirstInFlight, Top
    <3> QED
      BY <3>2, <3>3, <3>4, <3>5, <3>6 DEF ChainInv
  <2> QED
    BY <2>1, <2>2
<1> QED
  BY <1>1, <1>2, PTL DEF Spec

\* The variables have their types; in particular the stack is never deeper than
\* the chain.
THEOREM TypeCorrect == Spec => []TypeOK
<1>1. ChainInv => TypeOK
  BY DEF ChainInv
<1> QED
  BY <1>1, Inductive, PTL

\* No layer meets the NULL end of the list or an object it does not know.
THEOREM NeverPanics == Spec => []NoPanic
<1>1. ChainInv => NoPanic
  BY DEF ChainInv
<1> QED
  BY <1>1, Inductive, PTL

\* Each layer takes its own link, and the layers are entered in their order.
THEOREM LinksAreOwn == Spec => []OwnLink
<1>1. ChainInv => OwnLink
  <2> SUFFICES ASSUME ChainInv, NEW k \in DOMAIN stack
               PROVE  /\ k > 1 => stack[k].layer = stack[k - 1].layer + 1
                      /\ stack[k].op = "create" /\ stack[k].layer \in Layers
                           /\ stack[k].step # "enter" => stack[k].link = stack[k].layer
                      /\ stack[k].step = "hook" => link = stack[k].layer + 1
    BY DEF OwnLink
  <2>1. PICK n \in Nat \ {0} :
          stack \in Seq(Calls) /\ Len(stack) = n /\ k \in 1..n /\ Top = stack[n]
    BY TopOfStack
  <2>2. CallOK(k)
    BY DEF ChainInv, StackOK
  <2>3. k > 1 => CallOK(k - 1)
    BY <2>1 DEF ChainInv, StackOK
  <2>4. k > 1 => stack[k].layer = stack[k - 1].layer + 1
    BY <2>1, <2>2, <2>3 DEF CallOK
  <2>5. ASSUME stack[k].step = "hook" PROVE link = stack[k].layer + 1
    <3>1. k = n
      <4> SUFFICES ASSUME k # n PROVE FALSE
        OBVIOUS
      <4>1. k + 1 \in 2..n /\ (k + 1) - 1 = k
        BY <2>1
      <4>2. stack[(k + 1) - 1].step \in Waiting
        BY <2>1, <4>1 DEF ChainInv, StackOK, CallerOK
      <4> QED
        BY <2>5, <4>1, <4>2 DEF Waiting
    <3> QED
      BY <2>1, <2>5, <3>1 DEF ChainInv, TopOK
  <2> QED
    BY <2>2, <2>4, <2>5 DEF CallOK
<1> QED
  BY <1>1, Inductive, PTL

\* A layer knows an object only while all the layers below it and the driver do.
THEOREM AlwaysNested == Spec => []Nested
<1>1. ChainInv => Nested
  <2> SUFFICES ASSUME ChainInv, NEW kind \in Kinds, NEW l \in Layers, l \in reg[kind]
               PROVE  kind \in alive /\ (l + 1)..N \subseteq reg[kind]
    BY DEF Nested
  <2>1. reg[kind] = First(kind)..N /\ (kind \in alive <=> First(kind) <= Driver)
    BY DEF ChainInv, OwnersOK
  <2>2. First(kind) \in Nat /\ N \in Nat \ {0}
    <3>1. stack # <<>> => Top.layer \in Nat
      BY TopOfStack
    <3> QED
      BY <3>1, ChainAssumption DEF First, FirstInFlight
  <2> QED
    BY <2>1, <2>2 DEF Layers, Driver
<1> QED
  BY <1>1, Inductive, PTL

\* A creation is known to every layer, or leaves nothing behind in any; so does a
\* destruction.
THEOREM AlwaysAllOrNothing == Spec => []AllOrNothing
<1>1. ChainInv => AllOrNothing
  <2> SUFFICES ASSUME ChainInv, stack = <<>>, NEW kind \in Kinds
               PROVE  IF kind \in held THEN kind \in alive /\ reg[kind] = Layers
                                       ELSE kind \notin alive /\ reg[kind] = {}
    BY DEF AllOrNothing
  <2>1. First(kind) = IF kind \in held THEN 1 ELSE N + 2
    BY DEF First
  <2> QED
    BY <2>1, ChainAssumption DEF ChainInv, OwnersOK, Layers, Driver
<1> QED
  BY <1>1, Inductive, PTL

\* The driver gets the extensions that no layer on the way has for itself.
THEOREM AlwaysRouted == Spec => []ExtensionsRouted
<1>1. ChainInv => ExtensionsRouted
  <2> SUFFICES ASSUME ChainInv, stack # <<>>, Top.op = "create", Top.kind = "device",
                      Top.layer = Driver
               PROVE  RoutedTo(Len(stack))
    BY DEF ExtensionsRouted
  <2>1. Len(stack) \in 2..Len(stack) /\ Top = stack[Len(stack)]
    BY TopOfStack DEF Driver
  <2> QED
    BY <2>1 DEF ChainInv, ListsOK
<1> QED
  BY <1>1, Inductive, PTL

\* create_instance_info gets the create info of the caller.
THEOREM AlwaysOriginal == Spec => []InstanceInfoGetsOriginal
<1>1. ChainInv => InstanceInfoGetsOriginal
  BY DEF ChainInv, EntriesOK, InstanceInfoGetsOriginal, Kinds
<1> QED
  BY <1>1, Inductive, PTL
=============================================================================
