-------------------------- MODULE Enumerate_proofs --------------------------
(* The invariant of EnumerateInv is inductive, and what Enumerate promises *)
(* of the arrays and of the registered devices follows from it, for any    *)
(* physical devices, lists and arrays.                                     *)
(*                                                                         *)
(* One lemma per action; steps named t (types), a (a call that is not      *)
(* answered), f (one that is), r (where the handler is) and k (what is     *)
(* registered) prove the parts of the invariant.                           *)
EXTENDS EnumerateInv, SequenceTheorems, TLAPS

Cells == (SUBSET PhysDevs) \cup {Blank}

\* A list has at most MaxLen elements, and they are sets of physical devices.
LEMMA ListFacts ==
  ASSUME NEW q \in Queries, NEW l \in Lists(q)
  PROVE  /\ l \in Seq(SUBSET PhysDevs)
         /\ Len(l) \in 0..MaxLen
         /\ q.entry = "instance extensions" /\ q.of = "this" => l = <<>>
<1>1. ASSUME NEW lengths \in SUBSET (0..MaxLen), l \in DisjointLists(q.entry, lengths)
      PROVE  l \in Seq(SUBSET PhysDevs) /\ Len(l) \in 0..MaxLen
  <2>1. PICK n \in lengths : l \in [1..n -> Elements(q.entry)]
    BY <1>1 DEF DisjointLists
  <2>2. Elements(q.entry) \subseteq SUBSET PhysDevs
    BY DEF Elements
  <2>3. n \in Nat /\ n \in 0..MaxLen
    BY BoundsAssumption
  <2>4. l \in [1..n -> SUBSET PhysDevs]
    BY <2>1, <2>2
  <2>5. Len(l) = n /\ l \in Seq(SUBSET PhysDevs)
    BY <2>3, <2>4
  <2> QED
    BY <2>3, <2>5
<1>2. {1} \in SUBSET (0..MaxLen) /\ 0..MaxLen \in SUBSET (0..MaxLen)
  BY BoundsAssumption
<1>3. CASE q.entry = "layers"
  BY <1>1, <1>2, <1>3 DEF Lists
<1>4. CASE q.entry = "instance extensions"
  <2>1. l = <<>>
    BY <1>4 DEF Lists
  <2> QED
    BY <2>1, BoundsAssumption, EmptySeq
<1>5. CASE q.entry \notin {"layers", "instance extensions"}
  BY <1>1, <1>2, <1>5 DEF Lists
<1> QED
  BY <1>3, <1>4, <1>5

\* The arrays of cap elements.
LEMMA ArrayType ==
  ASSUME NEW n \in 0..MaxCap, NEW a
  PROVE  a \in Arrays /\ DOMAIN a = 1..n <=> a \in [1..n -> Cells]
<1>1. ASSUME a \in Arrays, DOMAIN a = 1..n
      PROVE  a \in [1..n -> Cells]
  <2>1. PICK j \in 0..MaxCap : a \in [1..j -> Cells]
    BY <1>1 DEF Arrays, Cells
  <2> QED
    BY <1>1, <2>1
<1>2. ASSUME a \in [1..n -> Cells]
      PROVE  a \in Arrays /\ DOMAIN a = 1..n
  BY <1>2 DEF Arrays, Cells
<1> QED
  BY <1>1, <1>2

\* The types of what a call works on, in the form the steps use.
LEMMA Types ==
  ASSUME TypeOK
  PROVE  /\ list \in Seq(SUBSET PhysDevs) /\ Len(list) \in 0..MaxLen
         /\ served \in Seq(SUBSET PhysDevs) /\ Len(served) \in 0..MaxLen
         /\ count \in 0..MaxCap /\ cap \in 0..MaxCap
         /\ MaxCap \in Nat /\ MaxLen \in Nat /\ MaxLen <= MaxCap
         /\ array # None => array \in [1..cap -> Cells]
<1>1. served = <<>> => served \in Seq(SUBSET PhysDevs) /\ Len(served) \in 0..MaxLen
  BY BoundsAssumption, EmptySeq
<1> QED
  BY <1>1, ListFacts, ArrayType, BoundsAssumption DEF TypeOK

\* What Overwrite leaves in the array.
LEMMA OverwriteFacts ==
  ASSUME TypeOK, array # None, NEW n \in Nat, n <= Len(list)
  PROVE  /\ Overwrite(n) \in [1..cap -> Cells]
         /\ \A k \in 1..cap : Overwrite(n)[k] = IF k <= n THEN list[k] ELSE array[k]
<1>1. \A k \in 1..n : list[k] \in SUBSET PhysDevs
  BY Types, ElementOfSeq
<1>2. ASSUME NEW k \in 1..cap
      PROVE  (IF k <= n THEN list[k] ELSE array[k]) \in Cells
  BY <1>1, Types DEF Cells
<1> QED
  BY <1>2 DEF Overwrite

-----------------------------------------------------------------------------
(* What the caller does, and what the next layer does meanwhile.           *)

\* The NULL array is asked for with any count.
LEMMA AskCountInv == ASSUME EnumInv, AskCount PROVE EnumInv'
<1>t. TypeOK'
  BY BoundsAssumption DEF EnumInv, AskCount, TypeOK
<1> QED
  BY <1>t DEF EnumInv, AskCount, AskedOK, AnsweredOK, RegisterOK, ToldIsKnown

\* An array that is asked for is blank.
LEMMA FetchInv == ASSUME EnumInv, NEW n \in 0..MaxCap, Fetch(n) PROVE EnumInv'
<1>1. array' = [k \in 1..n |-> Blank] /\ cap' = n /\ count' = n /\ array' \in [1..n -> Cells]
  BY DEF Fetch, Cells
<1>t. TypeOK'
  <2>1. array' \in Arrays /\ DOMAIN array' = 1..n
    BY <1>1, ArrayType
  <2> QED
    BY <1>1, <2>1 DEF EnumInv, Fetch, TypeOK
<1>a. AskedOK'
  BY <1>1 DEF Fetch, AskedOK, Untouched
<1> QED
  BY <1>t, <1>a DEF EnumInv, Fetch, AnsweredOK, RegisterOK, ToldIsKnown

\* The list is looked at when a call is answered, and not after.
LEMMA HotplugInv == ASSUME EnumInv, Hotplug PROVE EnumInv'
<1>t. TypeOK'
  BY DEF EnumInv, Hotplug, TypeOK, callVars
<1> QED
  BY <1>t DEF EnumInv, Hotplug, callVars, AskedOK, AnsweredOK, RegisterOK, ToldIsKnown,
     Filled, Untouched

-----------------------------------------------------------------------------
(* The answers.                                                            *)

\* An answer from the list of this moment, for any array the caller passed.
LEMMA AnsweredFrom ==
  ASSUME EnumInv, array # None, count = cap, \A k \in 1..cap : array[k] = Blank,
         NEW n \in Nat, n = Min2(cap, Len(list)),
         count' = n, array' = Overwrite(n), cap' = cap, served' = list,
         result' = "SUCCESS" <=> cap >= Len(list)
  PROVE  /\ array' \in Arrays /\ DOMAIN array' = 1..cap /\ count' \in 0..MaxCap
         /\ Filled'
<1>1. n <= Len(list) /\ n <= cap
  BY Types DEF EnumInv, Min2
<1>2. /\ array' \in [1..cap -> Cells]
      /\ \A k \in 1..cap : array'[k] = IF k <= n THEN list[k] ELSE array[k]
  BY <1>1, OverwriteFacts DEF EnumInv
<1>3. array' \in Arrays /\ DOMAIN array' = 1..cap /\ count' \in 0..MaxCap
  <2>1. cap \in 0..MaxCap /\ n \in 0..MaxCap
    BY <1>1, Types DEF EnumInv
  <2> QED
    BY <1>2, <2>1, ArrayType
<1>4. Filled'
  BY <1>2 DEF Filled
<1> QED
  BY <1>3, <1>4

\* An answer that fills the array, or only counts, as the specification of the
\* command has it, and leaves nothing or all of the registration to be done.
LEMMA Answers ==
  ASSUME EnumInv, NEW l \in {"idle", "register"}, AnswerWith(l),
         l = "idle" => query.entry \notin {"devices", "groups"},
         l = "register" => query.of = "next" /\ query.entry \in {"devices", "groups"},
         served' = list,
         result' \in {"SUCCESS", "INCOMPLETE"},
         array = None => count' = Len(list) /\ array' = array,
         array # None => /\ count' = Min2(count, Len(list))
                         /\ array' = Overwrite(Min2(count, Len(list)))
                         /\ result' = "SUCCESS" <=> cap >= Len(list)
  PROVE  EnumInv'
<1>1. /\ pc = "answer" /\ pc' = l
      /\ UNCHANGED <<query, list, cap, known, undefined, health>>
  BY DEF AnswerWith
<1>2. CASE array = None
  <2>t. TypeOK'
    BY <1>1, <1>2, Types DEF EnumInv, TypeOK
  <2> QED
    BY <1>1, <1>2, <2>t DEF EnumInv, AskedOK, AnsweredOK, RegisterOK, ToldIsKnown
<1>3. CASE array # None
  <2>1. count = cap /\ \A k \in 1..cap : array[k] = Blank
    BY <1>1, <1>3 DEF EnumInv, AskedOK, Untouched
  <2>2. PICK n : n = Min2(cap, Len(list))
    OBVIOUS
  <2>3. n \in Nat /\ count' = n /\ array' = Overwrite(n)
    BY <1>3, <2>1, <2>2, Types DEF EnumInv, Min2
  <2>4. /\ array' \in Arrays /\ DOMAIN array' = 1..cap /\ count' \in 0..MaxCap
        /\ Filled'
    BY <1>1, <1>3, <2>1, <2>2, <2>3, AnsweredFrom
  <2>t. TypeOK'
    BY <1>1, <2>4 DEF EnumInv, TypeOK
  <2> QED
    BY <1>1, <2>4, <2>t DEF EnumInv, AskedOK, AnsweredOK, RegisterOK, ToldIsKnown
<1> QED
  BY <1>2, <1>3

\* fill_vk_out_array is a filling of the array, whatever the length of both.
LEMMA AnswerOwnInv == ASSUME EnumInv, AnswerOwn PROVE EnumInv'
<1>1. /\ query.of = "this" /\ query.entry # "instance extensions"
      /\ AnswerWith("idle") /\ FillVkOutArray /\ served' = list
  BY DEF AnswerOwn
<1>2. query \in Queries /\ query.entry \notin {"devices", "groups"}
  BY <1>1 DEF EnumInv, TypeOK, Queries
<1>3. ASSUME array # None
      PROVE  /\ count = cap
             /\ count' = Min2(count, Len(list))
             /\ array' = Overwrite(Min2(count, Len(list)))
             /\ result' = "SUCCESS" <=> cap >= Len(list)
             /\ result' \in {"SUCCESS", "INCOMPLETE"}
  <2>1. count = cap /\ count \in Nat /\ cap \in Nat /\ Len(list) \in Nat
    <3>1. count = cap
      BY <1>1, <1>3 DEF EnumInv, AskedOK, AnswerWith, Untouched
    <3> QED
      BY <3>1, Types DEF EnumInv
  <2>2. array \in [1..cap -> Cells]
    BY <1>3, Types DEF EnumInv
  <2>3. CASE count = 0
    <3>1. Overwrite(0) = array
      BY <2>1, <2>2, <2>3 DEF Overwrite
    <3>2. /\ count' = count /\ array' = array
          /\ result' = IF list = <<>> THEN "SUCCESS" ELSE "INCOMPLETE"
      BY <1>1, <1>3, <2>1, <2>3 DEF FillVkOutArray
    <3>3. list = <<>> <=> Len(list) = 0
      BY Types, EmptySeq DEF EnumInv
    <3>4. Min2(count, Len(list)) = 0
      BY <2>1, <2>3 DEF Min2
    <3>5. result' = "SUCCESS" <=> cap >= Len(list)
      BY <2>1, <2>3, <3>2, <3>3
    <3> QED
      BY <2>1, <2>3, <3>1, <3>2, <3>4, <3>5
  <2>4. CASE count # 0 /\ count < Len(list)
    <3>0. ~ (count >= Len(list))
      BY <2>1, <2>4
    <3>1. /\ count' = count /\ array' = Overwrite(count)
          /\ result' = "INCOMPLETE"
      BY <1>1, <1>3, <2>4, <3>0, Zenon DEF FillVkOutArray
    <3> QED
      BY <2>1, <2>4, <3>1 DEF Min2
  <2>5. CASE count # 0 /\ count >= Len(list)
    <3>0. ~ (count < Len(list))
      BY <2>1, <2>5
    <3>1. /\ count' = Len(list) /\ array' = Overwrite(Len(list))
          /\ result' = "SUCCESS"
      BY <1>1, <1>3, <2>5, <3>0, Zenon DEF FillVkOutArray
    <3>2. Min2(count, Len(list)) = Len(list)
      BY <2>1, <2>5 DEF Min2
    <3> QED
      BY <2>1, <2>5, <3>1, <3>2
  <2> QED
    BY <2>1, <2>3, <2>4, <2>5
<1>4. ASSUME array = None
      PROVE  count' = Len(list) /\ array' = array /\ result' = "SUCCESS"
  BY <1>1, <1>4 DEF FillVkOutArray
<1> QED
  BY <1>1, <1>2, <1>3, <1>4, Answers

\* A layer has no instance extensions, and the empty list fills no array.
LEMMA AnswerNoneInv == ASSUME EnumInv, AnswerNone PROVE EnumInv'
<1>1. /\ pc = "answer" /\ pc' = "idle" /\ count' = 0 /\ result' = "SUCCESS"
      /\ UNCHANGED <<query, list, cap, array, known, undefined, health>>
  BY DEF AnswerNone, AnswerWith
<1>2. served' = <<>>
  BY DEF AnswerNone
<1>t. TypeOK'
  <2>1. count' \in 0..MaxCap /\ served' \in {<<>>}
    BY <1>1, <1>2, BoundsAssumption
  <2>2. served' \in Lists(query) \cup {<<>>}
    BY <2>1
  <2> QED
    BY <1>1, <2>1, <2>2 DEF EnumInv, TypeOK
<1>f. AnsweredOK'
  <2>1. SUFFICES ASSUME array # None PROVE Filled'
    BY <1>1 DEF AnsweredOK
  <2>2. \A k \in 1..cap : array[k] = Blank
    BY <1>1, <2>1 DEF EnumInv, AskedOK, Untouched
  <2>3. Len(served') = 0 /\ cap \in Nat
    <3>1. Len(<<>>) = 0
      BY EmptySeq
    <3> QED
      BY <1>2, <3>1, Types DEF EnumInv
  <2>4. Min2(cap, Len(served')) = 0
    BY <2>3 DEF Min2
  <2>5. \A k \in 1..cap : array'[k] = IF k <= 0 THEN served'[k] ELSE Blank
    BY <1>1, <2>2, <2>3
  <2>6. result' = "SUCCESS" <=> cap >= Len(served')
    BY <1>1, <2>3
  <2> QED
    BY <1>1, <2>4, <2>5, <2>6 DEF Filled
<1> QED
  BY <1>1, <1>t, <1>f DEF EnumInv, AskedOK, RegisterOK, ToldIsKnown

\* Nothing is written for a layer that is not there.
LEMMA NotPresentInv == ASSUME EnumInv, NotPresent PROVE EnumInv'
<1>1. /\ query.of = "nobody" /\ pc = "answer" /\ pc' = "idle"
      /\ result' = "LAYER_NOT_PRESENT"
      /\ UNCHANGED <<query, list, cap, count, array, served, known, undefined, health>>
  BY DEF NotPresent, AnswerWith
<1>t. TypeOK'
  BY <1>1 DEF EnumInv, TypeOK
<1>f. AnsweredOK'
  BY <1>1 DEF EnumInv, AskedOK, AnsweredOK, Untouched
<1> QED
  BY <1>1, <1>t, <1>f DEF EnumInv, AskedOK, RegisterOK, ToldIsKnown

\* Where a handler goes when the next layer has answered.
LEMMA AfterNextFacts ==
  ASSUME EnumInv, query.of = "next"
  PROVE  /\ AfterNext \in {"idle", "register"}
         /\ AfterNext = "idle" => query.entry \notin {"devices", "groups"}
         /\ AfterNext = "register" => query.entry \in {"devices", "groups"}
<1>1. query \in Queries
  BY DEF EnumInv, TypeOK
<1> QED
  BY <1>1 DEF AfterNext, Queries

\* The next layer fills the array from its own list.
LEMMA NextAnswersInv == ASSUME EnumInv, NextAnswers PROVE EnumInv'
<1>1. query.of = "next" /\ AnswerWith(AfterNext) /\ served' = list
  BY DEF NextAnswers
<1>2. ASSUME array # None
      PROVE  /\ count' = Min2(count, Len(list))
             /\ array' = Overwrite(Min2(count, Len(list)))
             /\ result' = "SUCCESS" <=> cap >= Len(list)
             /\ result' \in {"SUCCESS", "INCOMPLETE"}
  <2>1. count = cap /\ count \in Nat /\ Len(list) \in Nat
    BY <1>1, <1>2, Types DEF EnumInv, AskedOK, AnswerWith, Untouched
  <2> QED
    BY <1>2, <2>1 DEF NextAnswers, Min2
<1>3. ASSUME array = None
      PROVE  count' = Len(list) /\ array' = array /\ result' = "SUCCESS"
  BY <1>3 DEF NextAnswers
<1> QED
  BY <1>1, <1>2, <1>3, AfterNextFacts, Answers

\* An error leaves all as it was, and there is nothing to register.
LEMMA NextFailsInv == ASSUME EnumInv, NextFails PROVE EnumInv'
<1>1. /\ query.of = "next" /\ pc = "answer" /\ pc' = AfterNext
      /\ result' = "ERROR"
      /\ UNCHANGED <<query, list, cap, count, array, served, known, undefined, health>>
  BY DEF NextFails, AnswerWith
<1>2. AfterNext \in {"idle", "register"}
      /\ (AfterNext = "register" => query.entry \in {"devices", "groups"})
  BY <1>1, AfterNextFacts
<1>t. TypeOK'
  BY <1>1, <1>2 DEF EnumInv, TypeOK
<1> QED
  BY <1>1, <1>2, <1>t DEF EnumInv, AskedOK, AnsweredOK, RegisterOK, ToldIsKnown

-----------------------------------------------------------------------------
(* What is registered.                                                     *)

\* All of a filled array are physical devices.
LEMMA FilledTypes ==
  ASSUME EnumInv, array # None, Filled
  PROVE  UNION {array[k] : k \in 1..count} \subseteq PhysDevs
<1>1. count <= cap /\ count <= Len(served)
  BY Types DEF EnumInv, Filled, Min2
<1>2. ASSUME NEW k \in 1..count PROVE array[k] \in SUBSET PhysDevs
  <2>1. k \in 1..cap /\ k \in 1..Len(served)
    BY <1>1, Types DEF EnumInv
  <2>2. array[k] = served[k]
    BY <2>1 DEF Filled
  <2> QED
    BY <2>1, <2>2, Types, ElementOfSeq DEF EnumInv
<1> QED
  BY <1>2

\* A step that ends a call and registers all that the array holds.
LEMMA RegisterAll ==
  ASSUME EnumInv, pc = "register", pc' = "idle",
         UNCHANGED <<query, list, callVars>>,
         undefined' \in BOOLEAN, health' \in {"running", "aborted"},
         \/ known' = known /\ (array = None \/ result \notin {"SUCCESS", "INCOMPLETE"} \/ count = 0)
         \/ /\ array # None /\ result \in {"SUCCESS", "INCOMPLETE"}
            /\ known' = known \cup UNION {array[k] : k \in 1..count}
  PROVE  EnumInv'
<1>1. UNCHANGED <<count, array, cap, result, served>>
  BY DEF callVars
<1>t. TypeOK'
  <2>1. known' \in SUBSET PhysDevs
    <3>1. CASE known' = known
      BY <3>1 DEF EnumInv, TypeOK
    <3>2. CASE known' # known
      <4>1. Filled
        BY <3>2 DEF EnumInv, AnsweredOK
      <4> QED
        BY <3>2, <4>1, FilledTypes DEF EnumInv, TypeOK
    <3> QED
      BY <3>1, <3>2
  <2> QED
    BY <1>1, <2>1 DEF EnumInv, TypeOK
<1>f. AnsweredOK'
  BY <1>1 DEF EnumInv, AnsweredOK, Filled, Untouched
<1>k. ToldIsKnown'
  <2>1. count = 0 => UNION {array[k] : k \in 1..count} = {}
    OBVIOUS
  <2> QED
    BY <1>1, <2>1 DEF ToldIsKnown
<1> QED
  BY <1>1, <1>t, <1>f, <1>k DEF EnumInv, AskedOK, RegisterOK

\* Both handlers register what the array holds, complete or not.
LEMMA RegisterInv ==
  ASSUME EnumInv, RegisterDevices \/ RegisterGroups
  PROVE  EnumInv'
<1>1. undefined \in BOOLEAN /\ health \in {"running", "aborted"} /\ count \in Nat
  BY Types DEF EnumInv, TypeOK
<1>2. CASE RegisterDevices
  BY <1>1, <1>2, RegisterAll DEF RegisterDevices
<1>3. CASE RegisterGroups
  <2>1. CASE result \in {"SUCCESS", "INCOMPLETE"} /\ count > 0 /\ array # None
    BY <1>1, <1>3, <2>1, RegisterAll DEF RegisterGroups
  <2>2. CASE ~ (result \in {"SUCCESS", "INCOMPLETE"} /\ count > 0 /\ array # None)
    <3>1. \/ result \notin {"SUCCESS", "INCOMPLETE"} \/ count = 0 \/ array = None
      BY <1>1, <2>2
    <3>2. known' = known
      BY <1>3, <2>2 DEF RegisterGroups
    <3>3. undefined' \in BOOLEAN /\ health' \in {"running", "aborted"}
      BY <1>1, <1>3 DEF RegisterGroups
    <3> QED
      BY <1>3, <3>1, <3>2, <3>3, RegisterAll DEF RegisterGroups
  <2> QED
    BY <2>1, <2>2
<1> QED
  BY <1>2, <1>3

-----------------------------------------------------------------------------
(* The theorems.                                                           *)

\* Every step keeps the invariant.
LEMMA EnumStepInv == ASSUME EnumInv, [Next]_vars PROVE EnumInv'
<1>1. CASE Next
  <2>1. CASE AskCount
    BY <2>1, AskCountInv
  <2>2. ASSUME NEW n \in 0..MaxCap, Fetch(n) PROVE EnumInv'
    BY <2>2, FetchInv
  <2>3. CASE Handler
    BY <2>3, AnswerOwnInv, AnswerNoneInv, NotPresentInv, NextAnswersInv, NextFailsInv,
       RegisterInv DEF Handler
  <2>4. CASE Hotplug
    BY <2>4, HotplugInv
  <2> QED
    BY <1>1, <2>1, <2>2, <2>3, <2>4 DEF Next
<1>2. CASE UNCHANGED vars
  <2>1. UNCHANGED <<query, list, pc, count, array, cap, result, served, known,
                    undefined, health>>
    BY <1>2 DEF vars, callVars
  <2>2. TypeOK'
    BY <2>1 DEF EnumInv, TypeOK
  <2> QED
    BY <2>1, <2>2 DEF EnumInv, AskedOK, AnsweredOK, RegisterOK, ToldIsKnown,
       Filled, Untouched
<1> QED
  BY <1>1, <1>2

\* The invariant holds of any physical devices, lists and lengths of arrays.
THEOREM Inductive == Spec => []EnumInv
<1>1. Init => EnumInv
  <2> SUFFICES ASSUME Init PROVE EnumInv
    OBVIOUS
  <2>1. count \in 0..MaxCap /\ served \in {<<>>}
    BY BoundsAssumption DEF Init
  <2>2. served \in Lists(query) \cup {<<>>}
    BY <2>1
  <2>3. TypeOK
    BY <2>1, <2>2 DEF Init, TypeOK
  <2> QED
    BY <2>3 DEF Init, EnumInv, AskedOK, AnsweredOK, RegisterOK, ToldIsKnown
<1>2. EnumInv /\ [Next]_vars => EnumInv'
  BY EnumStepInv
<1> QED
  BY <1>1, <1>2, PTL DEF Spec

\* The count and the array stay within what the caller allocated, and only
\* physical devices are registered.
THEOREM TypeCorrect == Spec => []TypeOK
<1>1. EnumInv => TypeOK
  BY DEF EnumInv
<1> QED
  BY <1>1, Inductive, PTL

\* Whoever answers, and whatever changed since the number was asked for, the
\* array holds a prefix of the list, as long as the count says, and all of it
\* if and only if the result is SUCCESS.
THEOREM ArraysAreExact == Spec => []ArrayIsExact
<1>1. EnumInv => ArrayIsExact
  BY DEF EnumInv, AnsweredOK, ArrayIsExact
<1> QED
  BY <1>1, Inductive, PTL

\* A physical device is registered before the caller reads it in an array.
THEOREM ToldAreKnown == Spec => []ToldIsKnown
<1>1. EnumInv => ToldIsKnown
  BY DEF EnumInv
<1> QED
  BY <1>1, Inductive, PTL
=============================================================================
