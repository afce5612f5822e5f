--------------------------- MODULE ChainContract ----------------------------
(***************************************************************************)
(* What the layers of a chain promise together, with no call stack, links  *)
(* or answers: an object comes into being in the driver and becomes known  *)
(* to one layer after the other up to the first; only then does the        *)
(* application hold it. It is forgotten by one layer after the other from  *)
(* the top, and the driver destroys it last. A creation fails before the   *)
(* driver made the object, or undoes what was made down to the driver.     *)
(***************************************************************************)
EXTENDS Naturals

CONSTANT N  \* the number of layers; the driver is below them

Driver == N + 1
Kinds == {"instance", "device"}

\* A layer, all those below it, and the driver.
From(l) == l..Driver

NoCall == [op |-> "none", kind |-> "none", phase |-> "none"]

VARIABLES
  owners,  \* for each kind, the layers that know the object, and the driver
  held,    \* the kinds the application holds
  call     \* its call, and whether the object is asked for, made, ending or over

cvars == <<owners, held, call>>

Init ==
  /\ owners = [kind \in Kinds |-> {}]
  /\ held = {}
  /\ call = NoCall

\* An instance is created first and destroyed last.
Create(kind) ==
  /\ call = NoCall
  /\ held = IF kind = "instance" THEN {} ELSE {"instance"}
  /\ call' = [op |-> "create", kind |-> kind, phase |-> "asked"]
  /\ UNCHANGED <<owners, held>>

Destroy(kind) ==
  /\ call = NoCall
  /\ held = IF kind = "instance" THEN {"instance"} ELSE Kinds
  /\ call' = [op |-> "destroy", kind |-> kind, phase |-> "ending"]
  /\ held' = held \ {kind}
  /\ UNCHANGED owners

Pass(from, to) ==
  /\ call.phase = from
  /\ call' = [call EXCEPT !.phase = to]
  /\ UNCHANGED held

OwnersBecome(new) == owners' = [owners EXCEPT ![call.kind] = new]

\* A layer, its hook or the driver refuses, while nobody has the object.
Fail == Pass("asked", "over") /\ owners[call.kind] = {} /\ UNCHANGED owners

Make == Pass("asked", "made") /\ owners[call.kind] = {} /\ OwnersBecome({Driver})

Rise(l) ==
  /\ Pass("made", "made")
  /\ owners[call.kind] = From(l + 1)
  /\ OwnersBecome(From(l))

\* A hook gives up an object that its own layer does not know yet.
Undo(l) == Pass("made", "ending") /\ owners[call.kind] = From(l + 1) /\ UNCHANGED owners

Sink(l) ==
  /\ Pass("ending", IF l = Driver THEN "over" ELSE "ending")
  /\ owners[call.kind] = From(l)
  /\ OwnersBecome(From(l + 1))

Return ==
  /\ call' = NoCall
  /\ UNCHANGED owners

Succeed ==
  /\ call.phase = "made"
  /\ owners[call.kind] = From(1)
  /\ held' = held \cup {call.kind}
  /\ Return

\* Nobody has the object of a destruction that ended or a creation that failed.
End ==
  /\ call.phase = "over"
  /\ owners[call.kind] = {}
  /\ UNCHANGED held
  /\ Return

Next ==
  \/ \E kind \in Kinds : Create(kind) \/ Destroy(kind)
  \/ Fail \/ Make \/ Succeed \/ End
  \/ \E l \in 1..N : Rise(l) \/ Undo(l)
  \/ \E l \in 1..Driver : Sink(l)

Spec == Init /\ [][Next]_cvars

TypeOK ==
  /\ owners \in [Kinds -> {From(l) : l \in 1..(Driver + 1)}]
  /\ held \in SUBSET Kinds
  /\ call.kind \in Kinds \cup {"none"}
  /\ call.phase \in {"none", "asked", "made", "ending", "over"}
  /\ call.kind = "none" <=> call.phase = "none"
  /\ call.phase = "none" => call = NoCall

\* Between the application's calls an object is known to all or to none, and a
\* device only while its instance is; a call disturbs no object but its own.
Whole ==
  /\ \A kind \in Kinds \ {call.kind} : owners[kind] = IF kind \in held THEN From(1) ELSE {}
  /\ call.phase \in {"asked", "over"} => owners[call.kind] = {}
  /\ call.kind \notin held
  /\ "device" \in held \cup {call.kind} => "instance" \in held
=============================================================================
