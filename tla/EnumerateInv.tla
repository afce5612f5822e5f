---------------------------- MODULE EnumerateInv ----------------------------
(* The inductive invariant of Enumerate: what holds while a call is under  *)
(* way, for the array and for where the handler is.                        *)
EXTENDS Enumerate

\* Until it is answered the array is as the caller passed it.
AskedOK == pc = "answer" => result = "none" /\ (array # None => Untouched)

\* Once it is answered, and before the handler registers what it holds.
AnsweredOK ==
  pc # "answer" /\ array # None =>
    /\ result \in {"SUCCESS", "INCOMPLETE"} => Filled
    /\ result = "LAYER_NOT_PRESENT" => Untouched

\* Only what the next layer says of physical devices is registered.
RegisterOK ==
  pc = "register" => query.of = "next" /\ query.entry \in {"devices", "groups"}

\* Of the call between its points: an array that is not answered is untouched,
\* one that is holds the list before anything is registered from it, and a
\* caller that got it back finds its devices registered.
EnumInv == TypeOK /\ AskedOK /\ AnsweredOK /\ RegisterOK /\ ToldIsKnown
=============================================================================
