------------------------------ MODULE Codegen -------------------------------
(***************************************************************************)
(* scripts/codegen.rs: a thread per generated file writes it, to the       *)
(* source tree or, in check mode, to a temporary directory. In check mode  *)
(* each thread then sends the path over a channel; the main thread spawns  *)
(* a comparison for every path it receives, and the comparisons send what  *)
(* they found over a second channel. Each of the two loops of the main     *)
(* thread ends when the channel it reads is empty and has no sender left.  *)
(*                                                                         *)
(* A thread that panics drops its sender on the way out. What a generator  *)
(* makes of a file is "new"; the source tree may have something else.      *)
(***************************************************************************)
EXTENDS Naturals, Sequences, SequencesExt

CONSTANTS
  Tasks,  \* the files, in the order their threads are joined
  Genvk   \* those written by a Python program and then formatted in place

Files == Range(Tasks)

ASSUME CodegenAssumption ==
  /\ Tasks \in Seq(Files)
  /\ \A j, k \in DOMAIN Tasks : Tasks[j] = Tasks[k] => j = k
  /\ Genvk \subseteq Files

VARIABLES
  mode,       \* "generate" or "check"
  local,      \* the files of the source tree
  temp,       \* the files of the temporary directory
  before,     \* history: the source tree as it was
  gen,        \* where each generator is
  completed,  \* the channel of completed files
  cmp,        \* where the comparison of each file is
  diffs,      \* the channel of differences
  main,       \* where the main thread is
  joined,     \* the generators it has joined
  printed,    \* the files it has printed a difference of
  status      \* what the process exits with: 0, 1, and 101 for a panic

files == <<local, temp, before>>
channels == <<completed, diffs>>
vars == <<mode, files, gen, channels, cmp, main, joined, printed, status>>

Contents == {"absent", "old", "partial", "raw", "new"}

TypeOK ==
  /\ mode \in {"generate", "check"}
  /\ local \in [Files -> Contents] /\ temp \in [Files -> Contents]
  /\ before \in [Files -> {"absent", "old", "new"}]
  /\ gen \in [Files -> {"waiting", "create", "generate", "format", "rewrite",
                        "send", "done", "panicked"}]
  /\ completed \in Seq(Files) /\ Len(completed) <= Len(Tasks)
  /\ cmp \in [Files -> {"none", "running", "done", "panicked"}]
  /\ diffs \in Seq([file : Files, differs : BOOLEAN]) /\ Len(diffs) <= Len(Tasks)
  /\ main \in {"start", "spawn comparisons", "collect", "unwind", "join", "exited"}
  /\ joined \in 0..Len(Tasks)
  /\ printed \in SUBSET Files
  /\ status \in {"none", "success", "different", "panic"}

Init ==
  /\ mode \in {"generate", "check"}
  /\ before \in [Files -> {"absent", "old", "new"}]
  /\ local = before
  /\ temp = [f \in Files |-> "absent"]
  /\ gen = [f \in Files |-> "waiting"]
  /\ completed = <<>>
  /\ cmp = [f \in Files |-> "none"]
  /\ diffs = <<>>
  /\ main = "start"
  /\ joined = 0
  /\ printed = {}
  /\ status = "none"

Ended(pc) == pc \in {"done", "panicked"}

Exit(code) == main' = "exited" /\ status' = code

-----------------------------------------------------------------------------
(* The generators.                                                         *)

\* Mutant: the files go to the source tree, check mode or not.
WriteToSourceTree(f, content) ==
  local' = [local EXCEPT ![f] = content] /\ UNCHANGED <<temp, before>>

\* target_root_dir.
Write(f, content) ==
  IF mode = "check"
    THEN temp' = [temp EXCEPT ![f] = content] /\ UNCHANGED <<local, before>>
    ELSE local' = [local EXCEPT ![f] = content] /\ UNCHANGED <<temp, before>>

Step(f, from, to) ==
  /\ gen[f] = from
  /\ gen' = [gen EXCEPT ![f] = to]
  /\ UNCHANGED <<mode, diffs, cmp, main, joined, printed, status>>

\* The file is truncated if it exists.
CreateFile(f) ==
  Step(f, "create", "generate") /\ Write(f, "partial") /\ UNCHANGED completed

\* bindgen writes the whole file, the Python program one that is not formatted.
Generate(f) ==
  /\ Step(f, "generate", IF f \in Genvk THEN "format" ELSE "send")
  /\ Write(f, IF f \in Genvk THEN "raw" ELSE "new")
  /\ UNCHANGED completed

\* rustfmt reads the file, which is then truncated and written again.
Format(f) ==
  Step(f, "format", "rewrite") /\ Write(f, "partial") /\ UNCHANGED completed

\* Mutant: the file is announced first.
AnnounceThenRewrite(f) ==
  /\ Step(f, "rewrite", "send")
  /\ completed' = Append(completed, f)
  /\ UNCHANGED files

Rewrite(f) ==
  Step(f, "rewrite", "send") /\ Write(f, "new") /\ UNCHANGED completed

\* In check mode the receiver belongs to the scope of the comparisons, otherwise
\* to main.
ReceiverAlive ==
  main \in (IF mode = "check" THEN {"spawn comparisons", "collect"} ELSE {"join"})

\* The last thing a generator does; its sender goes with it.
Send(f) ==
  /\ Step(f, "send", IF ReceiverAlive THEN "done" ELSE "panicked")
  /\ completed' = IF ReceiverAlive THEN Append(completed, f) ELSE completed
  /\ UNCHANGED files

\* bindgen, Python, rustfmt or the file system fails.
GeneratorPanics(f) ==
  /\ gen[f] \in {"create", "generate", "format", "rewrite"}
  /\ Step(f, gen[f], "panicked")
  /\ UNCHANGED <<files, completed>>

Generator(f) ==
  \/ CreateFile(f) \/ Generate(f) \/ Format(f) \/ Rewrite(f) \/ Send(f)
  \/ GeneratorPanics(f)

-----------------------------------------------------------------------------
(* The comparisons.                                                        *)

Report(f, pc) ==
  /\ cmp[f] = "running"
  /\ cmp' = [cmp EXCEPT ![f] = pc]
  /\ UNCHANGED <<mode, files, gen, completed, main, joined, printed, status>>

\* A file that does not exist counts as an empty one. The receiver is gone when
\* the main thread panicked.
Compare(f) ==
  IF main = "unwind"
    THEN Report(f, "panicked") /\ UNCHANGED diffs
    ELSE /\ Report(f, "done")
         /\ diffs' = Append(diffs, [file |-> f, differs |-> local[f] # temp[f]])

\* One of the two files cannot be read.
ComparePanics(f) == Report(f, "panicked") /\ UNCHANGED diffs

Comparison(f) == Compare(f) \/ ComparePanics(f)

-----------------------------------------------------------------------------
(* The main thread.                                                        *)

\* The tasks are made and their threads spawned; main keeps no sender.
SpawnGenerators ==
  /\ main = "start"
  /\ gen' = [f \in Files |-> "create"]
  /\ main' = IF mode = "check" THEN "spawn comparisons" ELSE "join"
  /\ UNCHANGED <<mode, files, channels, cmp, joined, printed, status>>

\* rustup or the temporary directory fails.
PrepareFails ==
  /\ main = "start"
  /\ Exit("panic")
  /\ UNCHANGED <<mode, files, gen, channels, cmp, joined, printed>>

SpawnComparison ==
  /\ main = "spawn comparisons"
  /\ completed # <<>>
  /\ cmp' = [cmp EXCEPT ![Head(completed)] = "running"]
  /\ completed' = Tail(completed)
  /\ UNCHANGED <<mode, files, gen, diffs, main, joined, printed, status>>

\* Mutant: the main thread still has the sender it cloned for the generators.
NeverDisconnected == FALSE

\* recv fails: the channel is empty and every sender was dropped.
CompletedDisconnected == completed = <<>> /\ \A f \in Files : Ended(gen[f])

SpawningEnds ==
  /\ main = "spawn comparisons"
  /\ CompletedDisconnected
  /\ main' = "collect"
  /\ UNCHANGED <<mode, files, gen, channels, cmp, joined, printed, status>>

Collect ==
  /\ main = "collect"
  /\ diffs # <<>>
  /\ printed' = IF Head(diffs).differs THEN printed \cup {Head(diffs).file} ELSE printed
  /\ diffs' = Tail(diffs)
  /\ UNCHANGED <<mode, files, gen, completed, cmp, main, joined, status>>

\* println! panics when the output is closed. The receiver is dropped, and the
\* scope waits for the comparisons before the panic goes on.
PrintPanics ==
  /\ main = "collect"
  /\ diffs # <<>> /\ Head(diffs).differs
  /\ main' = "unwind"
  /\ diffs' = <<>>
  /\ UNCHANGED <<mode, files, gen, completed, cmp, joined, printed, status>>

Running == {f \in Files : cmp[f] = "running"}

\* The senders are gone with the comparisons. A scope panics if a thread of it
\* did.
CollectingEnds ==
  /\ main = "collect"
  /\ diffs = <<>> /\ Running = {}
  /\ IF \E f \in Files : cmp[f] = "panicked"
       THEN Exit("panic")
       ELSE main' = "join" /\ UNCHANGED status
  /\ UNCHANGED <<mode, files, gen, channels, cmp, joined, printed>>

Unwind ==
  /\ main = "unwind"
  /\ Running = {}
  /\ Exit("panic")
  /\ UNCHANGED <<mode, files, gen, channels, cmp, joined, printed>>

\* Mutant: the result of the join is dropped.
JoinIgnoringPanics ==
  /\ main = "join"
  /\ joined < Len(Tasks)
  /\ Ended(gen[Tasks[joined + 1]])
  /\ joined' = joined + 1
  /\ UNCHANGED <<mode, files, gen, channels, cmp, main, printed, status>>

\* thread.join().unwrap(); the process does not wait for the threads after one
\* that panicked.
Join ==
  /\ main = "join"
  /\ joined < Len(Tasks)
  /\ Ended(gen[Tasks[joined + 1]])
  /\ IF gen[Tasks[joined + 1]] = "panicked"
       THEN Exit("panic") /\ UNCHANGED joined
       ELSE joined' = joined + 1 /\ UNCHANGED <<main, status>>
  /\ UNCHANGED <<mode, files, gen, channels, cmp, printed>>

Return ==
  /\ main = "join"
  /\ joined = Len(Tasks)
  /\ Exit(IF printed # {} THEN "different" ELSE "success")
  /\ UNCHANGED <<mode, files, gen, channels, cmp, joined, printed>>

MainThread ==
  \/ SpawnGenerators \/ PrepareFails \/ SpawnComparison \/ SpawningEnds
  \/ Collect \/ PrintPanics \/ CollectingEnds \/ Unwind \/ Join \/ Return

\* The process, with all its threads, is gone when main returns or panics.
Next ==
  /\ main # "exited"
  /\ MainThread \/ \E f \in Files : Generator(f) \/ Comparison(f)

\* Threads are scheduled, and the programs the generators run come to an end.
Spec ==
  /\ Init /\ [][Next]_vars
  /\ WF_vars(MainThread)
  /\ \A f \in Files : WF_vars(main # "exited" /\ (Generator(f) \/ Comparison(f)))

-----------------------------------------------------------------------------
(* What is correct.                                                        *)

Failed == \E f \in Files : gen[f] = "panicked" \/ cmp[f] = "panicked"

\* A comparison never sees a file that is being written: each is announced by
\* the thread that writes it, after its last write.
ComparedWhenComplete == \A f \in Running : temp[f] = "new"

\* The documentation of --check: exit with 0 if the generated code is the same
\* as the local files, with 1 and the differences if not. Neither is said when
\* a file was not generated or not compared, and the local files are untouched.
CheckVerdict ==
  mode = "check" /\ main = "exited" =>
    /\ local = before
    /\ status = "success" => \A f \in Files : before[f] = "new"
    /\ status = "different" => printed # {} /\ printed = {f \in Files : before[f] # "new"}

\* A generator or comparison that fails makes the whole program fail, and without
\* --check success means that every file is the new one.
FailureIsReported ==
  main = "exited" =>
    /\ Failed => status = "panic"
    /\ mode = "generate" /\ status = "success" => \A f \in Files : local[f] = "new"

\* Both channels are disconnected in the end, whoever panicked: main never waits
\* for a message nobody will send.
Exits == <>(main = "exited")
=============================================================================
