-------------------------- MODULE ListFiles_proofs --------------------------
(***************************************************************************)
(* That list_files reports every failed command and starts at most one     *)
(* more of them after an error, gives every file to one command, and no    *)
(* command more than the limit, for any number of paths, of any lengths.   *)
(***************************************************************************)
EXTENDS ListFiles, FiniteSetTheorems, TLAPS

Places == {"start", "first", "check", "fill", "spawn", "wait", "unwind", "exited"}
TaskRecords == [paths : Seq(Paths), pc : {"running", "done", "failed"}]

Types ==
  /\ files \in SUBSET Paths
  /\ chunk \in Seq(Paths)
  /\ ahead \in Paths \cup {NoPath}
  /\ tasks \in Seq(TaskRecords)
  /\ errors \in Nat
  /\ late \in Nat
  /\ main \in Places

\* There is an error if and only if a task failed.
ErrorsCounted ==
  errors # 0 <=> \E k \in DOMAIN tasks : tasks[k].pc = "failed"

\* A task that was started in spite of an error was the last: the loop has not
\* got to another chunk, or leaves at the check.
LateIsLast ==
  /\ late <= 1
  /\ late # 0 => errors # 0 /\ main \in {"first", "check", "wait", "unwind", "exited"}

\* The exit code is that of the errors there were when all tasks had ended.
StatusTold ==
  main = "exited" =>
    /\ status = "success" => errors = 0
    /\ status = "failure" => tasks = <<>> \/ errors # 0
    /\ status \in {"success", "failure", "panic"}

NotStarted == main = "start" => tasks = <<>> /\ errors = 0

LInv == Types /\ ErrorsCounted /\ LateIsLast /\ StatusTold /\ NotStarted

-----------------------------------------------------------------------------
(* The steps.                                                              *)

\* An action that leaves tasks and errors alone, and does not come to an exit.
LEMMA QuietStep ==
  ASSUME LInv, UNCHANGED <<workers, files>>, main' \in Places \ {"start", "exited"},
         chunk' \in Seq(Paths), ahead' \in Paths \cup {NoPath},
         late # 0 => main' \in {"first", "check", "wait", "unwind"}
  PROVE  LInv'
BY DEF LInv, Types, ErrorsCounted, LateIsLast, StatusTold, NotStarted, workers, Places

\* The arguments are refused before anything is started.
LEMMA RefuseInv == ASSUME LInv, Refuse PROVE LInv'
BY DEF LInv, Types, ErrorsCounted, LateIsLast, StatusTold, NotStarted, Places,
       Refuse, workers, reader, disk

\* A path is read: the first of a chunk, one more, or the first of the next. None
\* is read into a chunk when a task was started in spite of an error.
LEMMA ReadInv == ASSUME LInv, ReadFile PROVE LInv'
<1>1. next \in Paths
  BY DEF ReadFile, LInv, Types
<1>2. Append(chunk, next) \in Seq(Paths)
  BY <1>1 DEF LInv, Types
<1>3. chunk' \in Seq(Paths) /\ ahead' \in Paths \cup {NoPath}
  BY <1>1, <1>2 DEF ReadFile, LInv, Types
<1>4. main' \in {"check", "fill", "spawn"} /\ (main = "first" => main' = "check")
  BY DEF ReadFile
<1>5. late # 0 => main' = "check"
  BY <1>4 DEF ReadFile, Reading, LInv, LateIsLast
<1>6. UNCHANGED <<workers, files>>
  BY DEF ReadFile, disk
<1> QED
  BY <1>3, <1>4, <1>5, <1>6, QuietStep DEF Places

\* The other steps of the iterator and of the loop.
LEMMA OtherInv ==
  ASSUME LInv,
         \/ Start \/ SkipEntry \/ CanonicalizePanics \/ WalkEnds \/ TakeAhead
         \/ NoMoreChunks \/ Check \/ SpawnPanics
  PROVE  LInv'
<1>1. UNCHANGED <<workers, files>>
  BY DEF Start, SkipEntry, CanonicalizePanics, WalkEnds, TakeAhead, NoMoreChunks, Check,
         SpawnPanics, disk
<1>2. chunk' \in Seq(Paths) /\ ahead' \in Paths \cup {NoPath}
  <2>1. CASE TakeAhead
    <3>1. ahead \in Paths
      BY <2>1 DEF TakeAhead, LInv, Types
    <3> QED
      BY <2>1, <3>1 DEF TakeAhead
  <2>2. CASE ~ TakeAhead
    BY <2>2 DEF Start, SkipEntry, CanonicalizePanics, WalkEnds, NoMoreChunks, Check,
                SpawnPanics, reader, LInv, Types
  <2> QED
    BY <2>1, <2>2
<1>3. main' \in Places \ {"start", "exited"}
  BY DEF Start, SkipEntry, CanonicalizePanics, WalkEnds, TakeAhead, NoMoreChunks, Check,
         SpawnPanics, Reading, Places
<1>4. ASSUME late # 0 PROVE main' \in {"first", "check", "wait", "unwind"}
  <2>1. errors # 0 /\ main \in {"first", "check", "wait", "unwind", "exited"}
    BY <1>4 DEF LInv, LateIsLast
  <2> QED
    BY <2>1 DEF Start, SkipEntry, CanonicalizePanics, WalkEnds, TakeAhead, NoMoreChunks,
                Check, SpawnPanics, Reading
<1> QED
  BY <1>1, <1>2, <1>3, <1>4, QuietStep

\* A task is started: it has not failed, and it is the first after an error.
LEMMA SpawnInv == ASSUME LInv, Spawn PROVE LInv'
<1> DEFINE task == [paths |-> chunk, pc |-> "running"]
<1>1. task \in TaskRecords /\ tasks \in Seq(TaskRecords)
  BY DEF LInv, Types, TaskRecords
<1>2. tasks' = Append(tasks, task)
  BY DEF Spawn
<1>3. tasks' \in Seq(TaskRecords)
  BY <1>1, <1>2
<1>4. /\ DOMAIN tasks \subseteq DOMAIN tasks'
      /\ \A k \in DOMAIN tasks : tasks'[k] = tasks[k]
      /\ \A k \in DOMAIN tasks' : k \in DOMAIN tasks \/ tasks'[k] = task
  BY <1>1, <1>2
<1>5. task.pc # "failed"
  OBVIOUS
<1>6. late = 0 /\ late' \in 0..1 /\ (late' # 0 => errors # 0)
  BY DEF Spawn, LInv, Types, LateIsLast
<1>7. /\ UNCHANGED <<files, ahead, errors, status>>
      /\ chunk' = <<>> /\ main' = "first"
  BY DEF Spawn, disk
<1>8. Types'
  BY <1>3, <1>6, <1>7 DEF LInv, Types, Places
<1>9. ErrorsCounted'
  BY <1>4, <1>5, <1>7 DEF LInv, ErrorsCounted
<1>10. LateIsLast' /\ StatusTold' /\ NotStarted'
  BY <1>6, <1>7 DEF LateIsLast, StatusTold, NotStarted
<1> QED
  BY <1>8, <1>9, <1>10 DEF LInv

\* A task ends, and counts an error if and only if it failed.
LEMMA TaskInv ==
  ASSUME LInv, main # "exited", NEW k \in DOMAIN tasks, Task(k)
  PROVE  LInv'
<1>1. PICK pc \in {"done", "failed"} :
        /\ tasks[k].pc = "running"
        /\ tasks' = [tasks EXCEPT ![k].pc = pc]
        /\ errors' = IF pc = "failed" THEN errors + 1 ELSE errors
        /\ UNCHANGED <<disk, reader, late, main, status>>
  BY DEF Task, TaskSucceeds, TaskFails, TaskEnds
<1>2. tasks \in Seq(TaskRecords) /\ errors \in Nat /\ late \in Nat
  BY DEF LInv, Types
<1>3. /\ tasks' \in Seq(TaskRecords)
      /\ DOMAIN tasks' = DOMAIN tasks
      /\ tasks'[k].pc = pc
      /\ \A j \in DOMAIN tasks \ {k} : tasks'[j] = tasks[j]
  <2> DEFINE ended == [tasks[k] EXCEPT !.pc = pc]
  <2>1. tasks' = [tasks EXCEPT ![k] = ended]
    BY <1>1
  <2>2. tasks[k] \in TaskRecords
    BY <1>2
  <2>3. ended \in TaskRecords /\ ended.pc = pc
    BY <2>2 DEF TaskRecords
  <2> HIDE DEF ended
  <2> QED
    BY <1>2, <2>1, <2>3
<1>4. errors' \in Nat /\ (errors' # 0 <=> errors # 0 \/ pc = "failed")
  BY <1>1, <1>2
<1>5. Types'
  BY <1>1, <1>2, <1>3, <1>4 DEF LInv, Types, disk, reader
<1>6. ErrorsCounted'
  BY <1>1, <1>3, <1>4 DEF LInv, ErrorsCounted
<1>7. LateIsLast'
  BY <1>1, <1>4 DEF LInv, LateIsLast
<1>8. StatusTold' /\ NotStarted'
  <2>1. main # "start"
    BY <1>2 DEF LInv, NotStarted
  <2> QED
    BY <1>1, <2>1 DEF StatusTold, NotStarted
<1> QED
  BY <1>5, <1>6, <1>7, <1>8 DEF LInv

\* The scope is left, and the code is that of the errors.
LEMMA ExitInv == ASSUME LInv, Exit PROVE LInv'
BY DEF LInv, Types, ErrorsCounted, LateIsLast, StatusTold, NotStarted, Places,
       Exit, workers, reader, disk

LEMMA VanishInv == ASSUME LInv, NEW p \in Paths, FileVanishes(p) PROVE LInv'
BY DEF LInv, Types, ErrorsCounted, LateIsLast, StatusTold, NotStarted, Places,
       FileVanishes, workers, reader

-----------------------------------------------------------------------------
(* The theorems.                                                           *)

\* The inductive invariant of list_files.
THEOREM Inductive == Spec => []LInv
<1>1. Init => LInv
  BY DEF Init, LInv, Types, ErrorsCounted, LateIsLast, StatusTold, NotStarted, Places
<1>2. LInv /\ [Next]_vars => LInv'
  <2> SUFFICES ASSUME LInv, [Next]_vars PROVE LInv'
    OBVIOUS
  <2>1. CASE UNCHANGED vars
    BY <2>1 DEF LInv, Types, ErrorsCounted, LateIsLast, StatusTold, NotStarted,
                vars, workers, reader, disk
  <2>2. CASE Next
    BY <2>2, RefuseInv, ReadInv, OtherInv, SpawnInv, TaskInv, ExitInv, VanishInv
       DEF Next, MainThread
  <2> QED
    BY <2>1, <2>2
<1> QED
  BY <1>1, <1>2, PTL DEF Spec

\* At most one task is started after an error: a later chunk is not read.
THEOREM Stops == Spec => []StopsAfterError
<1>1. LInv => StopsAfterError
  BY DEF LInv, LateIsLast, StopsAfterError
<1> QED
  BY <1>1, Inductive, PTL

\* The exit code is an error when a command failed, and only then or when none
\* was started.
THEOREM Reported == Spec => []FailureIsReported
<1>1. LInv => FailureIsReported
  BY DEF LInv, ErrorsCounted, StatusTold, FailureIsReported
<1> QED
  BY <1>1, Inductive, PTL

-----------------------------------------------------------------------------
(* The files: what the walk has passed is in a task, in the chunk, or ahead. *)

\* The first path that is in no task and not in the chunk.
Frontier == IF ahead = NoPath THEN next ELSE ahead
Below(s, p) == \A i \in DOMAIN s : s[i] < p

WalkTypes ==
  /\ size \in [Paths -> Sizes]
  /\ next \in 1..Count + 1
  /\ gone \subseteq files
  /\ total \in Nat
  /\ ahead # NoPath => ahead < next
  /\ ~ walking => next = Count + 1

\* Tasks, chunk and front are in the order of the walk.
ChunkOrdered == Ascending(chunk) /\ Below(chunk, Frontier)
TasksOrdered ==
  /\ \A k \in DOMAIN tasks :
       /\ Ascending(tasks[k].paths)
       /\ Precedes(tasks[k].paths, chunk)
       /\ Below(tasks[k].paths, Frontier)
  /\ \A j, k \in DOMAIN tasks : j < k => Precedes(tasks[j].paths, tasks[k].paths)

Taken == UNION {ToSet(tasks[k].paths) : k \in DOMAIN tasks}

\* A file the walk has passed is not left out, and the loop without an error ends
\* when there is no other.
NoneLeftOut ==
  /\ \A p \in files \ gone : p < next => p \in Taken \cup ToSet(chunk) \cup {ahead}
  /\ main = "wait" => errors # 0 \/ (chunk = <<>> /\ ahead = NoPath /\ next = Count + 1)
  /\ status = "success" => files \ gone \subseteq Taken

\* length has the length of every part of s, without its first path.
Measures(length, s) ==
  /\ length \in [DOMAIN s -> 0..Limit - 1]
  /\ \A i \in DOMAIN s : length[i] = IF i = 1 THEN 0 ELSE length[i - 1] + size[s[i]]

\* The running length was in the same multiple of the limit after the first path
\* of the chunk as it is now.
ChunkMeasured ==
  /\ total \div Limit = key
  /\ main \in {"start", "first"} => chunk = <<>>
  /\ main \in {"check", "fill"} => chunk # <<>>
  /\ Short(chunk)
  /\ chunk # <<>> /\ ahead = NoPath =>
       \E length : /\ Measures(length, chunk)
                   /\ length[Len(chunk)] <= total
                   /\ (total - length[Len(chunk)]) \div Limit = key

WInv ==
  /\ WalkTypes /\ ChunkOrdered /\ TasksOrdered /\ NoneLeftOut
  /\ ChunkMeasured /\ ChunksAreShort

\* Two lengths with the same key are less than the limit apart.
LEMMA SameKey ==
  ASSUME NEW a \in Nat, NEW b \in Nat, a <= b, a \div Limit = b \div Limit
  PROVE  b - a < Limit
<1>1. Limit \in Nat \ {0}
  BY ListFilesAssumption
<1> QED
  BY <1>1

LEMMA MeasuresShort == ASSUME NEW s, NEW length, Measures(length, s) PROVE Short(s)
  BY DEF Measures, Short

\* One more path, with what it adds to the length.
LEMMA MeasuresAppend ==
  ASSUME NEW s \in Seq(Paths), NEW p \in Paths, s # <<>>, size \in [Paths -> Nat],
         NEW length, Measures(length, s), length[Len(s)] + size[p] < Limit
  PROVE  \E longer : /\ Measures(longer, Append(s, p))
                     /\ longer[Len(Append(s, p))] = length[Len(s)] + size[p]
<1> DEFINE n == Len(s)
           r == Append(s, p)
           longer == [i \in 1..n + 1 |-> IF i <= n THEN length[i] ELSE length[n] + size[p]]
<1>1. /\ n \in Nat \ {0} /\ DOMAIN s = 1..n /\ DOMAIN r = 1..n + 1 /\ Len(r) = n + 1
      /\ \A i \in 1..n : r[i] = s[i]
      /\ r[n + 1] = p
  OBVIOUS
<1>2. Limit \in Nat \ {0}
  BY ListFilesAssumption
<1>3. /\ length \in [1..n -> 0..Limit - 1]
      /\ \A i \in 1..n : length[i] = IF i = 1 THEN 0 ELSE length[i - 1] + size[s[i]]
  BY <1>1 DEF Measures
<1>4. size[p] \in Nat /\ length[n] \in Nat
  BY <1>1, <1>2, <1>3
<1>5. longer \in [1..n + 1 -> 0..Limit - 1]
  BY <1>1, <1>2, <1>3, <1>4
<1>6. ASSUME NEW i \in 1..n + 1
      PROVE  longer[i] = IF i = 1 THEN 0 ELSE longer[i - 1] + size[r[i]]
  <2>1. CASE i <= n
    BY <1>1, <1>3, <2>1
  <2>2. CASE i = n + 1
    BY <1>1, <2>2
  <2> QED
    BY <1>1, <2>1, <2>2
<1>7. Measures(longer, r)
  BY <1>1, <1>5, <1>6 DEF Measures
<1>8. longer[n + 1] = length[n] + size[p]
  BY <1>1
<1> QED
  BY <1>1, <1>7, <1>8

\* What the conjuncts say of the types of what they compare.
LEMMA WalkFacts ==
  ASSUME LInv, WInv
  PROVE  /\ Count \in Nat /\ Limit \in Nat \ {0}
         /\ size \in [Paths -> Nat]
         /\ next \in Nat /\ total \in Nat /\ ahead \in Nat /\ Frontier \in Nat
         /\ chunk \in Seq(Paths) /\ \A i \in DOMAIN chunk : chunk[i] \in Nat
         /\ \A k \in DOMAIN tasks :
              /\ tasks[k].paths \in Seq(Paths)
              /\ \A i \in DOMAIN tasks[k].paths : tasks[k].paths[i] \in Nat
<1>1. Count \in Nat /\ Limit \in Nat \ {0} /\ Paths \subseteq Nat
  BY ListFilesAssumption DEF Paths
<1>2. size \in [Paths -> Nat]
  <2>1. size \in [Paths -> Sizes] /\ Sizes \subseteq Nat
    BY ListFilesAssumption DEF WInv, WalkTypes
  <2> QED
    BY <2>1
<1>3. next \in Nat /\ total \in Nat /\ ahead \in Nat
  BY <1>1 DEF WInv, WalkTypes, LInv, Types, NoPath
<1>4. Frontier \in Nat
  BY <1>3 DEF Frontier
<1>5. ASSUME NEW s \in Seq(Paths) PROVE \A i \in DOMAIN s : s[i] \in Nat
  <2>1. \A i \in DOMAIN s : s[i] \in Paths
    OBVIOUS
  <2> QED
    BY <1>1, <2>1
<1>6. ASSUME NEW k \in DOMAIN tasks
      PROVE  /\ tasks[k].paths \in Seq(Paths)
             /\ \A i \in DOMAIN tasks[k].paths : tasks[k].paths[i] \in Nat
  <2>1. tasks[k] \in TaskRecords
    BY <1>6 DEF LInv, Types
  <2>2. tasks[k].paths \in Seq(Paths)
    BY <2>1 DEF TaskRecords
  <2> QED
    BY <1>5, <2>2
<1>7. chunk \in Seq(Paths)
  BY DEF LInv, Types
<1> QED
  BY <1>1, <1>2, <1>3, <1>4, <1>5, <1>6, <1>7

\* A step that leaves the walk and the chunk alone, and gives no task other paths.
LEMMA KeepStep ==
  ASSUME LInv, WInv, UNCHANGED <<size, files, reader>>, gone \subseteq gone', gone' \subseteq files,
         DOMAIN tasks' = DOMAIN tasks,
         \A k \in DOMAIN tasks : tasks'[k].paths = tasks[k].paths,
         main' \in {"start", "first"} => chunk = <<>>,
         main' \in {"check", "fill"} => chunk # <<>>,
         main' = "wait" => errors' # 0 \/ (chunk = <<>> /\ ahead = NoPath /\ next = Count + 1),
         status' = "success" => files \ gone' \subseteq Taken
  PROVE  WInv'
<1>1. UNCHANGED <<next, total, key, chunk, ahead, walking, Frontier>>
  BY DEF reader, Frontier
<1>2. Taken' = Taken
  BY DEF Taken
<1>3. WalkTypes' /\ ChunkOrdered'
  BY <1>1 DEF WInv, WalkTypes, ChunkOrdered
<1>4. TasksOrdered'
  BY <1>1 DEF WInv, TasksOrdered
<1>5. NoneLeftOut'
  BY <1>1, <1>2 DEF WInv, NoneLeftOut
<1>6. ChunkMeasured'
  BY <1>1 DEF WInv, ChunkMeasured, Measures, Short
<1>7. ChunksAreShort'
  BY DEF WInv, ChunksAreShort, Short
<1> QED
  BY <1>3, <1>4, <1>5, <1>6, <1>7 DEF WInv

\* The walk passes an entry that is no file, or has come to its end.
LEMMA PassStep == ASSUME LInv, WInv, SkipEntry \/ WalkEnds PROVE WInv'
<1>1. /\ Count \in Nat /\ next \in Nat /\ next \in 1..Count + 1
      /\ chunk \in Seq(Paths) /\ \A i \in DOMAIN chunk : chunk[i] \in Nat
      /\ \A k \in DOMAIN tasks : \A i \in DOMAIN tasks[k].paths : tasks[k].paths[i] \in Nat
  BY WalkFacts DEF WInv, WalkTypes
<1>2. /\ UNCHANGED <<size, files, gone, total, key, chunk, ahead, tasks, errors, status>>
      /\ ahead = NoPath /\ main \in {"first", "fill"}
  BY DEF SkipEntry, WalkEnds, Reading, disk, workers
<1>3. CASE SkipEntry
  <2>1. /\ next' = next + 1 /\ next \in 1..Count /\ next \notin files \ gone
        /\ UNCHANGED <<walking, main>> /\ walking
    <3>1. files \subseteq Paths /\ gone \subseteq files
      BY DEF LInv, Types, WInv, WalkTypes
    <3> QED
      BY <1>3, <3>1 DEF SkipEntry, Reading, Paths
  <2>2. next' \in 1..Count + 1 /\ Frontier = next /\ Frontier' = next + 1
    BY <1>1, <1>2, <2>1 DEF Frontier
  <2>3. WalkTypes'
    BY <1>2, <2>1, <2>2 DEF WInv, WalkTypes
  <2>4. ChunkOrdered'
    BY <1>1, <1>2, <2>2 DEF WInv, ChunkOrdered, Below
  <2>5. TasksOrdered'
    BY <1>1, <1>2, <2>2 DEF WInv, TasksOrdered, Below
  <2>6. NoneLeftOut'
    <3>1. \A p \in Paths : p < next + 1 => p < next \/ p = next
      BY <1>1 DEF Paths
    <3>2. Taken' = Taken
      BY <1>2 DEF Taken
    <3> QED
      BY <1>2, <2>1, <3>1, <3>2 DEF WInv, NoneLeftOut, LInv, Types
  <2>7. ChunkMeasured' /\ ChunksAreShort'
    BY <1>2, <2>1 DEF WInv, ChunkMeasured, Measures, Short, ChunksAreShort
  <2> QED
    BY <2>3, <2>4, <2>5, <2>6, <2>7 DEF WInv
<1>4. CASE WalkEnds
  <2>1. /\ next' = next /\ next = Count + 1
        /\ main' = IF main = "first" THEN "wait" ELSE "spawn"
    BY <1>4 DEF WalkEnds
  <2>2. Frontier' = Frontier /\ Taken' = Taken
    BY <1>2, <2>1 DEF Frontier, Taken
  <2>3. WalkTypes' /\ ChunkOrdered'
    BY <1>2, <2>1, <2>2 DEF WInv, WalkTypes, ChunkOrdered
  <2>4. TasksOrdered'
    BY <1>2, <2>2 DEF WInv, TasksOrdered
  <2>5. NoneLeftOut'
    BY <1>2, <2>1, <2>2 DEF WInv, NoneLeftOut, ChunkMeasured
  <2>6. ChunkMeasured' /\ ChunksAreShort'
    BY <1>2, <2>1 DEF WInv, ChunkMeasured, Measures, Short, ChunksAreShort
  <2> QED
    BY <2>3, <2>4, <2>5, <2>6 DEF WInv
<1> QED
  BY <1>3, <1>4

\* The next chunk begins with the path that is ahead.
LEMMA AheadStep == ASSUME LInv, WInv, TakeAhead PROVE WInv'
<1>1. /\ Limit \in Nat \ {0} /\ next \in Nat /\ total \in Nat /\ ahead \in Nat
      /\ \A k \in DOMAIN tasks : \A i \in DOMAIN tasks[k].paths : tasks[k].paths[i] \in Nat
  BY WalkFacts
<1>2. /\ UNCHANGED <<size, files, gone, next, total, key, walking, tasks, errors, status>>
      /\ ahead # NoPath /\ ahead' = NoPath /\ chunk' = <<ahead>>
      /\ main = "first" /\ main' = "check"
  BY DEF TakeAhead, disk, workers
<1>3. Frontier = ahead /\ Frontier' = next /\ ahead < next
  BY <1>2 DEF Frontier, WInv, WalkTypes
<1>4. chunk = <<>> /\ total \div Limit = key
  BY <1>2 DEF WInv, ChunkMeasured
<1>5. Len(<<ahead>>) = 1 /\ DOMAIN <<ahead>> = {1} /\ <<ahead>>[1] = ahead
  OBVIOUS
<1>6. Taken' = Taken
  BY <1>2 DEF Taken
<1>7. WalkTypes'
  BY <1>2 DEF WInv, WalkTypes
<1>8. ChunkOrdered'
  BY <1>1, <1>2, <1>3, <1>5 DEF ChunkOrdered, Ascending, Below
<1>9. TasksOrdered'
  <2>1. \A k \in DOMAIN tasks :
          /\ Precedes(tasks[k].paths, <<ahead>>)
          /\ \A i \in DOMAIN tasks[k].paths : tasks[k].paths[i] < next
    BY <1>1, <1>3, <1>5 DEF WInv, TasksOrdered, Below, Precedes
  <2> QED
    BY <1>2, <1>3, <2>1 DEF WInv, TasksOrdered, Below
<1>10. NoneLeftOut'
  <2>1. ToSet(chunk) = {} /\ ToSet(chunk') = {ahead}
    BY <1>2, <1>4, <1>5 DEF ToSet
  <2> QED
    BY <1>2, <1>6, <2>1 DEF WInv, NoneLeftOut
<1>11. ChunkMeasured'
  <2> DEFINE length == [i \in {1} |-> 0]
  <2>1. Measures(length, <<ahead>>)
    BY <1>1, <1>5 DEF Measures
  <2>2. Measures(length, chunk)'
    BY <1>2, <2>1 DEF Measures
  <2>3. Short(chunk)'
    BY <2>2 DEF Measures, Short
  <2> HIDE DEF length
  <2>4. length[Len(chunk')] = 0 /\ total' \div Limit = key'
    BY <1>2, <1>4, <1>5 DEF length
  <2>5. chunk' # <<>>
    BY <1>2
  <2>6. length[Len(chunk')] <= total' /\ (total' - length[Len(chunk')]) \div Limit = key'
    BY <1>1, <1>2, <2>4
  <2> QED
    BY <1>2, <2>2, <2>3, <2>4, <2>5, <2>6 DEF ChunkMeasured
<1>12. ChunksAreShort'
  BY <1>2 DEF WInv, ChunksAreShort, Short
<1> QED
  BY <1>7, <1>8, <1>9, <1>10, <1>11, <1>12 DEF WInv

\* The chunk is given to a task.
LEMMA SpawnStep == ASSUME LInv, WInv, Spawn PROVE WInv'
<1> DEFINE task == [paths |-> chunk, pc |-> "running"]
<1>1. /\ UNCHANGED <<size, files, gone, next, total, key, ahead, walking, errors, status>>
      /\ tasks' = Append(tasks, task) /\ chunk' = <<>>
      /\ main = "spawn" /\ main' = "first"
  BY DEF Spawn, disk
<1>2. tasks \in Seq(TaskRecords) /\ task \in TaskRecords /\ task.paths = chunk
  BY DEF LInv, Types, TaskRecords
<1>3. PICK n \in Nat :
        /\ DOMAIN tasks = 1..n /\ DOMAIN tasks' = 1..n + 1
        /\ \A k \in 1..n : tasks'[k] = tasks[k]
        /\ tasks'[n + 1] = task
  <2>1. Len(tasks) \in Nat
    BY <1>2
  <2> QED
    BY <1>1, <1>2, <2>1
<1>4. tasks'[n + 1].paths = chunk
  BY <1>2, <1>3
<1> HIDE DEF task
<1>5. Frontier' = Frontier
  BY <1>1 DEF Frontier
<1>6. DOMAIN <<>> = {}
  OBVIOUS
<1>7. WalkTypes' /\ ChunkOrdered'
  BY <1>1, <1>6 DEF WInv, WalkTypes, ChunkOrdered, Ascending, Below
<1>8. TasksOrdered'
  <2>1. \A k \in 1..n + 1 : k \in 1..n \/ k = n + 1
    BY <1>3
  <2>2. ASSUME NEW k \in 1..n + 1
        PROVE  Ascending(tasks'[k].paths) /\ Below(tasks'[k].paths, Frontier)
    <3>1. CASE k \in 1..n
      BY <1>3, <3>1 DEF WInv, TasksOrdered
    <3>2. CASE k = n + 1
      BY <1>4, <3>2 DEF WInv, ChunkOrdered
    <3> QED
      BY <2>1, <3>1, <3>2
  <2>3. \A k \in 1..n + 1 : Precedes(tasks'[k].paths, chunk')
    BY <1>1, <1>6 DEF Precedes
  <2>4. ASSUME NEW j \in 1..n + 1, NEW k \in 1..n + 1, j < k
        PROVE  Precedes(tasks'[j].paths, tasks'[k].paths)
    <3>1. j \in 1..n
      BY <1>3, <2>4
    <3>2. CASE k \in 1..n
      BY <1>3, <2>4, <3>1, <3>2 DEF WInv, TasksOrdered
    <3>3. CASE k = n + 1
      BY <1>3, <1>4, <3>1, <3>3 DEF WInv, TasksOrdered
    <3> QED
      BY <2>1, <3>2, <3>3
  <2> QED
    BY <1>3, <1>5, <2>2, <2>3, <2>4 DEF TasksOrdered, Below
<1>9. NoneLeftOut'
  <2>1. Taken' = Taken \cup ToSet(chunk)
    <3>1. \A k \in 1..n : ToSet(tasks'[k].paths) = ToSet(tasks[k].paths)
      BY <1>3
    <3>2. n + 1 \in 1..n + 1 /\ (\A k \in 1..n + 1 : k \in 1..n \/ k = n + 1) /\ 1..n \subseteq 1..n + 1
      BY <1>3
    <3> QED
      BY <1>3, <1>4, <3>1, <3>2 DEF Taken
  <2>2. ToSet(chunk') = {}
    BY <1>1, <1>6 DEF ToSet
  <2> QED
    BY <1>1, <2>1, <2>2 DEF WInv, NoneLeftOut
<1>10. ChunkMeasured'
  <2> DEFINE length == [i \in {} |-> 0]
  <2>1. Measures(length, chunk)'
    BY <1>1, <1>6 DEF Measures
  <2>2. Short(chunk)'
    BY <2>1 DEF Measures, Short
  <2> QED
    BY <1>1, <2>2 DEF WInv, ChunkMeasured
<1>11. ChunksAreShort'
  <2>1. Short(chunk) /\ \A k \in 1..n : Short(tasks[k].paths)
    BY <1>3 DEF WInv, ChunkMeasured, ChunksAreShort
  <2>2. \A k \in 1..n + 1 : Short(tasks'[k].paths)
    BY <1>3, <1>4, <2>1
  <2> QED
    BY <1>1, <1>3, <2>2 DEF ChunksAreShort, Short
<1> QED
  BY <1>7, <1>8, <1>9, <1>10, <1>11 DEF WInv

\* What every read does.
LEMMA ReadFacts ==
  ASSUME LInv, WInv, ReadFile
  PROVE  /\ UNCHANGED <<size, files, gone, walking, tasks, errors, late, status>>
         /\ next \in Paths /\ next \in files /\ next' = next + 1 /\ size[next] \in Nat
         /\ ahead = NoPath /\ main \in {"first", "fill"} /\ walking
         /\ main' \in {"check", "fill", "spawn"}
         /\ total' = total + size[next] /\ total' \in Nat /\ key' = total' \div Limit
         /\ Frontier = next /\ Taken' = Taken
         /\ \A p \in files : p < next + 1 => p < next \/ p = next
<1>1. next \in Paths /\ next \in files /\ files \subseteq Paths /\ Paths \subseteq Nat
  BY ListFilesAssumption DEF ReadFile, LInv, Types, Paths
<1>2. size[next] \in Nat /\ total \in Nat /\ next \in Nat
  BY <1>1, WalkFacts
<1>3. /\ UNCHANGED <<size, files, gone, walking, tasks, errors, late, status>>
      /\ next' = next + 1
      /\ ahead = NoPath /\ main \in {"first", "fill"} /\ walking
      /\ main' \in {"check", "fill", "spawn"}
      /\ total' = total + size[next]
      /\ key' = (total + size[next]) \div Limit
  BY DEF ReadFile, Reading, ChunkKey, disk, workers
<1>4. total' \in Nat /\ key' = total' \div Limit
  BY <1>2, <1>3
<1>5. Frontier = next /\ Taken' = Taken
  BY <1>3 DEF Frontier, Taken
<1>6. \A p \in files : p < next + 1 => p < next \/ p = next
  BY <1>1
<1> QED
  BY <1>1, <1>2, <1>3, <1>4, <1>5, <1>6

\* The path belongs to the chunk: it is its first, or has the key of the last.
LEMMA ReadMeasured ==
  ASSUME LInv, WInv, ReadFile, main = "first" \/ ChunkKey(next) = key
  PROVE  ChunkMeasured'
<1>1. /\ Limit \in Nat \ {0} /\ total \in Nat /\ size \in [Paths -> Nat] /\ chunk \in Seq(Paths)
      /\ next \in Paths /\ size[next] \in Nat /\ UNCHANGED size /\ ahead = NoPath
      /\ total' = total + size[next] /\ total' \in Nat /\ key' = total' \div Limit
      /\ main \in {"first", "fill"}
  BY WalkFacts, ReadFacts
<1>2. /\ chunk' = Append(chunk, next) /\ main' \in {"check", "fill"} /\ ahead' = ahead
      /\ main # "first" => total' \div Limit = key
  BY <1>1 DEF ReadFile, ChunkKey
<1>3. chunk' # <<>>
  <2>1. Len(chunk') = Len(chunk) + 1 /\ Len(chunk) \in Nat
    BY <1>1, <1>2
  <2>2. Len(<<>>) = 0
    OBVIOUS
  <2> QED
    BY <2>1, <2>2
<1>4. \E length : /\ Measures(length, Append(chunk, next))
                  /\ length[Len(Append(chunk, next))] <= total'
                  /\ (total' - length[Len(Append(chunk, next))]) \div Limit = total' \div Limit
  <2>1. CASE main = "first"
    <3> DEFINE length == [i \in {1} |-> 0]
    <3>1. chunk = <<>>
      BY <2>1 DEF WInv, ChunkMeasured
    <3>2. /\ Len(Append(chunk, next)) = 1 /\ DOMAIN Append(chunk, next) = {1}
      BY <3>1
    <3>3. Measures(length, Append(chunk, next))
      BY <1>1, <3>2 DEF Measures
    <3>4. length[Len(Append(chunk, next))] = 0
      BY <3>2
    <3> QED
      BY <1>1, <3>3, <3>4
  <2>2. CASE main = "fill"
    <3>1. chunk # <<>> /\ total \div Limit = key
      BY <2>2 DEF WInv, ChunkMeasured
    <3>2. PICK length : /\ Measures(length, chunk)
                        /\ length[Len(chunk)] <= total
                        /\ (total - length[Len(chunk)]) \div Limit = key
      BY <1>1, <3>1 DEF WInv, ChunkMeasured
    <3>3. length[Len(chunk)] \in Nat
      BY <1>1, <3>1, <3>2 DEF Measures
    <3>4. PICK l \in Nat : l = length[Len(chunk)]
      BY <3>3
    <3>5. total - l \in Nat /\ total - l <= total' /\ (total - l) \div Limit = total' \div Limit
      <4>1. l <= total /\ (total - l) \div Limit = total' \div Limit
        BY <1>2, <2>2, <3>2, <3>4
      <4>2. total - l \in Nat /\ total - l <= total'
        <5>1. ASSUME NEW a \in Nat, NEW b \in Nat, NEW c \in Nat, c <= a
              PROVE  a - c \in Nat /\ a - c <= a + b
          BY <5>1
        <5>2. total \in Nat /\ size[next] \in Nat /\ total' = total + size[next]
          BY <1>1
        <5> QED
          BY <4>1, <5>1, <5>2
      <4> QED
        BY <4>1, <4>2
    <3>6. total' - (total - l) < Limit
      BY <1>1, <3>5, SameKey
    <3>7. length[Len(chunk)] + size[next] < Limit
      <4>1. l + size[next] = total' - (total - l)
        <5>1. ASSUME NEW a \in Nat, NEW b \in Nat, NEW c \in Nat
              PROVE  c + b = (a + b) - (a - c)
          OBVIOUS
        <5>2. total \in Nat /\ size[next] \in Nat /\ total' = total + size[next]
          BY <1>1
        <5> QED
          BY <5>1, <5>2
      <4> QED
        BY <3>4, <3>6, <4>1
    <3>8. PICK longer : /\ Measures(longer, Append(chunk, next))
                        /\ longer[Len(Append(chunk, next))] = length[Len(chunk)] + size[next]
      BY <1>1, <3>1, <3>2, <3>7, MeasuresAppend
    <3>9. l + size[next] <= total' /\ total' - (l + size[next]) = total - l
      <4>1. l <= total
        BY <3>2, <3>4
      <4> QED
        BY <1>1, <4>1
    <3> QED
      BY <3>4, <3>5, <3>8, <3>9
  <2> QED
    BY <1>1, <2>1, <2>2
<1>5. PICK length : /\ Measures(length, Append(chunk, next))
                    /\ length[Len(Append(chunk, next))] <= total'
                    /\ (total' - length[Len(Append(chunk, next))]) \div Limit = total' \div Limit
  BY <1>4
<1>6. Measures(length, chunk)'
  BY <1>1, <1>2, <1>5 DEF Measures
<1>7. Short(chunk)'
  BY <1>6 DEF Measures, Short
<1> QED
  BY <1>1, <1>2, <1>3, <1>5, <1>6, <1>7 DEF ChunkMeasured

\* The walk has a file.
LEMMA ReadStep == ASSUME LInv, WInv, ReadFile PROVE WInv'
<1>1. /\ UNCHANGED <<size, files, gone, walking, tasks, errors, late, status>>
      /\ next \in Paths /\ next \in files /\ next' = next + 1
      /\ ahead = NoPath /\ walking
      /\ main' \in {"check", "fill", "spawn"} /\ main \in {"first", "fill"}
      /\ total' \in Nat /\ key' = total' \div Limit
      /\ Frontier = next /\ Taken' = Taken
      /\ \A p \in files : p < next + 1 => p < next \/ p = next
  BY ReadFacts
<1>2. /\ Count \in Nat /\ next \in Nat /\ chunk \in Seq(Paths)
      /\ \A i \in DOMAIN chunk : chunk[i] \in Nat
      /\ \A k \in DOMAIN tasks : \A i \in DOMAIN tasks[k].paths : tasks[k].paths[i] \in Nat
  BY WalkFacts
<1>3. ChunksAreShort'
  BY <1>1 DEF WInv, ChunksAreShort, Short
<1>4. next' \in 1..Count + 1 /\ next # NoPath
  BY <1>1, <1>2 DEF Paths, NoPath
<1>5. CASE main = "first" \/ ChunkKey(next) = key
  <2>1. chunk' = Append(chunk, next) /\ ahead' = NoPath
    BY <1>1, <1>5 DEF ReadFile
  <2>2. PICK n \in Nat :
          /\ DOMAIN chunk = 1..n /\ DOMAIN chunk' = 1..n + 1
          /\ \A i \in 1..n : chunk'[i] = chunk[i]
          /\ chunk'[n + 1] = next
    <3>1. Len(chunk) \in Nat
      BY <1>2
    <3> QED
      BY <1>1, <1>2, <2>1, <3>1
  <2>3. \A i \in 1..n + 1 : i \in 1..n \/ i = n + 1
    BY <2>2
  <2>4. Frontier' = next + 1
    BY <1>1, <2>1 DEF Frontier
  <2>5. \A i \in 1..n : chunk[i] < next
    BY <1>1, <2>2 DEF WInv, ChunkOrdered, Below
  <2>6. WalkTypes'
    BY <1>1, <1>4, <2>1 DEF WInv, WalkTypes
  <2>7. ChunkOrdered'
    <3>1. \A i \in 1..n + 1 : chunk'[i] < next + 1
      BY <1>2, <2>2, <2>3, <2>5
    <3>2. ASSUME NEW i \in 1..n + 1, NEW j \in 1..n + 1, i < j PROVE chunk'[i] < chunk'[j]
      <4>1. i \in 1..n
        BY <2>2, <3>2
      <4>2. CASE j \in 1..n
        BY <2>2, <3>2, <4>1, <4>2 DEF WInv, ChunkOrdered, Ascending
      <4>3. CASE j = n + 1
        BY <2>2, <2>5, <4>1, <4>3
      <4> QED
        BY <2>3, <4>2, <4>3
    <3> QED
      BY <2>2, <2>4, <3>1, <3>2 DEF ChunkOrdered, Ascending, Below
  <2>8. TasksOrdered'
    <3>1. ASSUME NEW k \in DOMAIN tasks
          PROVE  /\ \A i \in DOMAIN tasks[k].paths : tasks[k].paths[i] < next + 1
                 /\ \A i \in DOMAIN tasks[k].paths, j \in 1..n + 1 : tasks[k].paths[i] < chunk'[j]
      <4>1. /\ \A i \in DOMAIN tasks[k].paths : tasks[k].paths[i] < next
            /\ \A i \in DOMAIN tasks[k].paths, j \in 1..n : tasks[k].paths[i] < chunk[j]
        BY <1>1, <2>2 DEF WInv, TasksOrdered, Below, Precedes
      <4> QED
        BY <1>2, <2>2, <2>3, <4>1
    <3> QED
      BY <1>1, <2>2, <2>4, <3>1 DEF WInv, TasksOrdered, Below, Precedes
  <2>9. NoneLeftOut'
    <3>1. ToSet(chunk') = ToSet(chunk) \cup {next}
      <4>1. n + 1 \in 1..n + 1 /\ 1..n \subseteq 1..n + 1
        BY <2>2
      <4> QED
        BY <2>2, <2>3, <4>1 DEF ToSet
    <3>2. \A p \in files \ gone : p < next => p \in Taken \cup ToSet(chunk)
      <4>1. \A p \in files : p # NoPath
        BY ListFilesAssumption DEF LInv, Types, Paths, NoPath
      <4> QED
        BY <1>1, <4>1 DEF WInv, NoneLeftOut
    <3> QED
      BY <1>1, <2>1, <3>1, <3>2 DEF WInv, NoneLeftOut
  <2>10. ChunkMeasured'
    BY <1>5, ReadMeasured
  <2> QED
    BY <1>3, <2>6, <2>7, <2>8, <2>9, <2>10 DEF WInv
<1>6. CASE ~ (main = "first" \/ ChunkKey(next) = key)
  <2>1. ahead' = next /\ main' = "spawn" /\ UNCHANGED chunk
    BY <1>6 DEF ReadFile
  <2>2. Frontier' = Frontier
    BY <1>1, <1>4, <2>1 DEF Frontier
  <2>3. WalkTypes'
    BY <1>1, <1>2, <1>4, <2>1 DEF WInv, WalkTypes
  <2>4. ChunkOrdered'
    BY <2>1, <2>2 DEF WInv, ChunkOrdered
  <2>5. TasksOrdered'
    BY <1>1, <2>1, <2>2 DEF WInv, TasksOrdered
  <2>6. NoneLeftOut'
    <3>1. \A p \in files \ gone : p < next => p \in Taken \cup ToSet(chunk)
      <4>1. \A p \in files : p # NoPath
        BY ListFilesAssumption DEF LInv, Types, Paths, NoPath
      <4> QED
        BY <1>1, <4>1 DEF WInv, NoneLeftOut
    <3> QED
      BY <1>1, <2>1, <3>1 DEF WInv, NoneLeftOut
  <2>7. ChunkMeasured'
    BY <1>1, <1>4, <2>1 DEF WInv, ChunkMeasured, Short
  <2> QED
    BY <1>3, <2>3, <2>4, <2>5, <2>6, <2>7 DEF WInv
<1> QED
  BY <1>5, <1>6

\* The places of the main thread where it does not read: the walk stays as it is.
LEMMA PlaceStep ==
  ASSUME LInv, WInv, Start \/ Refuse \/ CanonicalizePanics \/ NoMoreChunks \/ Check \/ SpawnPanics
  PROVE  WInv'
<1>1. UNCHANGED <<size, files, gone, reader, tasks, errors>>
  BY DEF Start, Refuse, CanonicalizePanics, NoMoreChunks, Check, SpawnPanics, disk, workers
<1>2. NoMoreChunks => chunk = <<>> /\ ahead = NoPath /\ next = Count + 1
  BY DEF NoMoreChunks, WInv, ChunkMeasured, WalkTypes
<1>3. /\ main = "start" => chunk = <<>>
      /\ main = "check" => chunk # <<>>
  BY DEF WInv, ChunkMeasured
<1>4. /\ main' \in {"start", "first"} => main = "start"
      /\ main' \in {"check", "fill"} => main = "check"
      /\ main' = "wait" => errors # 0 \/ (chunk = <<>> /\ ahead = NoPath /\ next = Count + 1)
      /\ status' = "success" => status = "success"
  <2>1. CASE Start
    BY <2>1 DEF Start
  <2>2. CASE Refuse
    BY <2>2 DEF Refuse
  <2>3. CASE NoMoreChunks
    BY <1>2, <2>3 DEF NoMoreChunks
  <2>4. CASE Check
    <3>1. CASE errors = 0
      BY <2>4, <3>1 DEF Check
    <3>2. CASE errors # 0
      BY <2>4, <3>2 DEF Check
    <3> QED
      BY <3>1, <3>2
  <2>5. CASE CanonicalizePanics \/ SpawnPanics
    BY <2>5 DEF CanonicalizePanics, SpawnPanics
  <2> QED
    BY <2>1, <2>2, <2>3, <2>4, <2>5
<1>5. gone \subseteq files /\ (status = "success" => files \ gone \subseteq Taken)
  BY DEF WInv, WalkTypes, NoneLeftOut
<1>6. /\ main' \in {"start", "first"} => chunk = <<>>
      /\ main' \in {"check", "fill"} => chunk # <<>>
      /\ main' = "wait" => errors' # 0 \/ (chunk = <<>> /\ ahead = NoPath /\ next = Count + 1)
      /\ status' = "success" => files \ gone' \subseteq Taken
  BY <1>1, <1>3, <1>4, <1>5
<1>7. DOMAIN tasks' = DOMAIN tasks /\ \A k \in DOMAIN tasks : tasks'[k].paths = tasks[k].paths
  BY <1>1
<1> QED
  BY <1>1, <1>5, <1>6, <1>7, KeepStep

\* All tasks have ended: without an error and a panic no file is left.
LEMMA ExitStep == ASSUME LInv, WInv, Exit PROVE WInv'
<1>1. /\ UNCHANGED <<size, files, gone, reader, tasks, errors>>
      /\ main' = "exited"
      /\ status' = "success" => main = "wait" /\ errors = 0
  BY DEF Exit, disk, workers
<1>2. gone \subseteq files
  BY DEF WInv, WalkTypes
<1>3. ASSUME status' = "success" PROVE files \ gone \subseteq Taken
  <2>1. chunk = <<>> /\ ahead = NoPath /\ next = Count + 1
    BY <1>1, <1>3 DEF WInv, NoneLeftOut
  <2>2. ToSet(chunk) = {}
    BY <2>1 DEF ToSet
  <2>3. \A p \in files : p < Count + 1 /\ p # NoPath
    BY ListFilesAssumption DEF LInv, Types, Paths, NoPath
  <2> QED
    BY <2>1, <2>2, <2>3 DEF WInv, NoneLeftOut
<1> QED
  BY <1>1, <1>2, <1>3, KeepStep

\* A task ends: it keeps its paths.
LEMMA TaskStep ==
  ASSUME LInv, WInv, main # "exited", NEW k \in DOMAIN tasks, Task(k)
  PROVE  WInv'
<1>1. PICK pc \in {"done", "failed"} :
        /\ tasks' = [tasks EXCEPT ![k].pc = pc]
        /\ errors' = IF pc = "failed" THEN errors + 1 ELSE errors
        /\ UNCHANGED <<disk, reader, main, status>>
  BY DEF Task, TaskSucceeds, TaskFails, TaskEnds
<1>2. tasks \in Seq(TaskRecords) /\ errors \in Nat
  BY DEF LInv, Types
<1>3. /\ DOMAIN tasks' = DOMAIN tasks
      /\ \A j \in DOMAIN tasks : tasks'[j].paths = tasks[j].paths
  <2> DEFINE ended == [tasks[k] EXCEPT !.pc = pc]
  <2>1. tasks' = [tasks EXCEPT ![k] = ended]
    BY <1>1
  <2>2. tasks[k] \in TaskRecords
    BY <1>2
  <2>3. ended.paths = tasks[k].paths
    BY <2>2 DEF TaskRecords
  <2> HIDE DEF ended
  <2> QED
    BY <1>2, <2>1, <2>3
<1>4. errors # 0 => errors' # 0
  BY <1>1, <1>2
<1>5. UNCHANGED <<size, files, gone, reader, main, status>>
  BY <1>1 DEF disk
<1>6. /\ gone \subseteq files
      /\ main \in {"start", "first"} => chunk = <<>>
      /\ main \in {"check", "fill"} => chunk # <<>>
      /\ main = "wait" => errors # 0 \/ (chunk = <<>> /\ ahead = NoPath /\ next = Count + 1)
      /\ status = "success" => files \ gone \subseteq Taken
  BY DEF WInv, WalkTypes, ChunkMeasured, NoneLeftOut
<1> QED
  BY <1>3, <1>4, <1>5, <1>6, KeepStep

\* A file that vanishes is one file less to be taken.
LEMMA VanishStep == ASSUME LInv, WInv, NEW p \in Paths, FileVanishes(p) PROVE WInv'
<1>1. UNCHANGED <<size, files, reader, tasks, errors, main, status>> /\ gone' = gone \cup {p} /\ p \in files
  BY DEF FileVanishes, workers
<1>2. /\ gone \subseteq files
      /\ main \in {"start", "first"} => chunk = <<>>
      /\ main \in {"check", "fill"} => chunk # <<>>
      /\ main = "wait" => errors # 0 \/ (chunk = <<>> /\ ahead = NoPath /\ next = Count + 1)
      /\ status = "success" => files \ gone \subseteq Taken
  BY DEF WInv, WalkTypes, ChunkMeasured, NoneLeftOut
<1> QED
  BY <1>1, <1>2, KeepStep

\* Nothing has been read at the start.
LEMMA WalkInit == ASSUME Init PROVE WInv
<1>1. Count \in Nat /\ Limit \in Nat \ {0}
  BY ListFilesAssumption
<1>2. /\ size \in [Paths -> Sizes] /\ files \subseteq Paths /\ gone = {}
      /\ next = 1 /\ total = 0 /\ key = 0 /\ chunk = <<>> /\ ahead = NoPath /\ walking = TRUE
      /\ tasks = <<>> /\ main = "start" /\ status = "none"
  BY DEF Init
<1>3. DOMAIN <<>> = {}
  OBVIOUS
<1>4. WalkTypes /\ ChunkOrdered /\ TasksOrdered
  BY <1>1, <1>2, <1>3 DEF WalkTypes, ChunkOrdered, TasksOrdered, Ascending, Below
<1>5. NoneLeftOut
  <2>1. \A p \in Paths : ~ (p < 1)
    BY <1>1 DEF Paths
  <2> QED
    BY <1>2, <2>1 DEF NoneLeftOut
<1>6. Short(<<>>)
  <2> DEFINE length == [i \in {} |-> 0]
  <2>1. Measures(length, <<>>)
    BY <1>3 DEF Measures
  <2> QED
    BY <2>1, MeasuresShort
<1>7. 0 \div Limit = 0
  BY <1>1
<1>8. ChunkMeasured /\ ChunksAreShort
  BY <1>2, <1>3, <1>6, <1>7 DEF ChunkMeasured, ChunksAreShort
<1> QED
  BY <1>4, <1>5, <1>8 DEF WInv

\* The invariant of the walk, which needs the other one for its types.
THEOREM WalkInductive == Spec => [](LInv /\ WInv)
<1>1. Init => WInv
  BY WalkInit
<1>2. LInv /\ WInv /\ [Next]_vars => WInv'
  <2> SUFFICES ASSUME LInv, WInv, [Next]_vars PROVE WInv'
    OBVIOUS
  <2>1. CASE UNCHANGED vars
    <3>1. UNCHANGED <<size, files, gone, reader, tasks, errors, main, status>>
      BY <2>1 DEF vars, disk, workers
    <3>2. /\ gone \subseteq files
          /\ main \in {"start", "first"} => chunk = <<>>
          /\ main \in {"check", "fill"} => chunk # <<>>
          /\ main = "wait" => errors # 0 \/ (chunk = <<>> /\ ahead = NoPath /\ next = Count + 1)
          /\ status = "success" => files \ gone \subseteq Taken
      BY DEF WInv, WalkTypes, ChunkMeasured, NoneLeftOut
    <3> QED
      BY <3>1, <3>2, KeepStep
  <2>2. CASE Next
    BY <2>2, PlaceStep, PassStep, ReadStep, AheadStep, SpawnStep, ExitStep, TaskStep, VanishStep
       DEF Next, MainThread
  <2> QED
    BY <2>1, <2>2
<1> QED
  BY <1>1, <1>2, Inductive, PTL DEF Spec

\* No file is given to two commands or out of order, and a success leaves none out.
THEOREM EachOnce == Spec => []EveryFileOnce
<1>1. WInv => EveryFileOnce
  BY DEF WInv, TasksOrdered, NoneLeftOut, EveryFileOnce, Taken
<1> QED
  BY <1>1, WalkInductive, PTL

\* Every chunk is shorter than the limit without its first path, although its key
\* is a multiple of the length of all paths before it.
THEOREM AlwaysShort == Spec => []ChunksAreShort
<1>1. WInv => ChunksAreShort
  BY DEF WInv
<1> QED
  BY <1>1, WalkInductive, PTL

-----------------------------------------------------------------------------
(* The number of errors.                                                   *)

Failed == {k \in DOMAIN tasks : tasks[k].pc = "failed"}
ErrorsExact == IsFiniteSet(Failed) /\ errors = Cardinality(Failed)

\* What TypeOK says of variables that neither invariant needs.
Values ==
  /\ key \in Nat
  /\ walking \in BOOLEAN
  /\ status \in {"none", "success", "failure", "panic"}

\* A task that ends as failed is one more in the set and in the number.
LEMMA TaskCounted ==
  ASSUME LInv, ErrorsExact, NEW k \in DOMAIN tasks, Task(k)
  PROVE  ErrorsExact'
<1>1. PICK pc \in {"done", "failed"} :
        /\ tasks[k].pc = "running"
        /\ tasks' = [tasks EXCEPT ![k].pc = pc]
        /\ errors' = IF pc = "failed" THEN errors + 1 ELSE errors
  BY DEF Task, TaskSucceeds, TaskFails, TaskEnds
<1>2. tasks \in Seq(TaskRecords)
  BY DEF LInv, Types
<1>3. /\ DOMAIN tasks' = DOMAIN tasks
      /\ tasks'[k].pc = pc
      /\ \A j \in DOMAIN tasks \ {k} : tasks'[j] = tasks[j]
  <2> DEFINE ended == [tasks[k] EXCEPT !.pc = pc]
  <2>1. tasks' = [tasks EXCEPT ![k] = ended]
    BY <1>1
  <2>2. tasks[k] \in TaskRecords
    BY <1>2
  <2>3. ended.pc = pc
    BY <2>2 DEF TaskRecords
  <2> HIDE DEF ended
  <2> QED
    BY <1>2, <2>1, <2>3
<1>4. k \notin Failed
  BY <1>1 DEF Failed
<1>5. CASE pc = "failed"
  <2>1. Failed' = Failed \cup {k}
    BY <1>3, <1>5 DEF Failed
  <2>2. IsFiniteSet(Failed \cup {k}) /\ Cardinality(Failed \cup {k}) = Cardinality(Failed) + 1
    BY <1>4, FS_AddElement DEF ErrorsExact
  <2> QED
    BY <1>1, <1>5, <2>1, <2>2 DEF ErrorsExact
<1>6. CASE pc = "done"
  <2>1. Failed' = Failed
    BY <1>1, <1>3, <1>6 DEF Failed
  <2> QED
    BY <1>1, <1>6, <2>1 DEF ErrorsExact
<1> QED
  BY <1>1, <1>5, <1>6

\* A task that is started has not failed.
LEMMA SpawnCounted == ASSUME LInv, ErrorsExact, Spawn PROVE ErrorsExact'
<1> DEFINE task == [paths |-> chunk, pc |-> "running"]
<1>1. tasks' = Append(tasks, task) /\ errors' = errors
  BY DEF Spawn
<1>2. tasks \in Seq(TaskRecords) /\ task \in TaskRecords
  BY DEF LInv, Types, TaskRecords
<1>3. task.pc # "failed"
  OBVIOUS
<1>4. /\ DOMAIN tasks \subseteq DOMAIN tasks'
      /\ \A k \in DOMAIN tasks : tasks'[k] = tasks[k]
      /\ \A k \in DOMAIN tasks' : k \in DOMAIN tasks \/ tasks'[k] = task
  BY <1>1, <1>2
<1>5. Failed' = Failed
  BY <1>3, <1>4 DEF Failed
<1> QED
  BY <1>1, <1>5 DEF ErrorsExact

\* The other steps leave the tasks and the number alone.
LEMMA OtherCounted ==
  ASSUME ErrorsExact,
         \/ UNCHANGED vars
         \/ Start \/ Refuse \/ SkipEntry \/ CanonicalizePanics \/ ReadFile \/ WalkEnds
         \/ TakeAhead \/ NoMoreChunks \/ Check \/ SpawnPanics \/ Exit
         \/ \E p \in Paths : FileVanishes(p)
  PROVE  ErrorsExact'
<1>1. UNCHANGED <<tasks, errors>>
  BY DEF vars, workers, Start, Refuse, SkipEntry, CanonicalizePanics, ReadFile, WalkEnds,
         TakeAhead, NoMoreChunks, Check, SpawnPanics, Exit, FileVanishes
<1> QED
  BY <1>1 DEF ErrorsExact, Failed

LEMMA ValuesKept ==
  ASSUME LInv, WInv, LInv', WInv', Values, [Next]_vars
  PROVE  Values'
<1>1. key' \in Nat
  <2>1. total' \in Nat /\ total' \div Limit = key' /\ Limit \in Nat \ {0}
    BY ListFilesAssumption DEF WInv, WalkTypes, ChunkMeasured
  <2> QED
    BY <2>1
<1>2. walking' \in BOOLEAN
  <2>1. UNCHANGED walking \/ walking' = FALSE
    BY DEF Next, MainThread, vars, reader, Start, Refuse, SkipEntry, CanonicalizePanics, ReadFile,
           WalkEnds, TakeAhead, NoMoreChunks, Check, Spawn, SpawnPanics, Exit, FileVanishes,
           Task, TaskSucceeds, TaskFails, TaskEnds
  <2> QED
    BY <2>1 DEF Values
<1>3. status' \in {"none", "success", "failure", "panic"}
  <2>1. UNCHANGED status \/ Refuse \/ Exit
    BY DEF Next, MainThread, vars, Start, SkipEntry, CanonicalizePanics, ReadFile,
           WalkEnds, TakeAhead, NoMoreChunks, Check, Spawn, SpawnPanics, FileVanishes,
           Task, TaskSucceeds, TaskFails, TaskEnds
  <2>2. Refuse \/ Exit => status' \in {"success", "failure", "panic"}
    BY DEF Refuse, Exit
  <2> QED
    BY <2>1, <2>2 DEF Values
<1> QED
  BY <1>1, <1>2, <1>3 DEF Values

\* The types, with the number of errors that of the tasks that failed.
THEOREM TypeCorrect == Spec => []TypeOK
<1>1. Init => ErrorsExact /\ Values
  <2> SUFFICES ASSUME Init PROVE ErrorsExact /\ Values
    OBVIOUS
  <2>1. Failed = {} /\ errors = 0
    BY DEF Init, Failed
  <2> QED
    BY <2>1, FS_EmptySet DEF Init, ErrorsExact, Values
<1>2. LInv /\ ErrorsExact /\ [Next]_vars => ErrorsExact'
  BY TaskCounted, SpawnCounted, OtherCounted DEF Next, MainThread
<1>3. LInv /\ WInv /\ LInv' /\ WInv' /\ Values /\ [Next]_vars => Values'
  BY ValuesKept
<1>4. LInv /\ WInv /\ ErrorsExact /\ Values => TypeOK
  <2> SUFFICES ASSUME LInv, WInv, ErrorsExact, Values PROVE TypeOK
    OBVIOUS
  <2>1. errors = Quantify(DOMAIN tasks, LAMBDA k : tasks[k].pc = "failed")
    BY DEF ErrorsExact, Failed, Quantify
  <2>2. ASSUME NEW s \in Seq(Paths) PROVE ToSet(s) \subseteq Paths
    BY DEF ToSet
  <2>3. ASSUME NEW k \in DOMAIN tasks
        PROVE  ToSet(tasks[k].paths) \subseteq Paths /\ tasks[k].pc \in {"running", "done", "failed"}
    <3>1. tasks[k] \in TaskRecords
      BY <2>3 DEF LInv, Types
    <3> QED
      BY <2>2, <3>1 DEF TaskRecords
  <2>4. late \in 0..Len(tasks)
    <3>1. late \in Nat /\ late <= 1 /\ Len(tasks) \in Nat /\ DOMAIN tasks = 1..Len(tasks)
      BY DEF LInv, Types, LateIsLast
    <3>2. late # 0 => \E k \in DOMAIN tasks : tasks[k].pc = "failed"
      BY DEF LInv, LateIsLast, ErrorsCounted
    <3> QED
      BY <3>1, <3>2
  <2>5. /\ ToSet(chunk) \subseteq Paths /\ ahead \in Paths \cup {NoPath} /\ files \in SUBSET Paths
        /\ main \in {"start", "first", "check", "fill", "spawn", "wait", "unwind", "exited"}
    BY <2>2 DEF LInv, Types, Places
  <2>6. /\ size \in [Paths -> Sizes] /\ gone \in SUBSET files /\ next \in 1..Count + 1
        /\ total \in Nat
    BY DEF WInv, WalkTypes
  <2> QED
    BY <2>1, <2>3, <2>4, <2>5, <2>6 DEF Values, TypeOK
<1> QED
  BY <1>1, <1>2, <1>3, <1>4, WalkInductive, PTL DEF Spec
=============================================================================
