----------------------------- MODULE ListFiles ------------------------------
(***************************************************************************)
(* scripts/list_files: the files under a directory, in chunks of about     *)
(* Limit bytes of path, each chunk given to a command of its own. The      *)
(* directory is walked while the commands of the chunks before run, so     *)
(* that a command, or anyone else, may remove files the walk comes to.     *)
(***************************************************************************)
EXTENDS Naturals, Sequences, SequencesExt, FiniteSetsExt

CONSTANTS
  Count,   \* the number of directory entries
  Sizes,   \* the lengths of paths
  Limit    \* the length of a chunk, 1024 in the code

ASSUME ListFilesAssumption ==
  /\ Count \in Nat
  /\ Sizes \subseteq Nat
  /\ Limit \in Nat \ {0}

Paths == 1..Count
NoPath == 0

VARIABLES
  size,      \* the length of each path
  files,     \* the entries that are files and match
  gone,      \* files that were removed since the program started
  next,      \* the next entry of the walk
  total,     \* the state of scan: the length of all paths so far
  key,       \* the key of the chunk that is read
  chunk,     \* its paths
  ahead,     \* the path chunk_by read after the end of a chunk
  walking,   \* whether chunk_by may ask the walk for more
  tasks,     \* the tasks that were started: paths, and how each is
  errors,    \* the number of errors
  late,      \* history: tasks that were started when there were errors
  main,      \* where the main thread is
  status     \* how the program ended

disk == <<size, files, gone>>
reader == <<next, total, key, chunk, ahead, walking>>
workers == <<tasks, errors, late>>
vars == <<disk, reader, workers, main, status>>

TypeOK ==
  /\ size \in [Paths -> Sizes]
  /\ files \in SUBSET Paths
  /\ gone \in SUBSET files
  /\ next \in 1..Count + 1
  /\ total \in Nat /\ key \in Nat
  /\ ToSet(chunk) \subseteq Paths
  /\ ahead \in Paths \cup {NoPath}
  /\ walking \in BOOLEAN
  /\ \A k \in DOMAIN tasks :
       /\ ToSet(tasks[k].paths) \subseteq Paths
       /\ tasks[k].pc \in {"running", "done", "failed"}
  /\ errors = Quantify(DOMAIN tasks, LAMBDA k : tasks[k].pc = "failed")
  /\ late \in 0..Len(tasks)
  /\ main \in {"start", "first", "check", "fill", "spawn", "wait", "unwind", "exited"}
  /\ status \in {"none", "success", "failure", "panic"}

Init ==
  /\ size \in [Paths -> Sizes]
  /\ files \in SUBSET Paths
  /\ gone = {}
  /\ next = 1 /\ total = 0 /\ key = 0
  /\ chunk = <<>> /\ ahead = NoPath /\ walking = TRUE
  /\ tasks = <<>> /\ errors = 0 /\ late = 0
  /\ main = "start" /\ status = "none"

-----------------------------------------------------------------------------
(* The arguments.                                                          *)

Start ==
  /\ main = "start"
  /\ main' = "first"
  /\ UNCHANGED <<disk, reader, workers, status>>

\* They are not valid, or the ignore files are not.
Refuse ==
  /\ main = "start"
  /\ main' = "exited" /\ status' = "failure"
  /\ UNCHANGED <<disk, reader, workers>>

-----------------------------------------------------------------------------
(* The iterator: the walk, filter_map, scan and chunk_by, one entry at a   *)
(* time.                                                                   *)

Reading == main \in {"first", "fill"} /\ ahead = NoPath /\ walking

\* An entry that is not a file, or an error of the walk; a file that is gone may
\* not be met at all.
SkipEntry ==
  /\ Reading
  /\ next \in (Paths \ files) \cup gone
  /\ next' = next + 1
  /\ UNCHANGED <<disk, total, key, chunk, ahead, walking, workers, main, status>>

\* The walk has the entry, and canonicalize does not find the file.
CanonicalizePanics ==
  /\ Reading
  /\ next \in gone
  /\ main' = "unwind"
  /\ UNCHANGED <<disk, reader, workers, status>>

\* Mutant: the length before the path and not after it.
ChunkKeyBefore(p) == total \div Limit

\* The key of a path by which chunk_by groups.
ChunkKey(p) == (total + size[p]) \div Limit

\* chunk_by only knows that a chunk ended when it has the first path of the next.
ReadFile ==
  /\ Reading
  /\ next \in files \ gone
  /\ next' = next + 1
  /\ total' = total + size[next]
  /\ IF main = "first" \/ ChunkKey(next) = key
       THEN /\ chunk' = Append(chunk, next)
            /\ main' = IF main = "first" THEN "check" ELSE "fill"
            /\ UNCHANGED ahead
       ELSE ahead' = next /\ main' = "spawn" /\ UNCHANGED chunk
  /\ key' = ChunkKey(next)
  /\ UNCHANGED <<disk, walking, workers, status>>

\* Mutant: the end of the walk is taken for the end of the program.
WalkEndsAll ==
  /\ Reading
  /\ next = Count + 1
  /\ walking' = FALSE
  /\ main' = "wait"
  /\ UNCHANGED <<disk, next, total, key, chunk, ahead, workers, status>>

WalkEnds ==
  /\ Reading
  /\ next = Count + 1
  /\ walking' = FALSE
  /\ main' = IF main = "first" THEN "wait" ELSE "spawn"
  /\ UNCHANGED <<disk, next, total, key, chunk, ahead, workers, status>>

\* The next chunk begins with the path that ended the last.
TakeAhead ==
  /\ main = "first"
  /\ ahead # NoPath
  /\ chunk' = <<ahead>>
  /\ ahead' = NoPath
  /\ main' = "check"
  /\ UNCHANGED <<disk, next, total, key, walking, workers, status>>

NoMoreChunks ==
  /\ main = "first"
  /\ ahead = NoPath /\ ~ walking
  /\ main' = "wait"
  /\ UNCHANGED <<disk, reader, workers, status>>

-----------------------------------------------------------------------------
(* The loop over the chunks, in the scope of the threads.                  *)

\* Mutant: the loop goes on after an error.
GoOn ==
  /\ main = "check"
  /\ main' = "fill"
  /\ UNCHANGED <<disk, reader, workers, status>>

\* The errors are looked at when the first path of a chunk is there, and not again
\* when the rest of it is.
Check ==
  /\ main = "check"
  /\ main' = IF errors = 0 THEN "fill" ELSE "wait"
  /\ UNCHANGED <<disk, reader, workers, status>>

Spawn ==
  /\ main = "spawn"
  /\ tasks' = Append(tasks, [paths |-> chunk, pc |-> "running"])
  /\ late' = IF errors = 0 THEN late ELSE late + 1
  /\ chunk' = <<>>
  /\ main' = "first"
  /\ UNCHANGED <<disk, next, total, key, ahead, walking, errors, status>>

\* The system has no more threads.
SpawnPanics ==
  /\ main = "spawn"
  /\ main' = "unwind"
  /\ UNCHANGED <<disk, reader, workers, status>>

TaskEnds(k, pc) ==
  /\ tasks[k].pc = "running"
  /\ tasks' = [tasks EXCEPT ![k].pc = pc]
  /\ UNCHANGED <<disk, reader, late, main, status>>

TaskSucceeds(k) == TaskEnds(k, "done") /\ UNCHANGED errors

\* Mutant: a command that ran is a success, whatever its exit code.
TaskFailsUnseen(k) == TaskEnds(k, "failed") /\ UNCHANGED errors

\* The command cannot be started or fails, or the output is closed.
TaskFails(k) == TaskEnds(k, "failed") /\ errors' = errors + 1

Task(k) == TaskSucceeds(k) \/ TaskFails(k)

\* Mutant: only a task that succeeded says that it ended.
EndedWell(k) == tasks[k].pc = "done"

Ended(k) == tasks[k].pc # "running"

\* The scope waits for its threads, after a panic of the loop too.
Exit ==
  /\ main \in {"wait", "unwind"}
  /\ \A k \in DOMAIN tasks : Ended(k)
  /\ main' = "exited"
  /\ status' = IF main = "unwind" THEN "panic" ELSE IF errors # 0 THEN "failure" ELSE "success"
  /\ UNCHANGED <<disk, reader, workers>>

MainThread ==
  \/ Start \/ Refuse
  \/ SkipEntry \/ CanonicalizePanics \/ ReadFile \/ WalkEnds \/ TakeAhead \/ NoMoreChunks
  \/ Check \/ Spawn \/ SpawnPanics \/ Exit

\* A command or another program removes a file.
FileVanishes(p) ==
  /\ p \in files \ gone
  /\ gone' = gone \cup {p}
  /\ UNCHANGED <<size, files, reader, workers, main, status>>

Next ==
  /\ main # "exited"
  /\ \/ MainThread
     \/ \E k \in DOMAIN tasks : Task(k)
     \/ \E p \in Paths : FileVanishes(p)

\* Threads are scheduled, and the commands end.
Spec ==
  /\ Init /\ [][Next]_vars
  /\ WF_vars(MainThread)
  /\ WF_vars(main # "exited" /\ \E k \in DOMAIN tasks : Task(k))

-----------------------------------------------------------------------------
(* What is correct.                                                        *)

Ascending(s) == \A i, j \in DOMAIN s : i < j => s[i] < s[j]
Precedes(s, t) == \A i \in DOMAIN s, j \in DOMAIN t : s[i] < t[j]

\* When the program succeeds every file that is still there was given to one
\* command, which succeeded; no file is given to two, and none to a command out
\* of the order of the walk.
EveryFileOnce ==
  /\ \A k \in DOMAIN tasks : Ascending(tasks[k].paths)
  /\ \A j, k \in DOMAIN tasks : j < k => Precedes(tasks[j].paths, tasks[k].paths)
  /\ status = "success" =>
       files \ gone \subseteq UNION {ToSet(tasks[k].paths) : k \in DOMAIN tasks}

\* The usage text: "If the command failed, the exit code will be non-zero". The
\* code is that of an error only if a command failed or none was started.
FailureIsReported ==
  main = "exited" =>
    /\ (\E k \in DOMAIN tasks : tasks[k].pc = "failed") => status \in {"failure", "panic"}
    /\ status = "failure" => tasks = <<>> \/ \E k \in DOMAIN tasks : tasks[k].pc = "failed"

\* The length of the paths of s that follow its first is below the limit: length
\* has it for each part of s.
Short(s) ==
  \E length \in [DOMAIN s -> 0..Limit - 1] : \A i \in DOMAIN s :
    length[i] = IF i = 1 THEN 0 ELSE length[i - 1] + size[s[i]]

\* The limit on the arguments of a command: without its first path they are
\* shorter than the limit, whatever came before, unless it has no other.
ChunksAreShort == \A k \in DOMAIN tasks : Short(tasks[k].paths)

\* After an error at most the chunk that is being read is still started.
StopsAfterError == late <= 1

\* The program ends, whichever commands fail and whichever files disappear.
Exits == <>(main = "exited")
=============================================================================
