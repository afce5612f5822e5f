--------------------------- MODULE Codegen_proofs ---------------------------
(***************************************************************************)
(* That the check mode of the code generator says of the source tree what  *)
(* is true of it, and never hides a failure, and that its channels hold    *)
(* each file once, for any files.                                          *)
(***************************************************************************)
EXTENDS Codegen, SequenceTheorems, FiniteSetTheorems, TLAPS

GenPlaces ==
  {"waiting", "create", "generate", "format", "rewrite", "send", "done", "panicked"}
MainPlaces == {"start", "spawn comparisons", "collect", "unwind", "join", "exited"}
DiffRecords == [file : Files, differs : BOOLEAN]

Types ==
  /\ mode \in {"generate", "check"}
  /\ local \in [Files -> Contents] /\ temp \in [Files -> Contents]
  /\ before \in [Files -> Contents]
  /\ gen \in [Files -> GenPlaces]
  /\ completed \in Seq(Files)
  /\ cmp \in [Files -> {"none", "running", "done", "panicked"}]
  /\ diffs \in Seq(DiffRecords)
  /\ main \in MainPlaces
  /\ joined \in 0..Len(Tasks)
  /\ printed \in SUBSET Files

SourceKept == mode = "check" => local = before

\* What a generator made of a file, where it put it.
Made(f) == IF mode = "check" THEN temp[f] ELSE local[f]

WrittenFirst == \A f \in Files : gen[f] \in {"send", "done"} => Made(f) = "new"

\* A file is announced by a thread that ended well, and every such thread
\* announced its file.
AnnouncedLast ==
  \A f \in Files : f \in Range(completed) \/ cmp[f] # "none" => gen[f] = "done"
NoneForgotten ==
  mode = "check" =>
    \A f \in Files : gen[f] = "done" => f \in Range(completed) \/ cmp[f] # "none"

\* What was found of a file is in the channel until it is printed.
DiffsTrue == \A d \in Range(diffs) : d.differs <=> before[d.file] # "new"
PrintedTrue == \A f \in printed : before[f] # "new"
ComparedTold ==
  main \notin {"unwind", "exited"} =>
    \A f \in Files : cmp[f] = "done" =>
      f \in printed \/ before[f] = "new" \/ \E d \in Range(diffs) : d.file = f

AllEnded == completed = <<>> /\ \A f \in Files : Ended(gen[f])

Phases ==
  /\ main = "start" => \A f \in Files : gen[f] = "waiting"
  /\ main \in {"spawn comparisons", "collect", "unwind"} => mode = "check"
  /\ main \in {"collect", "unwind"} => AllEnded
  /\ mode = "check" /\ main = "join" =>
       AllEnded /\ diffs = <<>> /\ \A f \in Files : cmp[f] \in {"none", "done"}
  /\ mode = "generate" => printed = {} /\ \A f \in Files : cmp[f] = "none"

JoinedDone == \A k \in 1..joined : gen[Tasks[k]] = "done"

AllWell == \A f \in Files : gen[f] = "done" /\ cmp[f] # "panicked"

StatusTold ==
  main = "exited" =>
    /\ status \in {"success", "different"} => AllWell
    /\ status \in {"success", "different", "panic"}
    /\ status = "success" /\ mode = "check" => \A f \in Files : before[f] = "new"
    /\ status = "different" => printed # {} /\ printed = {f \in Files : before[f] # "new"}

CInv ==
  /\ Types /\ SourceKept /\ WrittenFirst
  /\ AnnouncedLast /\ NoneForgotten
  /\ DiffsTrue /\ PrintedTrue /\ ComparedTold
  /\ Phases /\ JoinedDone /\ StatusTold

USE CodegenAssumption

-----------------------------------------------------------------------------
(* Channels.                                                               *)

\* A message that is sent is in the channel, after those that were.
LEMMA SentIs ==
  ASSUME NEW S, NEW s \in Seq(S), NEW e \in S
  PROVE  Append(s, e) \in Seq(S) /\ Range(Append(s, e)) = Range(s) \cup {e}
<1>1. /\ Append(s, e) \in Seq(S)
      /\ Len(Append(s, e)) = Len(s) + 1
      /\ \A i \in 1..Len(s) : Append(s, e)[i] = s[i]
      /\ Append(s, e)[Len(s) + 1] = e
  BY AppendProperties
<1>2. DOMAIN s = 1..Len(s) /\ DOMAIN Append(s, e) = 1..Len(s) + 1 /\ Len(s) \in Nat
  BY <1>1
<1>3. \A i \in 1..Len(s) + 1 : i \in 1..Len(s) \/ i = Len(s) + 1
  BY <1>2
<1>4. 1..Len(s) \subseteq 1..Len(s) + 1 /\ Len(s) + 1 \in 1..Len(s) + 1
  BY <1>2
<1> QED
  BY <1>1, <1>2, <1>3, <1>4, Zenon DEF Range

\* A message that is received is the first, and the others stay.
LEMMA ReceivedIs ==
  ASSUME NEW S, NEW s \in Seq(S), s # <<>>
  PROVE  /\ Head(s) \in S /\ Tail(s) \in Seq(S)
         /\ Range(s) = Range(Tail(s)) \cup {Head(s)}
<1>1. /\ Head(s) \in S /\ Tail(s) \in Seq(S)
      /\ Len(Tail(s)) = Len(s) - 1
      /\ \A i \in 1..Len(Tail(s)) : Tail(s)[i] = s[i + 1]
  BY HeadTailProperties
<1>2. Head(s) = s[1] /\ Len(s) \in Nat \ {0}
  OBVIOUS
<1>3. DOMAIN s = 1..Len(s) /\ DOMAIN Tail(s) = 1..Len(s) - 1
  BY <1>1, <1>2
<1>4. Range(s) \subseteq Range(Tail(s)) \cup {Head(s)}
  <2> SUFFICES ASSUME NEW i \in 1..Len(s), i # 1 PROVE s[i] \in Range(Tail(s))
    BY <1>2, <1>3 DEF Range
  <2>1. i - 1 \in 1..Len(s) - 1 /\ s[(i - 1) + 1] = s[i]
    BY <1>2
  <2> QED
    BY <1>1, <1>3, <2>1 DEF Range
<1>5. Range(Tail(s)) \cup {Head(s)} \subseteq Range(s)
  <2> SUFFICES ASSUME NEW i \in 1..Len(s) - 1 PROVE Tail(s)[i] \in Range(s)
    BY <1>2, <1>3 DEF Range
  <2>1. i + 1 \in 1..Len(s)
    BY <1>2
  <2> QED
    BY <1>1, <1>2, <1>3, <2>1 DEF Range
<1> QED
  BY <1>1, <1>4, <1>5

\* An empty channel has no message.
LEMMA EmptyIs == Range(<<>>) = {}
BY DEF Range

-----------------------------------------------------------------------------
(* The generators.                                                         *)

\* A thread that is still at work: the main thread is past the start, and not
\* yet past the loop that waits for it.
LEMMA AtWork ==
  ASSUME CInv, NEW f \in Files, gen[f] \notin {"waiting", "done", "panicked"}
  PROVE  /\ main \notin {"start", "collect", "unwind"}
         /\ main = "join" => mode # "check"
         /\ f \notin Range(completed) /\ cmp[f] = "none"
         /\ \A k \in 1..joined : Tasks[k] # f
BY DEF CInv, Phases, AllEnded, Ended, AnnouncedLast, JoinedDone

\* A step of a generator to another place of its work, or to a panic.
LEMMA GeneratorStep ==
  ASSUME CInv, main # "exited", NEW f \in Files,
         gen[f] \notin {"waiting", "done", "panicked"},
         NEW to \in GenPlaces \ {"waiting", "done"},
         gen' = [gen EXCEPT ![f] = to],
         local' \in [Files -> Contents], temp' \in [Files -> Contents],
         UNCHANGED <<mode, before, channels, cmp, main, joined, printed, status>>,
         SourceKept', \A g \in Files \ {f} : Made(g)' = Made(g),
         to = "send" => Made(f)' = "new"
  PROVE  CInv'
<1>1. /\ main \notin {"start", "collect", "unwind"}
      /\ main = "join" => mode # "check"
      /\ f \notin Range(completed) /\ cmp[f] = "none"
      /\ \A k \in 1..joined : Tasks[k] # f
  BY AtWork
<1>2. /\ gen' \in [Files -> GenPlaces] /\ gen'[f] = to
      /\ \A g \in Files \ {f} : gen'[g] = gen[g]
  BY DEF CInv, Types
<1>3. Types'
  BY <1>2 DEF CInv, Types, channels
<1>4. WrittenFirst'
  BY <1>2 DEF CInv, WrittenFirst
<1>5. AnnouncedLast' /\ NoneForgotten'
  BY <1>1, <1>2 DEF CInv, AnnouncedLast, NoneForgotten, channels
<1>6. DiffsTrue' /\ PrintedTrue' /\ ComparedTold'
  BY DEF CInv, DiffsTrue, PrintedTrue, ComparedTold, channels
<1>7. Phases'
  BY <1>1, <1>2 DEF CInv, Phases, channels
<1>8. JoinedDone'
  <2>1. \A k \in 1..joined : Tasks[k] \in Files
    BY DEF CInv, Types
  <2> QED
    BY <1>1, <1>2, <2>1 DEF CInv, JoinedDone
<1>9. StatusTold'
  BY DEF StatusTold
<1> QED
  BY <1>3, <1>4, <1>5, <1>6, <1>7, <1>8, <1>9 DEF CInv

\* A write of a file, in the directory of the mode.
LEMMA WriteIs ==
  ASSUME CInv, NEW f \in Files, NEW content \in Contents, Write(f, content),
         UNCHANGED mode
  PROVE  /\ local' \in [Files -> Contents] /\ temp' \in [Files -> Contents]
         /\ before' = before /\ SourceKept'
         /\ Made(f)' = content
         /\ \A g \in Files \ {f} : Made(g)' = Made(g)
BY DEF CInv, Types, SourceKept, Write, Made

LEMMA CreateInv == ASSUME CInv, main # "exited", NEW f \in Files, CreateFile(f) PROVE CInv'
<1>1. "partial" \in Contents /\ UNCHANGED mode /\ Write(f, "partial")
  BY DEF CreateFile, Step, Contents
<1> QED
  BY <1>1, WriteIs, GeneratorStep DEF CreateFile, Step, GenPlaces, channels

LEMMA GenerateInv == ASSUME CInv, main # "exited", NEW f \in Files, Generate(f) PROVE CInv'
<1> DEFINE content == IF f \in Genvk THEN "raw" ELSE "new"
           to == IF f \in Genvk THEN "format" ELSE "send"
<1>1. /\ content \in Contents /\ UNCHANGED mode /\ Write(f, content)
      /\ to \in GenPlaces \ {"waiting", "done"} /\ (to = "send" => content = "new")
  BY DEF Generate, Step, Contents, GenPlaces
<1>2. /\ gen[f] = "generate" /\ gen' = [gen EXCEPT ![f] = to]
      /\ UNCHANGED <<mode, channels, cmp, main, joined, printed, status>>
  BY DEF Generate, Step, channels
<1> HIDE DEF content, to
<1> QED
  BY <1>1, <1>2, WriteIs, GeneratorStep

LEMMA FormatInv == ASSUME CInv, main # "exited", NEW f \in Files, Format(f) PROVE CInv'
<1>1. "partial" \in Contents /\ UNCHANGED mode /\ Write(f, "partial")
  BY DEF Format, Step, Contents
<1> QED
  BY <1>1, WriteIs, GeneratorStep DEF Format, Step, GenPlaces, channels

LEMMA RewriteInv == ASSUME CInv, main # "exited", NEW f \in Files, Rewrite(f) PROVE CInv'
<1>1. "new" \in Contents /\ UNCHANGED mode /\ Write(f, "new")
  BY DEF Rewrite, Step, Contents
<1> QED
  BY <1>1, WriteIs, GeneratorStep DEF Rewrite, Step, GenPlaces, channels

LEMMA PanicInv ==
  ASSUME CInv, main # "exited", NEW f \in Files, GeneratorPanics(f) PROVE CInv'
<1>1. /\ local' \in [Files -> Contents] /\ temp' \in [Files -> Contents] /\ SourceKept'
      /\ \A g \in Files : Made(g)' = Made(g)
  BY DEF GeneratorPanics, Step, files, CInv, Types, SourceKept, Made
<1> QED
  BY <1>1, GeneratorStep DEF GeneratorPanics, Step, GenPlaces, channels, files

\* The file is announced, by a thread that has written all of it.
LEMMA SendInv == ASSUME CInv, main # "exited", NEW f \in Files, Send(f) PROVE CInv'
<1>1. /\ gen[f] = "send"
      /\ UNCHANGED <<mode, files, diffs, cmp, main, joined, printed, status>>
  BY DEF Send, Step
<1>2. /\ main \notin {"start", "collect", "unwind"}
      /\ main = "join" => mode # "check"
      /\ f \notin Range(completed) /\ cmp[f] = "none"
      /\ \A k \in 1..joined : Tasks[k] # f
  BY <1>1, AtWork
<1>3. ReceiverAlive
  BY <1>2 DEF ReceiverAlive, CInv, Types, MainPlaces, Phases
<1>4. gen' = [gen EXCEPT ![f] = "done"] /\ completed' = Append(completed, f)
  BY <1>3 DEF Send, Step
<1>5. completed' \in Seq(Files) /\ Range(completed') = Range(completed) \cup {f}
  BY <1>4, SentIs DEF CInv, Types
<1>6. /\ gen' \in [Files -> GenPlaces] /\ gen'[f] = "done"
      /\ \A g \in Files \ {f} : gen'[g] = gen[g]
  BY <1>4 DEF CInv, Types, GenPlaces
<1>7. Types' /\ SourceKept'
  BY <1>1, <1>5, <1>6 DEF CInv, Types, SourceKept, files
<1>8. WrittenFirst'
  BY <1>1, <1>6 DEF CInv, WrittenFirst, Made, files
<1>9. AnnouncedLast' /\ NoneForgotten'
  BY <1>1, <1>5, <1>6 DEF CInv, AnnouncedLast, NoneForgotten
<1>10. DiffsTrue' /\ PrintedTrue' /\ ComparedTold'
  BY <1>1 DEF CInv, DiffsTrue, PrintedTrue, ComparedTold, files
<1>11. Phases'
  BY <1>1, <1>2 DEF CInv, Phases
<1>12. JoinedDone'
  <2>1. \A k \in 1..joined : Tasks[k] \in Files
    BY DEF CInv, Types
  <2> QED
    BY <1>1, <1>6, <2>1 DEF CInv, JoinedDone
<1>13. StatusTold'
  BY <1>1 DEF StatusTold
<1> QED
  BY <1>7, <1>8, <1>9, <1>10, <1>11, <1>12, <1>13 DEF CInv

-----------------------------------------------------------------------------
(* The comparisons.                                                        *)

\* A comparison ends: a panic, or a message that is true of the file.
LEMMA ComparisonInv ==
  ASSUME CInv, main # "exited", NEW f \in Files, Comparison(f) PROVE CInv'
<1> DEFINE message == [file |-> f, differs |-> local[f] # temp[f]]
<1>1. PICK pc \in {"done", "panicked"} :
        /\ cmp[f] = "running" /\ cmp' = [cmp EXCEPT ![f] = pc]
        /\ UNCHANGED <<mode, files, gen, completed, main, joined, printed, status>>
        /\ IF pc = "done" THEN main # "unwind" /\ diffs' = Append(diffs, message)
           ELSE diffs' = diffs
  BY DEF Comparison, Compare, ComparePanics, Report
<1>2. mode = "check" /\ gen[f] = "done" /\ temp[f] = "new" /\ local[f] = before[f]
  BY <1>1 DEF CInv, Types, Phases, AnnouncedLast, WrittenFirst, Made, SourceKept
<1>3. message \in DiffRecords /\ message.file = f
      /\ (message.differs <=> before[f] # "new")
  BY <1>2 DEF DiffRecords
<1> HIDE DEF message
<1>4. /\ diffs' \in Seq(DiffRecords)
      /\ Range(diffs) \subseteq Range(diffs')
      /\ Range(diffs') \subseteq Range(diffs) \cup {message}
      /\ pc = "done" => message \in Range(diffs')
  <2>1. CASE pc = "done"
    <3>1. diffs \in Seq(DiffRecords) /\ message \in DiffRecords
      BY <1>3 DEF CInv, Types
    <3>2. /\ Append(diffs, message) \in Seq(DiffRecords)
          /\ Range(Append(diffs, message)) = Range(diffs) \cup {message}
      BY <3>1, SentIs
    <3>3. diffs' = Append(diffs, message)
      BY <1>1, <2>1
    <3> QED
      BY <3>2, <3>3
  <2>2. CASE pc # "done"
    BY <1>1, <2>2 DEF CInv, Types
  <2> QED
    BY <2>1, <2>2
<1>5. /\ cmp' \in [Files -> {"none", "running", "done", "panicked"}] /\ cmp'[f] = pc
      /\ \A g \in Files \ {f} : cmp'[g] = cmp[g]
  BY <1>1 DEF CInv, Types
<1>6. Types' /\ SourceKept' /\ WrittenFirst'
  BY <1>1, <1>4, <1>5 DEF CInv, Types, SourceKept, WrittenFirst, Made, files
<1>7. AnnouncedLast' /\ NoneForgotten'
  BY <1>1, <1>2, <1>5 DEF CInv, AnnouncedLast, NoneForgotten
<1>8. DiffsTrue'
  BY <1>1, <1>3, <1>4 DEF CInv, DiffsTrue, files
<1>9. PrintedTrue'
  BY <1>1 DEF CInv, PrintedTrue, files
<1>10. ComparedTold'
  BY <1>1, <1>3, <1>4, <1>5 DEF CInv, ComparedTold, files
<1>11. Phases'
  <2>1. main # "join"
    BY <1>1, <1>2 DEF CInv, Phases
  <2> QED
    BY <1>1, <1>2, <2>1 DEF CInv, Phases, AllEnded
<1>12. JoinedDone' /\ StatusTold'
  BY <1>1 DEF CInv, JoinedDone, StatusTold
<1> QED
  BY <1>6, <1>7, <1>8, <1>9, <1>10, <1>11, <1>12 DEF CInv

-----------------------------------------------------------------------------
(* The main thread.                                                        *)

\* The generators start, or nothing does.
LEMMA StartInv == ASSUME CInv, SpawnGenerators \/ PrepareFails PROVE CInv'
<1>1. main = "start" /\ \A f \in Files : gen[f] = "waiting"
  BY DEF SpawnGenerators, PrepareFails, CInv, Phases
<1>2. Range(completed) = {} /\ \A f \in Files : cmp[f] = "none"
  <2>1. \A f \in Range(completed) : f \in Files
    BY DEF CInv, Types, Range
  <2> QED
    BY <1>1, <2>1 DEF CInv, AnnouncedLast
<1>3. CASE SpawnGenerators
  <2>1. /\ UNCHANGED <<mode, files, channels, cmp, joined, printed, status>>
        /\ gen' = [f \in Files |-> "create"]
        /\ main' = IF mode = "check" THEN "spawn comparisons" ELSE "join"
    BY <1>3 DEF SpawnGenerators
  <2>2. Types' /\ SourceKept' /\ WrittenFirst'
    BY <2>1 DEF CInv, Types, SourceKept, WrittenFirst, files, channels, GenPlaces, MainPlaces
  <2>3. AnnouncedLast' /\ NoneForgotten'
    BY <1>2, <2>1 DEF AnnouncedLast, NoneForgotten, channels
  <2>4. DiffsTrue' /\ PrintedTrue' /\ ComparedTold'
    BY <1>1, <2>1 DEF CInv, DiffsTrue, PrintedTrue, ComparedTold, channels, files
  <2>5. Phases' /\ StatusTold'
    BY <2>1 DEF CInv, Types, Phases, StatusTold
  <2>6. JoinedDone'
    <3>1. joined = 0
      <4>1. joined \in 0..Len(Tasks) /\ Len(Tasks) \in Nat
        BY DEF CInv, Types
      <4>2. \A k \in 1..joined : Tasks[k] \in Files
        BY <4>1
      <4>3. \A k \in 1..joined : gen[Tasks[k]] = "done"
        BY DEF CInv, JoinedDone
      <4>4. 1 \notin 1..joined
        BY <1>1, <4>2, <4>3
      <4>5. joined \in Nat /\ (joined >= 1 => 1 \in 1..joined)
        BY <4>1
      <4> QED
        BY <4>4, <4>5
    <3>2. joined' = 0
      BY <2>1, <3>1
    <3>3. \A k : k \notin 1..0
      OBVIOUS
    <3> QED
      BY <3>2, <3>3, Zenon DEF JoinedDone
  <2> QED
    BY <2>2, <2>3, <2>4, <2>5, <2>6 DEF CInv
<1>4. CASE PrepareFails
  BY <1>4 DEF PrepareFails, Exit, CInv, Types, SourceKept, WrittenFirst, AnnouncedLast,
              NoneForgotten, DiffsTrue, PrintedTrue, ComparedTold, Phases, JoinedDone,
              StatusTold, MainPlaces, Made, files, channels
<1> QED
  BY <1>3, <1>4

\* An announced file goes to a comparison.
LEMMA SpawnComparisonInv == ASSUME CInv, SpawnComparison PROVE CInv'
<1>1. /\ main = "spawn comparisons"
      /\ UNCHANGED <<mode, files, gen, diffs, main, joined, printed, status>>
  BY DEF SpawnComparison
<1>2. PICK f \in Files : /\ f \in Range(completed)
                        /\ cmp' = [cmp EXCEPT ![f] = "running"]
                        /\ completed' \in Seq(Files)
                        /\ Range(completed) = Range(completed') \cup {f}
  <2>1. completed # <<>> /\ completed' = Tail(completed)
        /\ cmp' = [cmp EXCEPT ![Head(completed)] = "running"]
    BY DEF SpawnComparison
  <2>2. completed \in Seq(Files)
    BY DEF CInv, Types
  <2> QED
    BY <2>1, <2>2, ReceivedIs
<1>3. /\ cmp' \in [Files -> {"none", "running", "done", "panicked"}] /\ cmp'[f] = "running"
      /\ \A g \in Files \ {f} : cmp'[g] = cmp[g]
  BY <1>2 DEF CInv, Types
<1>4. Types' /\ SourceKept' /\ WrittenFirst'
  BY <1>1, <1>2, <1>3 DEF CInv, Types, SourceKept, WrittenFirst, Made, files
<1>5. AnnouncedLast' /\ NoneForgotten'
  BY <1>1, <1>2, <1>3 DEF CInv, AnnouncedLast, NoneForgotten
<1>6. DiffsTrue' /\ PrintedTrue' /\ ComparedTold'
  BY <1>1, <1>3 DEF CInv, DiffsTrue, PrintedTrue, ComparedTold, files
<1>7. Phases' /\ JoinedDone' /\ StatusTold'
  BY <1>1 DEF CInv, Phases, JoinedDone, StatusTold
<1> QED
  BY <1>4, <1>5, <1>6, <1>7 DEF CInv

\* The channel of completed files is disconnected.
LEMMA SpawningEndsInv == ASSUME CInv, SpawningEnds PROVE CInv'
<1>1. /\ main = "spawn comparisons" /\ main' = "collect" /\ AllEnded
      /\ UNCHANGED <<mode, files, gen, channels, cmp, joined, printed, status>>
  BY DEF SpawningEnds, CompletedDisconnected, AllEnded
<1>2. Types' /\ SourceKept' /\ WrittenFirst' /\ AnnouncedLast' /\ NoneForgotten'
  BY <1>1 DEF CInv, Types, SourceKept, WrittenFirst, AnnouncedLast, NoneForgotten, Made,
              files, channels, MainPlaces
<1>3. DiffsTrue' /\ PrintedTrue' /\ ComparedTold' /\ JoinedDone' /\ StatusTold'
  BY <1>1 DEF CInv, DiffsTrue, PrintedTrue, ComparedTold, JoinedDone, StatusTold, files,
              channels
<1>4. Phases'
  BY <1>1 DEF CInv, Phases, AllEnded, channels
<1> QED
  BY <1>2, <1>3, <1>4 DEF CInv

\* A message is printed if it has a difference.
LEMMA CollectInv == ASSUME CInv, Collect PROVE CInv'
<1>1. /\ main = "collect" /\ mode = "check" /\ AllEnded
      /\ UNCHANGED <<mode, files, gen, completed, cmp, main, joined, status>>
  BY DEF Collect, CInv, Phases
<1>2. PICK d \in DiffRecords :
        /\ d \in Range(diffs)
        /\ printed' = IF d.differs THEN printed \cup {d.file} ELSE printed
        /\ diffs' \in Seq(DiffRecords)
        /\ Range(diffs) = Range(diffs') \cup {d}
  <2>1. /\ diffs # <<>> /\ diffs' = Tail(diffs)
        /\ printed' = IF Head(diffs).differs THEN printed \cup {Head(diffs).file}
                      ELSE printed
    BY DEF Collect
  <2>2. diffs \in Seq(DiffRecords)
    BY DEF CInv, Types
  <2> QED
    BY <2>1, <2>2, ReceivedIs
<1>3. d.file \in Files /\ (d.differs <=> before[d.file] # "new")
  BY <1>2 DEF DiffRecords, CInv, DiffsTrue
<1>4. Types' /\ SourceKept' /\ WrittenFirst' /\ AnnouncedLast' /\ NoneForgotten'
  BY <1>1, <1>2, <1>3 DEF CInv, Types, SourceKept, WrittenFirst, AnnouncedLast,
                          NoneForgotten, Made, files
<1>5. DiffsTrue' /\ PrintedTrue'
  BY <1>1, <1>2, <1>3 DEF CInv, DiffsTrue, PrintedTrue, files
<1>6. ComparedTold'
  BY <1>1, <1>2, <1>3 DEF CInv, ComparedTold, files
<1>7. Phases' /\ JoinedDone' /\ StatusTold'
  BY <1>1 DEF CInv, Phases, JoinedDone, StatusTold, AllEnded
<1> QED
  BY <1>4, <1>5, <1>6, <1>7 DEF CInv

\* A panic of the main thread while comparisons run, and the end of it.
LEMMA UnwindInv == ASSUME CInv, PrintPanics \/ Unwind PROVE CInv'
<1>1. mode = "check" /\ main \in {"collect", "unwind"} /\ AllEnded
  BY DEF PrintPanics, Unwind, CInv, Phases
<1>2. /\ UNCHANGED <<mode, files, gen, completed, cmp, joined, printed>>
      /\ diffs' = diffs \/ diffs' = <<>>
      /\ main' \in {"unwind", "exited"}
      /\ main' = "exited" => status' = "panic"
  BY DEF PrintPanics, Unwind, Exit, channels
<1>3. diffs' \in Seq(DiffRecords) /\ Range(diffs') \subseteq Range(diffs)
  <2>1. diffs \in Seq(DiffRecords) /\ <<>> \in Seq(DiffRecords)
    BY DEF CInv, Types
  <2> QED
    BY <1>2, <2>1, EmptyIs
<1>4. Types' /\ SourceKept' /\ WrittenFirst' /\ AnnouncedLast' /\ NoneForgotten'
  BY <1>2, <1>3 DEF CInv, Types, SourceKept, WrittenFirst, AnnouncedLast, NoneForgotten,
                    Made, files, MainPlaces
<1>5. DiffsTrue' /\ PrintedTrue' /\ ComparedTold'
  BY <1>2, <1>3 DEF CInv, DiffsTrue, PrintedTrue, ComparedTold, files
<1>6. Phases' /\ JoinedDone' /\ StatusTold'
  BY <1>1, <1>2 DEF CInv, Phases, JoinedDone, StatusTold, AllEnded
<1> QED
  BY <1>4, <1>5, <1>6 DEF CInv

\* All comparisons have ended and all messages are printed.
LEMMA CollectingEndsInv == ASSUME CInv, CollectingEnds PROVE CInv'
<1>1. /\ main = "collect" /\ mode = "check" /\ AllEnded
      /\ diffs = <<>> /\ Running = {}
      /\ UNCHANGED <<mode, files, gen, channels, cmp, joined, printed>>
      /\ \/ main' = "exited" /\ status' = "panic"
         \/ main' = "join" /\ status' = status /\ \A f \in Files : cmp[f] # "panicked"
  BY DEF CollectingEnds, Exit, CInv, Phases
<1>2. \A f \in Files : cmp[f] \in {"none", "done", "panicked"}
  BY <1>1 DEF Running, CInv, Types
<1>3. Types' /\ SourceKept' /\ WrittenFirst' /\ AnnouncedLast' /\ NoneForgotten'
  BY <1>1 DEF CInv, Types, SourceKept, WrittenFirst, AnnouncedLast, NoneForgotten, Made,
              files, channels, MainPlaces
<1>4. DiffsTrue' /\ PrintedTrue' /\ ComparedTold' /\ JoinedDone' /\ StatusTold'
  BY <1>1 DEF CInv, DiffsTrue, PrintedTrue, ComparedTold, JoinedDone, StatusTold, files,
              channels
<1>5. Phases'
  BY <1>1, <1>2 DEF CInv, Phases, AllEnded, channels
<1> QED
  BY <1>3, <1>4, <1>5 DEF CInv

\* A generator is joined: one that panicked ends the program.
LEMMA JoinInv == ASSUME CInv, Join PROVE CInv'
<1> DEFINE task == Tasks[joined + 1]
<1>1. /\ main = "join" /\ joined < Len(Tasks) /\ gen[task] \in {"done", "panicked"}
      /\ UNCHANGED <<mode, files, gen, channels, cmp, printed>>
      /\ \/ main' = "exited" /\ status' = "panic" /\ joined' = joined
         \/ /\ gen[task] # "panicked" /\ joined' = joined + 1
            /\ UNCHANGED <<main, status>>
  BY DEF Join, Ended, Exit
<1>2. /\ joined \in Nat /\ joined + 1 \in 1..Len(Tasks)
      /\ joined' \in 0..Len(Tasks)
  <2>1. joined \in 0..Len(Tasks) /\ Len(Tasks) \in Nat
    BY DEF CInv, Types
  <2> QED
    BY <1>1, <2>1
<1>3. Types' /\ SourceKept' /\ WrittenFirst' /\ AnnouncedLast' /\ NoneForgotten'
  BY <1>1, <1>2 DEF CInv, Types, SourceKept, WrittenFirst, AnnouncedLast, NoneForgotten,
                    Made, files, channels, MainPlaces
<1>4. DiffsTrue' /\ PrintedTrue' /\ ComparedTold' /\ StatusTold'
  BY <1>1 DEF CInv, DiffsTrue, PrintedTrue, ComparedTold, StatusTold, files, channels
<1>5. Phases'
  BY <1>1 DEF CInv, Phases, AllEnded, channels
<1>6. JoinedDone'
  BY <1>1, <1>2 DEF CInv, JoinedDone
<1> QED
  BY <1>3, <1>4, <1>5, <1>6 DEF CInv

\* All generators are joined, so that each file was compared, and each
\* difference printed.
LEMMA ReturnInv == ASSUME CInv, Return PROVE CInv'
<1>1. /\ main = "join" /\ joined = Len(Tasks) /\ main' = "exited"
      /\ status' = IF printed # {} THEN "different" ELSE "success"
      /\ UNCHANGED <<mode, files, gen, channels, cmp, joined, printed>>
  BY DEF Return, Exit
<1>2. \A f \in Files : gen[f] = "done"
  <2> SUFFICES ASSUME NEW f \in Files PROVE gen[f] = "done"
    OBVIOUS
  <2>1. PICK k \in 1..Len(Tasks) : Tasks[k] = f
    BY DEF Files, Range
  <2> QED
    BY <1>1, <2>1 DEF CInv, JoinedDone
<1>3. mode = "generate" => printed = {} /\ \A f \in Files : cmp[f] = "none"
  BY DEF CInv, Phases
<1>4. ASSUME mode = "check"
      PROVE  printed = {f \in Files : before[f] # "new"} /\ \A f \in Files : cmp[f] = "done"
  <2>1. Range(completed) = {} /\ Range(diffs) = {} /\ \A f \in Files : cmp[f] \in {"none", "done"}
    BY <1>1, <1>4, EmptyIs DEF CInv, Phases, AllEnded
  <2>2. \A f \in Files : cmp[f] = "done"
    BY <1>2, <1>4, <2>1 DEF CInv, NoneForgotten
  <2>3. \A f \in Files : f \in printed \/ before[f] = "new"
    BY <1>1, <2>1, <2>2 DEF CInv, ComparedTold
  <2> QED
    BY <2>2, <2>3 DEF CInv, PrintedTrue, Types
<1>5. StatusTold'
  <2>1. mode \in {"generate", "check"}
    BY DEF CInv, Types
  <2> QED
    BY <1>1, <1>2, <1>3, <1>4, <2>1 DEF StatusTold, AllWell, files
<1>6. Types' /\ SourceKept' /\ WrittenFirst' /\ AnnouncedLast' /\ NoneForgotten'
  BY <1>1 DEF CInv, Types, SourceKept, WrittenFirst, AnnouncedLast, NoneForgotten, Made,
              files, channels, MainPlaces
<1>7. DiffsTrue' /\ PrintedTrue' /\ ComparedTold' /\ JoinedDone'
  BY <1>1 DEF CInv, DiffsTrue, PrintedTrue, ComparedTold, JoinedDone, files, channels
<1>8. Phases'
  BY <1>1, <1>3 DEF Phases
<1> QED
  BY <1>5, <1>6, <1>7, <1>8 DEF CInv

-----------------------------------------------------------------------------
(* The theorems.                                                           *)

\* The inductive invariant of the code generator.
THEOREM Inductive == Spec => []CInv
<1>1. Init => CInv
  <2> SUFFICES ASSUME Init PROVE CInv
    OBVIOUS
  <2>1. Types
    BY DEF Init, Types, Contents, GenPlaces, MainPlaces
  <2>2. Range(completed) = {} /\ Range(diffs) = {}
    BY EmptyIs DEF Init
  <2> QED
    BY <2>1, <2>2 DEF Init, CInv, SourceKept, WrittenFirst, AnnouncedLast, NoneForgotten,
                      DiffsTrue, PrintedTrue, ComparedTold, Phases, JoinedDone, StatusTold
<1>2. CInv /\ [Next]_vars => CInv'
  <2> SUFFICES ASSUME CInv, [Next]_vars PROVE CInv'
    OBVIOUS
  <2>1. CASE UNCHANGED vars
    BY <2>1 DEF CInv, Types, SourceKept, WrittenFirst, AnnouncedLast, NoneForgotten,
                DiffsTrue, PrintedTrue, ComparedTold, Phases, AllEnded, JoinedDone, StatusTold,
                AllWell, Made, vars, files, channels
  <2>2. CASE Next
    BY <2>2, CreateInv, GenerateInv, FormatInv, RewriteInv, PanicInv, SendInv, ComparisonInv,
       StartInv, SpawnComparisonInv, SpawningEndsInv, CollectInv, UnwindInv,
       CollectingEndsInv, JoinInv, ReturnInv
       DEF Next, MainThread, Generator
  <2> QED
    BY <2>1, <2>2
<1> QED
  BY <1>1, <1>2, PTL DEF Spec

\* A comparison reads a file that is complete.
THEOREM Compared == Spec => []ComparedWhenComplete
<1>1. CInv => ComparedWhenComplete
  BY DEF CInv, Types, Phases, AnnouncedLast, WrittenFirst, Made, ComparedWhenComplete, Running
<1> QED
  BY <1>1, Inductive, PTL

\* The exit code of the check mode is true of the source tree, which is as it was.
THEOREM Verdict == Spec => []CheckVerdict
<1>1. CInv => CheckVerdict
  BY DEF CInv, SourceKept, StatusTold, CheckVerdict
<1> QED
  BY <1>1, Inductive, PTL

\* No failure of a generator or comparison is a success or a difference.
THEOREM Reported == Spec => []FailureIsReported
<1>1. CInv => FailureIsReported
  <2> SUFFICES ASSUME CInv, main = "exited" PROVE FailureIsReported
    BY DEF FailureIsReported
  <2>1. Failed => ~ AllWell
    BY DEF Failed, AllWell
  <2>2. mode = "generate" /\ AllWell => \A f \in Files : local[f] = "new"
    BY DEF AllWell, CInv, WrittenFirst, Made
  <2> QED
    BY <2>1, <2>2 DEF CInv, StatusTold, FailureIsReported
<1> QED
  BY <1>1, Inductive, PTL

-----------------------------------------------------------------------------
(* The channels are bounded: each file goes through each of them once.     *)

CompletedOnce ==
  /\ \A i, j \in DOMAIN completed : completed[i] = completed[j] => i = j
  /\ \A i \in DOMAIN completed : cmp[completed[i]] = "none"
DiffsOnce ==
  /\ \A i, j \in DOMAIN diffs : diffs[i].file = diffs[j].file => i = j
  /\ \A i \in DOMAIN diffs : cmp[diffs[i].file] = "done"

\* What TypeOK says of variables that CInv does not need.
Values ==
  /\ before \in [Files -> {"absent", "old", "new"}]
  /\ status \in {"none", "success", "different", "panic"}

ChannelInv == CompletedOnce /\ DiffsOnce /\ Values

LEMMA CountTo == ASSUME NEW n \in Nat PROVE IsFiniteSet(1..n) /\ Cardinality(1..n) = n
BY FS_Interval

\* There are no more different files than tasks.
LEMMA AtMostAll ==
  ASSUME NEW n \in Nat, NEW h \in [1..n -> Files],
         \A i, j \in 1..n : h[i] = h[j] => i = j
  PROVE  n <= Len(Tasks)
<1>1. Len(Tasks) \in Nat /\ DOMAIN Tasks = 1..Len(Tasks) /\ Tasks \in [1..Len(Tasks) -> Files]
  OBVIOUS
<1>2. Tasks \in Surjection(1..Len(Tasks), Files)
  BY <1>1 DEF Surjection, Files, Range
<1>3. IsFiniteSet(1..Len(Tasks)) /\ Cardinality(1..Len(Tasks)) = Len(Tasks)
  BY <1>1, CountTo
<1>4. IsFiniteSet(Files) /\ Cardinality(Files) <= Len(Tasks)
  BY <1>2, <1>3, FS_Surjection
<1>5. h \in Injection(1..n, Files)
  BY DEF Injection, IsInjective
<1>6. Cardinality(1..n) <= Cardinality(Files)
  BY <1>4, <1>5, FS_Injection
<1>7. Cardinality(1..n) = n /\ Cardinality(Files) \in Nat
  BY <1>4, CountTo, FS_CardinalityType
<1> QED
  BY <1>1, <1>4, <1>6, <1>7

\* The parts of a channel after a message is sent.
LEMMA SentAt ==
  ASSUME NEW S, NEW s \in Seq(S), NEW e \in S
  PROVE  \E n \in Nat : /\ DOMAIN s = 1..n /\ DOMAIN Append(s, e) = 1..n + 1
                        /\ \A i \in 1..n : Append(s, e)[i] = s[i]
                        /\ Append(s, e)[n + 1] = e
                        /\ \A i \in 1..n + 1 : i \in 1..n \/ i = n + 1
<1>1. /\ Append(s, e) \in Seq(S)
      /\ Len(Append(s, e)) = Len(s) + 1
      /\ \A i \in 1..Len(s) : Append(s, e)[i] = s[i]
      /\ Append(s, e)[Len(s) + 1] = e
  BY AppendProperties
<1>2. DOMAIN s = 1..Len(s) /\ DOMAIN Append(s, e) = 1..Len(s) + 1 /\ Len(s) \in Nat
  BY <1>1
<1>3. \A i \in 1..Len(s) + 1 : i \in 1..Len(s) \/ i = Len(s) + 1
  BY <1>2
<1> QED
  BY <1>1, <1>2, <1>3, Zenon

\* And after one is received.
LEMMA ReceivedAt ==
  ASSUME NEW S, NEW s \in Seq(S), s # <<>>
  PROVE  /\ 1 \in DOMAIN s /\ s[1] = Head(s)
         /\ \A i \in DOMAIN Tail(s) : i \in Nat /\ i + 1 \in DOMAIN s /\ Tail(s)[i] = s[i + 1]
                                      /\ i + 1 # 1
<1>1. Len(s) \in Nat \ {0} /\ DOMAIN s = 1..Len(s) /\ DOMAIN Tail(s) = 1..Len(s) - 1
  OBVIOUS
<1> QED
  BY <1>1

\* A generator that has not announced its file leaves the channels alone.
LEMMA SendOnce ==
  ASSUME CInv, ChannelInv, NEW f \in Files, Send(f), main # "exited"
  PROVE  ChannelInv'
<1>1. /\ gen[f] = "send"
      /\ UNCHANGED <<mode, files, diffs, cmp, main, joined, printed, status>>
      /\ completed' = completed \/ completed' = Append(completed, f)
  BY DEF Send, Step
<1>2. f \notin Range(completed) /\ cmp[f] = "none"
  BY <1>1, AtWork
<1>3. DiffsOnce' /\ Values'
  BY <1>1 DEF ChannelInv, DiffsOnce, Values, files
<1>4. CASE completed' = completed
  BY <1>1, <1>3, <1>4 DEF ChannelInv, CompletedOnce
<1>5. CASE completed' = Append(completed, f)
  <2>1. completed \in Seq(Files)
    BY DEF CInv, Types
  <2>2. PICK n \in Nat :
          /\ DOMAIN completed = 1..n /\ DOMAIN completed' = 1..n + 1
          /\ \A i \in 1..n : completed'[i] = completed[i]
          /\ completed'[n + 1] = f
          /\ \A i \in 1..n + 1 : i \in 1..n \/ i = n + 1
    BY <1>5, <2>1, SentAt
  <2>3. \A i \in 1..n : completed[i] # f
    BY <1>2, <2>2 DEF Range
  <2>4. CompletedOnce'
    BY <1>1, <1>2, <2>2, <2>3 DEF ChannelInv, CompletedOnce
  <2> QED
    BY <1>3, <2>4 DEF ChannelInv
<1> QED
  BY <1>1, <1>4, <1>5

\* A comparison that ends sends at most one message, and had sent none.
LEMMA CompareOnce ==
  ASSUME CInv, ChannelInv, NEW f \in Files, Comparison(f)
  PROVE  ChannelInv'
<1> DEFINE message == [file |-> f, differs |-> local[f] # temp[f]]
<1>1. PICK pc \in {"done", "panicked"} :
        /\ cmp[f] = "running" /\ cmp' = [cmp EXCEPT ![f] = pc]
        /\ UNCHANGED <<files, completed, status>>
        /\ diffs' = diffs \/ (pc = "done" /\ diffs' = Append(diffs, message))
  BY DEF Comparison, Compare, ComparePanics, Report
<1>2. message \in DiffRecords /\ message.file = f
  BY DEF DiffRecords
<1> HIDE DEF message
<1>3. /\ cmp'[f] = pc /\ \A g \in Files \ {f} : cmp'[g] = cmp[g]
  BY <1>1 DEF CInv, Types
<1>4. completed \in Seq(Files) /\ diffs \in Seq(DiffRecords)
  BY DEF CInv, Types
<1>5. CompletedOnce' /\ Values'
  <2>1. \A i \in DOMAIN completed : completed[i] \in Files \ {f}
    BY <1>1, <1>4 DEF ChannelInv, CompletedOnce
  <2> QED
    BY <1>1, <1>3, <2>1 DEF ChannelInv, CompletedOnce, Values, files
<1>6. \A i \in DOMAIN diffs : diffs[i].file \in Files \ {f}
  <2>1. \A i \in DOMAIN diffs : diffs[i] \in DiffRecords
    BY <1>4
  <2> QED
    BY <1>1, <2>1 DEF ChannelInv, DiffsOnce, DiffRecords
<1>7. CASE diffs' = diffs
  BY <1>3, <1>5, <1>6, <1>7 DEF ChannelInv, DiffsOnce
<1>8. CASE pc = "done" /\ diffs' = Append(diffs, message)
  <2>1. PICK n \in Nat :
          /\ DOMAIN diffs = 1..n /\ DOMAIN diffs' = 1..n + 1
          /\ \A i \in 1..n : diffs'[i] = diffs[i]
          /\ diffs'[n + 1] = message
          /\ \A i \in 1..n + 1 : i \in 1..n \/ i = n + 1
    BY <1>2, <1>4, <1>8, SentAt
  <2>2. \A i \in 1..n : diffs[i].file # f /\ cmp'[diffs[i].file] = "done"
    BY <1>3, <1>6, <2>1 DEF ChannelInv, DiffsOnce
  <2>3. DiffsOnce'
    BY <1>2, <1>3, <1>8, <2>1, <2>2 DEF ChannelInv, DiffsOnce
  <2> QED
    BY <1>5, <2>3 DEF ChannelInv
<1> QED
  BY <1>1, <1>7, <1>8

\* A comparison starts for the first file of the channel.
LEMMA SpawnComparisonOnce == ASSUME CInv, ChannelInv, SpawnComparison PROVE ChannelInv'
<1>1. /\ completed # <<>> /\ completed' = Tail(completed)
      /\ cmp' = [cmp EXCEPT ![Head(completed)] = "running"]
      /\ UNCHANGED <<files, diffs, status>>
  BY DEF SpawnComparison
<1>2. completed \in Seq(Files) /\ diffs \in Seq(DiffRecords)
  BY DEF CInv, Types
<1>3. PICK f \in Files : f = Head(completed)
  BY <1>1, <1>2, ReceivedIs
<1>4. /\ cmp[f] = "none" /\ \A g \in Files \ {f} : cmp'[g] = cmp[g]
  <2>1. cmp[f] = "none"
    BY <1>1, <1>2, <1>3, ReceivedAt DEF ChannelInv, CompletedOnce
  <2> QED
    BY <1>1, <1>3, <2>1 DEF CInv, Types
<1>5. CompletedOnce'
  <2>1. /\ 1 \in DOMAIN completed /\ completed[1] = f
        /\ \A i \in DOMAIN completed' :
             i \in Nat /\ i + 1 \in DOMAIN completed /\ completed'[i] = completed[i + 1] /\ i + 1 # 1
    BY <1>1, <1>2, <1>3, ReceivedAt
  <2>2. \A i \in DOMAIN completed' : completed'[i] \in Files \ {f}
    BY <1>2, <2>1 DEF ChannelInv, CompletedOnce
  <2>3. \A i, j \in DOMAIN completed' : completed'[i] = completed'[j] => i = j
    BY <2>1 DEF ChannelInv, CompletedOnce
  <2>4. \A i \in DOMAIN completed' : cmp'[completed'[i]] = "none"
    BY <1>4, <2>1, <2>2 DEF ChannelInv, CompletedOnce
  <2> QED
    BY <2>3, <2>4 DEF CompletedOnce
<1>6. DiffsOnce'
  <2>1. \A i \in DOMAIN diffs : diffs[i].file \in Files \ {f}
    <3>1. \A i \in DOMAIN diffs : diffs[i] \in DiffRecords
      BY <1>2
    <3> QED
      BY <1>4, <3>1 DEF ChannelInv, DiffsOnce, DiffRecords
  <2> QED
    BY <1>1, <1>4, <2>1 DEF ChannelInv, DiffsOnce
<1> QED
  BY <1>1, <1>5, <1>6 DEF ChannelInv, Values, files

\* A message is read, or all are thrown away.
LEMMA CollectOnce == ASSUME CInv, ChannelInv, Collect \/ PrintPanics PROVE ChannelInv'
<1>1. /\ (diffs # <<>> /\ diffs' = Tail(diffs)) \/ diffs' = <<>>
      /\ UNCHANGED <<files, completed, cmp, status>>
  BY DEF Collect, PrintPanics
<1>2. diffs \in Seq(DiffRecords)
  BY DEF CInv, Types
<1>3. CompletedOnce' /\ Values'
  BY <1>1 DEF ChannelInv, CompletedOnce, Values, files
<1>4. CASE diffs' = <<>>
  <2>1. DOMAIN diffs' = {}
    BY <1>4
  <2> QED
    BY <1>3, <2>1 DEF ChannelInv, DiffsOnce
<1>5. CASE diffs # <<>> /\ diffs' = Tail(diffs)
  <2>1. \A i \in DOMAIN diffs' : i \in Nat /\ i + 1 \in DOMAIN diffs /\ diffs'[i] = diffs[i + 1]
    BY <1>2, <1>5, ReceivedAt
  <2>2. DiffsOnce'
    BY <1>1, <2>1 DEF ChannelInv, DiffsOnce
  <2> QED
    BY <1>3, <2>2 DEF ChannelInv
<1> QED
  BY <1>1, <1>4, <1>5

\* The other steps leave both channels and the comparisons alone.
LEMMA OtherOnce ==
  ASSUME CInv, ChannelInv,
         \/ UNCHANGED vars
         \/ \E f \in Files : CreateFile(f) \/ Generate(f) \/ Format(f) \/ Rewrite(f)
                             \/ GeneratorPanics(f)
         \/ SpawnGenerators \/ PrepareFails \/ SpawningEnds \/ CollectingEnds \/ Unwind
         \/ Join \/ Return
  PROVE  ChannelInv'
<1>1. UNCHANGED <<completed, diffs, cmp, before>>
  BY DEF vars, files, channels, CreateFile, Generate, Format, Rewrite, GeneratorPanics, Step,
         Write, SpawnGenerators, PrepareFails, SpawningEnds, CollectingEnds, Unwind, Join, Return
<1>2. UNCHANGED status \/ status' \in {"success", "different", "panic"}
  BY DEF vars, CreateFile, Generate, Format, Rewrite, GeneratorPanics, Step, Exit,
         SpawnGenerators, PrepareFails, SpawningEnds, CollectingEnds, Unwind, Join, Return
<1> QED
  BY <1>1, <1>2 DEF ChannelInv, CompletedOnce, DiffsOnce, Values

\* The types, with the bound on the channels.
THEOREM TypeCorrect == Spec => []TypeOK
<1>1. Init => ChannelInv
  <2>1. DOMAIN <<>> = {}
    OBVIOUS
  <2> QED
    BY <2>1 DEF Init, ChannelInv, CompletedOnce, DiffsOnce, Values
<1>2. CInv /\ ChannelInv /\ [Next]_vars => ChannelInv'
  BY SendOnce, CompareOnce, SpawnComparisonOnce, CollectOnce, OtherOnce
     DEF Next, MainThread, Generator
<1>3. CInv /\ ChannelInv => TypeOK
  <2> SUFFICES ASSUME CInv, ChannelInv PROVE TypeOK
    OBVIOUS
  <2>1. /\ completed \in Seq(Files) /\ Len(completed) \in Nat
        /\ DOMAIN completed = 1..Len(completed)
        /\ completed \in [1..Len(completed) -> Files]
    BY DEF CInv, Types
  <2>2. Len(completed) <= Len(Tasks)
    BY <2>1, AtMostAll DEF ChannelInv, CompletedOnce
  <2>3. diffs \in Seq(DiffRecords) /\ Len(diffs) \in Nat /\ DOMAIN diffs = 1..Len(diffs)
    BY DEF CInv, Types
  <2>4. Len(diffs) <= Len(Tasks)
    <3> DEFINE h == [i \in 1..Len(diffs) |-> diffs[i].file]
    <3>1. \A i \in 1..Len(diffs) : diffs[i].file \in Files
      <4>1. \A i \in 1..Len(diffs) : diffs[i] \in DiffRecords
        BY <2>3
      <4> QED
        BY <4>1 DEF DiffRecords
    <3>2. h \in [1..Len(diffs) -> Files]
      BY <3>1
    <3>3. \A i, j \in 1..Len(diffs) : h[i] = h[j] => i = j
      BY <2>3 DEF ChannelInv, DiffsOnce
    <3> HIDE DEF h
    <3> QED
      BY <2>3, <3>2, <3>3, AtMostAll
  <2> QED
    BY <2>1, <2>2, <2>3, <2>4
       DEF CInv, Types, ChannelInv, Values, TypeOK, GenPlaces, MainPlaces, DiffRecords
<1> QED
  BY <1>1, <1>2, <1>3, Inductive, PTL DEF Spec
=============================================================================
