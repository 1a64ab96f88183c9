------------------------- MODULE SourceUpdate_proofs -------------------------
(***************************************************************************)
(* Proofs about SourceUpdate: the executable, its sources and the site's   *)
(* own files come through every update, failure, crash and retry, for any  *)
(* number of releases, files and requests that start an update.            *)
(***************************************************************************)
EXTENDS SourceUpdate, TLAPS

\* run_update is one task at a time and dies with its process.
Exclusive ==
    /\ \A s \in Starters : task[s].pc # "none" => running /\ proc # 0
    /\ \A s, t \in Starters : task[s].pc # "none" /\ task[t].pc # "none" => s = t

\* What a task q has achieved when it gets to each of its steps.
TaskOK(q) ==
    /\ q.pc \in {"download", "extract", "compile", "prepare", "preparing", "copy", "remove",
                 "backup", "activate", "restart", "spawn", "sleep"} =>
         q.target \in Versions /\ q.target > proc
    /\ q.pc \in {"copy", "remove", "backup", "activate"} => file["new"] = Whole(q.target)
    /\ q.pc = "copy" => \A p \in Sources \ q.todo : tree[p] = Whole(q.target)
    /\ q.pc \in {"remove", "backup", "activate", "restart", "spawn", "sleep"} =>
         \A p \in Sources : tree[p] = Whole(q.target)
    /\ q.pc # "copy" => q.writing = {}
    /\ \A p \in q.writing : tree[p] # Local
    /\ q.pc = "activate" =>
         /\ file["exe"] = Absent
         /\ file["previous"].kind = "whole" /\ file["previous"].version >= proc
    /\ q.pc \in {"restart", "spawn", "sleep"} => file["exe"] = Whole(q.target)
TasksOK == \A s \in Starters : TaskOK(task[s])

\* A replacement waits only while its parent sleeps, or after it has ended.
ChildOK ==
    child # 0 => /\ file["exe"] = Whole(child)
                 /\ proc = 0 \/ \E s \in Starters : task[s].pc = "sleep"

IInv ==
    /\ TypeOK
    /\ Exclusive
    /\ TasksOK
    /\ file["previous"].kind \in {"whole", "absent"}
    /\ \A p \in Sources : tree[p] # Local
    /\ ChildOK
    /\ ExecutableSurvives
    /\ InstalledNotOlder

-----------------------------------------------------------------------------
LEMMA ContentFacts ==
    /\ Absent \in Contents /\ Torn \in Contents /\ Local \in Contents
    /\ \A v \in Versions : Whole(v) \in Contents
    /\ \A v : Whole(v).kind = "whole" /\ Whole(v).version = v /\ Whole(v) # Local /\ Whole(v) # Absent
    /\ Absent.kind = "absent" /\ Torn.kind = "torn" /\ Torn # Local
    /\ Absent # Local
  BY DEF Contents, Absent, Torn, Local, Whole

LEMMA WholeContents ==
    ASSUME NEW c \in Contents, c.kind = "whole"
    PROVE  c.version \in Versions /\ c = Whole(c.version)
  BY DEF Contents, Absent, Torn, Local, Whole

LEMMA FileTypes ==
    ASSUME TypeOK
    PROVE  /\ file["exe"] \in Contents /\ file["new"] \in Contents /\ file["previous"] \in Contents
           /\ proc \in Nat /\ child \in Nat
           /\ \A s \in Starters : task[s] \in Task /\ task[s].pc \in Pcs
                /\ task[s].target \in 0..MaxVersion /\ task[s].todo \subseteq Paths
                /\ task[s].writing \subseteq Paths
  BY UpdateConstants DEF TypeOK, Task

LEMMA NoTaskFacts ==
    /\ NoTask \in Task /\ NoTask.pc = "none" /\ TaskOK(NoTask)
    /\ LET q == [NoTask EXCEPT !.pc = "release"]
       IN  q \in Task /\ q.pc = "release" /\ TaskOK(q)
<1>1. NoTask \in Task /\ NoTask.pc = "none" /\ TaskOK(NoTask)
  BY UpdateConstants DEF NoTask, Task, Pcs, TaskOK
<1> DEFINE q == [NoTask EXCEPT !.pc = "release"]
<1>2. q \in Task /\ q.pc = "release" /\ q.writing = {}
  BY <1>1 DEF Task, Pcs, NoTask
<1> HIDE DEF q
<1>3. TaskOK(q)
  BY <1>2 DEF TaskOK
<1>4. QED
  BY <1>1, <1>2, <1>3 DEF q

LEMMA InitIInv == Init => IInv
<1> SUFFICES ASSUME Init PROVE IInv
  OBVIOUS
<1>1. 1 \in Versions /\ 1 \in 0..MaxVersion /\ 0 \in 0..MaxVersion
  BY UpdateConstants DEF Versions
<1>2. file["exe"] = Whole(1) /\ file["new"] = Absent /\ file["previous"] = Absent
  BY DEF Init
<1>3. \A p \in Paths : tree[p] \in {Whole(1), Local, Absent} /\ (tree[p] = Whole(1) <=> p \in Sources)
  BY DEF Init
<1>4. TypeOK
  <2>1. file \in [{"exe", "new", "previous"} -> Contents]
    BY <1>1, ContentFacts DEF Init
  <2>2. tree \in [Paths -> Contents]
    BY <1>1, ContentFacts DEF Init
  <2>3. QED
    BY <1>1, <2>1, <2>2, NoTaskFacts DEF Init, TypeOK, Phases
<1>5. Exclusive /\ TasksOK
  BY NoTaskFacts DEF Init, Exclusive, TasksOK
<1>6. file["previous"].kind \in {"whole", "absent"}
  BY <1>2, ContentFacts
<1>7. \A p \in Sources : tree[p] # Local
  BY <1>3, ContentFacts DEF Paths
<1>8. ChildOK /\ ExecutableSurvives /\ InstalledNotOlder
  BY <1>2, ContentFacts DEF Init, ChildOK, ExecutableSurvives, InstalledNotOlder
<1>9. QED
  BY <1>4, <1>5, <1>6, <1>7, <1>8 DEF IInv

-----------------------------------------------------------------------------
\* No other task is under way, and no replacement waits before this one has
\* started it.
LEMMA Alone ==
    ASSUME IInv, NEW s \in Starters, proc # 0, task[s].pc # "none" \/ ~running
    PROVE  /\ \A t \in Starters : t # s => task[t].pc = "none"
           /\ task[s].pc # "sleep" => child = 0
  BY DEF IInv, Exclusive, ChildOK

\* A step of task s, which is q afterwards.
LEMMA TaskStep ==
    ASSUME IInv, NEW s \in Starters, NEW q \in Task, proc # 0,
           task[s].pc # "none" \/ ~running, task[s].pc # "sleep",
           task' = [task EXCEPT ![s] = q], q.pc # "none" => running', running' \in BOOLEAN,
           proc' = proc, optIn' = optIn, child' \in 0..MaxVersion,
           file' \in [{"exe", "new", "previous"} -> Contents],
           tree' \in [Paths -> Contents], stranded' \in BOOLEAN, phase' \in Phases,
           TaskOK(q)',
           file'["previous"].kind \in {"whole", "absent"},
           \A p \in Sources : tree'[p] # Local,
           child' # 0 => file'["exe"] = Whole(child') /\ q.pc = "sleep",
           ExecutableSurvives', InstalledNotOlder'
    PROVE  IInv'
<1>1. \A t \in Starters : t # s => task[t].pc = "none" /\ task'[t] = task[t] /\ TaskOK(task[t])
  BY Alone DEF IInv, TypeOK, TasksOK
<1>2. task' \in [Starters -> Task] /\ task'[s] = q
  BY DEF IInv, TypeOK
<1>3. TypeOK'
  BY <1>2 DEF IInv, TypeOK
<1>4. Exclusive'
  BY <1>1, <1>2 DEF Exclusive
<1>5. TasksOK'
  <2>1. SUFFICES ASSUME NEW t \in Starters PROVE TaskOK(task[t])'
    BY DEF TasksOK
  <2>2. CASE t = s
    BY <1>2, <2>2 DEF TaskOK
  <2>3. CASE t # s
    BY <1>1, <2>3 DEF TaskOK
  <2>4. QED
    BY <2>2, <2>3
<1>6. ChildOK'
  BY <1>2 DEF ChildOK
<1>7. QED
  BY <1>3, <1>4, <1>5, <1>6 DEF IInv

\* A step that leaves the disk alone.
LEMMA MemoryStep ==
    ASSUME IInv, NEW s \in Starters, NEW q \in Task, proc # 0,
           task[s].pc # "none" \/ ~running, task[s].pc \notin {"sleep", "activate"},
           task' = [task EXCEPT ![s] = q], q.pc # "none" => running', running' \in BOOLEAN,
           phase' \in Phases, TaskOK(q),
           UNCHANGED <<disk, process>>
    PROVE  IInv'
<1>1. UNCHANGED <<file, tree, stranded, proc, child, optIn>>
  BY DEF disk, process
<1>2. TaskOK(q)'
  BY <1>1 DEF TaskOK
<1>3. child = 0
  BY Alone
<1>4. ExecutableSurvives' /\ InstalledNotOlder'
  BY <1>1 DEF IInv, ExecutableSurvives, InstalledNotOlder
<1>5. QED
  BY <1>1, <1>2, <1>3, <1>4, TaskStep DEF IInv, TypeOK

\* Goto moves the program counter and nothing else of the task.
LEMMA GotoFacts ==
    ASSUME IInv, NEW s \in Starters, NEW pc \in Pcs, Goto(s, pc)
    PROVE  \E q \in Task : /\ task' = [task EXCEPT ![s] = q]
                           /\ q.pc = pc /\ q.target = task[s].target /\ q.todo = task[s].todo
                           /\ q.writing = task[s].writing
<1> DEFINE q == [task[s] EXCEPT !.pc = pc]
<1>1. task' = [task EXCEPT ![s] = q]
  BY DEF Goto, IInv, TypeOK
<1>2. q \in Task /\ q.pc = pc /\ q.target = task[s].target /\ q.todo = task[s].todo
      /\ q.writing = task[s].writing
  BY FileTypes DEF IInv, Task
<1>3. QED
  BY <1>1, <1>2

LEMMA StartInv ==
    ASSUME IInv, NEW s \in Starters, Start(s) \/ Reset(s) \/ Begin(s)
    PROVE  IInv'
<1>1. TaskOK(task[s]) /\ task[s] \in Task /\ phase \in Phases
  BY FileTypes DEF IInv, TasksOK, TypeOK
<1>2. CASE Start(s)
  <2>1. /\ proc # 0 /\ task[s].pc = "none" /\ ~running /\ running' = TRUE
        /\ UNCHANGED <<disk, process>> /\ phase' = phase /\ Goto(s, "reset")
    BY <1>2 DEF Start, At
  <2>2. PICK q \in Task : /\ task' = [task EXCEPT ![s] = q]
                          /\ q.pc = "reset" /\ q.writing = task[s].writing
    BY <2>1, GotoFacts DEF Pcs
  <2>3. TaskOK(q)
    BY <1>1, <2>1, <2>2 DEF TaskOK
  <2>4. QED
    BY <1>1, <2>1, <2>2, <2>3, MemoryStep
<1>3. CASE Reset(s)
  <2>1. /\ proc # 0 /\ task[s].pc = "reset" /\ running' = running
        /\ UNCHANGED <<disk, process>> /\ phase' = "checking" /\ Goto(s, "begin")
    BY <1>3 DEF Reset, At
  <2>2. PICK q \in Task : /\ task' = [task EXCEPT ![s] = q]
                          /\ q.pc = "begin" /\ q.writing = task[s].writing
    BY <2>1, GotoFacts DEF Pcs
  <2>3. TaskOK(q)
    BY <1>1, <2>1, <2>2 DEF TaskOK
  <2>4. QED
    BY <2>1, <2>2, <2>3, MemoryStep DEF IInv, Exclusive, TypeOK, Phases
<1>4. CASE Begin(s)
  <2>1. /\ proc # 0 /\ task[s].pc = "begin" /\ running' = running
        /\ UNCHANGED <<disk, process>> /\ phase' = "checking" /\ Goto(s, "lookup")
    BY <1>4 DEF Begin, At
  <2>2. PICK q \in Task : /\ task' = [task EXCEPT ![s] = q]
                          /\ q.pc = "lookup" /\ q.writing = task[s].writing
    BY <2>1, GotoFacts DEF Pcs
  <2>3. TaskOK(q)
    BY <1>1, <2>1, <2>2 DEF TaskOK
  <2>4. QED
    BY <2>1, <2>2, <2>3, MemoryStep DEF IInv, Exclusive, TypeOK, Phases
<1>5. QED
  BY <1>2, <1>3, <1>4

LEMMA StopInv ==
    ASSUME IInv, NEW s \in Starters, StartDropped(s) \/ StepFails(s) \/ Release(s)
    PROVE  IInv'
<1>1. running /\ running \in BOOLEAN /\ phase \in Phases
  BY DEF StartDropped, StepFails, Release, At, IInv, Exclusive, TypeOK
<1>2. CASE StartDropped(s)
  <2>1. /\ proc # 0 /\ task[s].pc = "reset" /\ running' = running
        /\ UNCHANGED <<disk, process>> /\ phase' = phase /\ task' = [task EXCEPT ![s] = NoTask]
    BY <1>2 DEF StartDropped, At
  <2>2. QED
    BY <1>1, <2>1, NoTaskFacts, MemoryStep
<1>3. CASE StepFails(s)
  <2>1. /\ proc # 0 /\ task[s].pc \notin {"none", "sleep", "activate"} /\ running' = running
        /\ UNCHANGED <<disk, process>> /\ phase' \in Phases
        /\ task' = [task EXCEPT ![s] = [NoTask EXCEPT !.pc = "release"]]
    BY <1>3 DEF StepFails, Fail, Phases
  <2>2. QED
    BY <1>1, <2>1, NoTaskFacts, MemoryStep
<1>4. CASE Release(s)
  <2>1. /\ proc # 0 /\ task[s].pc = "release" /\ running' = FALSE
        /\ UNCHANGED <<disk, process>> /\ phase' = phase /\ task' = [task EXCEPT ![s] = NoTask]
    BY <1>4 DEF Release, At
  <2>2. QED
    BY <1>1, <2>1, NoTaskFacts, MemoryStep
<1>5. QED
  BY <1>2, <1>3, <1>4

LEMMA LookupInv ==
    ASSUME IInv, NEW s \in Starters, NEW v \in Versions, Lookup(s, v)
    PROVE  IInv'
<1>1. /\ proc # 0 /\ task[s].pc = "lookup" /\ UNCHANGED <<disk, process>> /\ running' = running
      /\ running /\ running \in BOOLEAN /\ TaskOK(task[s]) /\ task[s] \in Task
  BY FileTypes DEF Lookup, At, IInv, Exclusive, TypeOK, TasksOK
<1>2. CASE v <= proc
  <2>1. phase' \in Phases /\ task' = [task EXCEPT ![s] = [NoTask EXCEPT !.pc = "release"]]
    BY <1>2 DEF Lookup, Phases
  <2>2. QED
    BY <1>1, <2>1, NoTaskFacts, MemoryStep
<1>3. CASE ~(v <= proc)
  <2> DEFINE q == [task[s] EXCEPT !.pc = "download", !.target = v]
  <2>1. phase' \in Phases /\ task' = [task EXCEPT ![s] = q]
    BY <1>3 DEF Lookup, Phases, IInv, TypeOK
  <2>2. q \in Task /\ q.pc = "download" /\ q.target = v /\ q.writing = task[s].writing
    <3>1. v \in 0..MaxVersion
      BY UpdateConstants DEF Versions
    <3>2. QED
      BY <1>1, <3>1 DEF Task, Pcs
  <2> HIDE DEF q
  <2>3. v > proc
    BY <1>3, FileTypes, UpdateConstants DEF IInv, Versions
  <2>4. TaskOK(q)
    BY <1>1, <2>2, <2>3 DEF TaskOK
  <2>5. QED
    BY <1>1, <2>1, <2>2, <2>4, MemoryStep
<1>4. QED
  BY <1>2, <1>3

\* Between the lookup and the first write to the installation.
LEMMA AdvanceInv ==
    ASSUME IInv, NEW s \in Starters, Download(s) \/ Extract(s) \/ Compile(s)
    PROVE  IInv'
<1>1. PICK from \in {"download", "extract", "compile"}, to \in {"extract", "compile", "prepare"} :
        \E next \in Phases : Advance(s, from, to, next)
  BY DEF Download, Extract, Compile, Phases
<1>2. /\ proc # 0 /\ task[s].pc = from /\ UNCHANGED <<disk, process>> /\ running' = running
      /\ phase' \in Phases /\ Goto(s, to)
      /\ running /\ running \in BOOLEAN /\ TaskOK(task[s])
  BY <1>1 DEF Advance, At, IInv, Exclusive, TypeOK, TasksOK
<1>3. PICK q \in Task : /\ task' = [task EXCEPT ![s] = q] /\ q.pc = to
                        /\ q.target = task[s].target /\ q.writing = task[s].writing
  BY <1>2, GotoFacts DEF Pcs
<1>4. TaskOK(q)
  BY <1>2, <1>3 DEF TaskOK
<1>5. QED
  BY <1>2, <1>3, <1>4, MemoryStep

LEMMA CopyDoneInv ==
    ASSUME IInv, NEW s \in Starters, CopyDone(s)
    PROVE  IInv'
<1> DEFINE q == [task[s] EXCEPT !.pc = "remove", !.todo = {}]
<1>1. /\ proc # 0 /\ task[s].pc = "copy" /\ task[s].writing = {} /\ task[s].todo = {}
      /\ UNCHANGED <<disk, process>> /\ running' = running /\ phase' = phase
      /\ task' = [task EXCEPT ![s] = q]
      /\ running /\ running \in BOOLEAN /\ phase \in Phases /\ TaskOK(task[s]) /\ task[s] \in Task
  BY FileTypes DEF CopyDone, At, IInv, Exclusive, TypeOK, TasksOK
<1>2. q \in Task /\ q.pc = "remove" /\ q.target = task[s].target /\ q.writing = {}
  BY <1>1 DEF Task, Pcs
<1> HIDE DEF q
<1>3. TaskOK(q)
  BY <1>1, <1>2 DEF TaskOK
<1>4. QED
  BY <1>1, <1>2, <1>3, MemoryStep

LEMMA RestartingInv ==
    ASSUME IInv, NEW s \in Starters, Restarting(s)
    PROVE  IInv'
<1>1. /\ proc # 0 /\ task[s].pc = "restart" /\ UNCHANGED <<disk, process>> /\ running' = running
      /\ phase' \in Phases /\ Goto(s, "spawn")
      /\ running /\ running \in BOOLEAN /\ TaskOK(task[s])
  BY DEF Restarting, Phases, At, IInv, Exclusive, TypeOK, TasksOK
<1>2. PICK q \in Task : /\ task' = [task EXCEPT ![s] = q] /\ q.pc = "spawn"
                        /\ q.target = task[s].target /\ q.writing = task[s].writing
  BY <1>1, GotoFacts DEF Pcs
<1>3. TaskOK(q)
  BY <1>1, <1>2 DEF TaskOK
<1>4. QED
  BY <1>1, <1>2, <1>3, MemoryStep

-----------------------------------------------------------------------------
\* What every step of a task that writes to the disk starts from.
LEMMA Writing ==
    ASSUME IInv, NEW s \in Starters, NEW pc \in Pcs, At(s, pc), pc \notin {"none", "sleep"}
    PROVE  /\ proc # 0 /\ task[s].pc = pc /\ running /\ running \in BOOLEAN /\ child = 0
           /\ task[s] \in Task /\ TaskOK(task[s])
           /\ stranded \in BOOLEAN /\ phase \in Phases
           /\ file \in [{"exe", "new", "previous"} -> Contents] /\ tree \in [Paths -> Contents]
           /\ file["exe"] \in Contents /\ file["new"] \in Contents /\ file["previous"] \in Contents
<1>1. proc # 0 /\ task[s].pc = pc
  BY DEF At
<1>2. child = 0
  BY <1>1, Alone
<1>3. QED
  BY <1>1, <1>2, FileTypes DEF IInv, Exclusive, TasksOK, TypeOK

LEMMA PrepareBeginInv ==
    ASSUME IInv, NEW s \in Starters, PrepareBegin(s)
    PROVE  IInv'
<1>1. /\ At(s, "prepare") /\ Goto(s, "preparing") /\ file' = [file EXCEPT !["new"] = Torn]
      /\ UNCHANGED <<tree, stranded, proc, child, optIn, running, phase>>
  BY DEF PrepareBegin, process
<1>2. PICK q \in Task : /\ task' = [task EXCEPT ![s] = q] /\ q.pc = "preparing"
                        /\ q.target = task[s].target /\ q.writing = task[s].writing
  BY <1>1, GotoFacts DEF Pcs
<1>3. /\ file' \in [{"exe", "new", "previous"} -> Contents]
      /\ file'["exe"] = file["exe"] /\ file'["previous"] = file["previous"]
  BY <1>1, ContentFacts DEF IInv, TypeOK
<1>4. TaskOK(task[s]) /\ task[s].pc = "prepare"
  BY <1>1, Writing DEF Pcs
<1>5. TaskOK(q)'
  BY <1>1, <1>2, <1>4 DEF TaskOK
<1>6. ExecutableSurvives' /\ InstalledNotOlder'
  BY <1>1, <1>3, <1>4 DEF IInv, ExecutableSurvives, InstalledNotOlder
<1>7. QED
  BY <1>1, <1>2, <1>3, <1>4, <1>5, <1>6, Writing, TaskStep DEF IInv, TypeOK, Pcs

LEMMA PrepareEndInv ==
    ASSUME IInv, NEW s \in Starters, PrepareEnd(s)
    PROVE  IInv'
<1>1. /\ At(s, "preparing")
      /\ UNCHANGED <<tree, stranded, proc, child, optIn, running, phase>>
  BY DEF PrepareEnd, process
<1>2. task[s] \in Task /\ task[s].pc = "preparing" /\ TaskOK(task[s])
  BY <1>1, Writing DEF Pcs
<1>3. PICK v \in Versions : v = task[s].target /\ v > proc /\ task[s].writing = {}
  BY <1>2 DEF TaskOK
<1>4. PICK q \in Task : /\ task' = [task EXCEPT ![s] = q]
                        /\ q.pc = "copy" /\ q.target = v /\ q.todo = Paths /\ q.writing = {}
  <2> DEFINE n == [task[s] EXCEPT !.pc = "copy", !.todo = Paths]
  <2>1. n \in Task /\ n.pc = "copy" /\ n.target = v /\ n.todo = Paths /\ n.writing = {}
    BY <1>2, <1>3 DEF Task, Pcs
  <2>2. task' = [task EXCEPT ![s] = n]
    BY DEF PrepareEnd, IInv, TypeOK
  <2>3. QED
    BY <2>1, <2>2
<1>5. /\ file' \in [{"exe", "new", "previous"} -> Contents]
      /\ file'["exe"] = file["exe"] /\ file'["previous"] = file["previous"] /\ file'["new"] = Whole(v)
  BY <1>3, ContentFacts DEF PrepareEnd, IInv, TypeOK
<1>6. TaskOK(q)'
  BY <1>1, <1>3, <1>4, <1>5 DEF TaskOK, Paths
<1>7. ExecutableSurvives' /\ InstalledNotOlder'
  BY <1>1, <1>2, <1>5 DEF IInv, ExecutableSurvives, InstalledNotOlder
<1>8. QED
  BY <1>1, <1>2, <1>4, <1>5, <1>6, <1>7, Writing, TaskStep DEF IInv, TypeOK, Pcs

\* The copy writes to the tree only: no executable is touched.
LEMMA TreeStep ==
    ASSUME IInv, NEW s \in Starters, At(s, "copy"), NEW q \in Task, q.pc = "copy",
           q.target = task[s].target,
           task' = [task EXCEPT ![s] = q],
           UNCHANGED <<file, stranded, process, running, phase>>,
           tree' \in [Paths -> Contents],
           \A p \in Sources \ q.todo : tree'[p] = Whole(q.target),
           \A p \in q.writing : tree'[p] # Local,
           \A p \in Sources : tree'[p] # Local
    PROVE  IInv'
<1>1. UNCHANGED <<file, stranded, proc, child, optIn, running, phase>>
  BY DEF process
<1>2. TaskOK(task[s]) /\ task[s].pc = "copy"
  BY Writing DEF Pcs
<1>3. TaskOK(q)'
  BY <1>1, <1>2 DEF TaskOK
<1>4. ExecutableSurvives' /\ InstalledNotOlder'
  BY <1>1 DEF IInv, ExecutableSurvives, InstalledNotOlder
<1>5. /\ proc # 0 /\ running' /\ running' \in BOOLEAN /\ child' = 0 /\ child' \in 0..MaxVersion
      /\ stranded' \in BOOLEAN /\ phase' \in Phases
      /\ file' \in [{"exe", "new", "previous"} -> Contents]
      /\ file'["previous"].kind \in {"whole", "absent"}
  BY <1>1, <1>2, Writing, UpdateConstants DEF IInv, Pcs
<1>6. task[s].pc # "none" /\ task[s].pc # "sleep" /\ proc' = proc /\ optIn' = optIn
  BY <1>1, <1>2
<1>7. QED
  BY <1>3, <1>4, <1>5, <1>6, TaskStep

\* What one entry of the copy does to the tree: a protected path is skipped,
\* any other one is not the site's own file.
LEMMA CopyBeginFacts ==
    ASSUME IInv, NEW s \in Starters, NEW p \in Paths, CopyBegin(s, p)
    PROVE  \/ /\ ProtectedPath(p) /\ tree' = tree
              /\ task' = [task EXCEPT ![s] = [task[s] EXCEPT !.todo = task[s].todo \ {p}]]
           \/ /\ ~ProtectedPath(p) /\ tree[p] # Local /\ tree' = [tree EXCEPT ![p] = Torn]
              /\ task' = [task EXCEPT ![s] = [task[s] EXCEPT !.writing = {p}]]
<1>1. CASE ProtectedPath(p)
  BY <1>1 DEF CopyBegin, IInv, TypeOK
<1>2. CASE ~ProtectedPath(p)
  <2>1. tree[p] # Local
    BY <1>2, ContentFacts DEF ProtectedPath, IInv, Paths
  <2>2. QED
    BY <1>2, <2>1 DEF CopyBegin, IInv, TypeOK
<1>3. QED
  BY <1>1, <1>2

LEMMA CopyBeginInv ==
    ASSUME IInv, NEW s \in Starters, NEW p \in Paths, CopyBegin(s, p)
    PROVE  IInv'
<1>1. /\ At(s, "copy") /\ p \in task[s].todo /\ task[s].writing = {}
      /\ UNCHANGED <<file, stranded, process, running, phase>>
  BY DEF CopyBegin
<1>2. task[s] \in Task /\ TaskOK(task[s]) /\ task[s].pc = "copy" /\ tree \in [Paths -> Contents]
  BY <1>1, Writing DEF Pcs
<1>3. \A o \in Sources \ task[s].todo : tree[o] = Whole(task[s].target)
  BY <1>2 DEF TaskOK
<1>4. CASE /\ ProtectedPath(p) /\ tree' = tree
           /\ task' = [task EXCEPT ![s] = [task[s] EXCEPT !.todo = task[s].todo \ {p}]]
  <2> DEFINE q == [task[s] EXCEPT !.todo = task[s].todo \ {p}]
  <2>1. /\ q \in Task /\ q.pc = "copy" /\ q.target = task[s].target /\ q.writing = {}
        /\ q.todo = task[s].todo \ {p}
    BY <1>1, <1>2 DEF Task
  <2>2. task' = [task EXCEPT ![s] = q]
    BY <1>4
  <2> HIDE DEF q
  <2>3. p \notin Sources
    BY <1>4, UpdateConstants DEF ProtectedPath
  <2>4. \A o \in Sources \ q.todo : tree'[o] = Whole(q.target)
    BY <1>3, <1>4, <2>1, <2>3
  <2>5. QED
    BY <1>1, <1>2, <1>4, <2>1, <2>2, <2>4, TreeStep DEF IInv
<1>5. CASE /\ ~ProtectedPath(p) /\ tree[p] # Local /\ tree' = [tree EXCEPT ![p] = Torn]
           /\ task' = [task EXCEPT ![s] = [task[s] EXCEPT !.writing = {p}]]
  <2> DEFINE q == [task[s] EXCEPT !.writing = {p}]
  <2>1. /\ q \in Task /\ q.pc = "copy" /\ q.target = task[s].target /\ q.writing = {p}
        /\ q.todo = task[s].todo
    BY <1>1, <1>2 DEF Task
  <2>2. task' = [task EXCEPT ![s] = q]
    BY <1>5
  <2> HIDE DEF q
  <2>3. \A o \in Paths : tree'[o] = IF o = p THEN Torn ELSE tree[o]
    BY <1>2, <1>5
  <2>4. tree' \in [Paths -> Contents]
    BY <1>2, <1>5, ContentFacts
  <2>5. \A o \in Sources \ q.todo : tree'[o] = Whole(q.target)
    BY <1>1, <1>3, <2>1, <2>3 DEF Paths
  <2>6. (\A o \in q.writing : tree'[o] # Local) /\ (\A o \in Sources : tree'[o] # Local)
    BY <2>1, <2>3, ContentFacts DEF IInv, Paths
  <2>7. QED
    BY <1>1, <2>1, <2>2, <2>4, <2>5, <2>6, TreeStep
<1>6. QED
  BY <1>4, <1>5, CopyBeginFacts

LEMMA CopyEndInv ==
    ASSUME IInv, NEW s \in Starters, NEW p \in Paths, CopyEnd(s, p)
    PROVE  IInv'
<1> DEFINE v == task[s].target
           q == [task[s] EXCEPT !.writing = {}, !.todo = task[s].todo \ {p}]
<1>1. /\ At(s, "copy") /\ task[s].writing = {p} /\ tree' = [tree EXCEPT ![p] = Whole(v)]
      /\ UNCHANGED <<file, stranded, process, running, phase>>
  BY DEF CopyEnd
<1>2. task[s] \in Task /\ TaskOK(task[s]) /\ task[s].pc = "copy" /\ tree \in [Paths -> Contents]
  BY <1>1, Writing DEF Pcs
<1>3. task' = [task EXCEPT ![s] = q]
  BY DEF CopyEnd, IInv, TypeOK
<1>4. v \in Versions /\ \A o \in Sources \ task[s].todo : tree[o] = Whole(v)
  BY <1>2 DEF TaskOK
<1>5. /\ q \in Task /\ q.pc = "copy" /\ q.target = v /\ q.writing = {} /\ q.todo = task[s].todo \ {p}
  BY <1>2 DEF Task
<1> HIDE DEF q
<1>6. \A o \in Paths : tree'[o] = IF o = p THEN Whole(v) ELSE tree[o]
  BY <1>1, <1>2
<1>7. tree' \in [Paths -> Contents]
  BY <1>1, <1>2, <1>4, ContentFacts
<1>8. \A o \in Sources \ q.todo : tree'[o] = Whole(q.target)
  BY <1>4, <1>5, <1>6 DEF Paths
<1>9. \A o \in Sources : tree'[o] # Local
  BY <1>6, ContentFacts DEF IInv, Paths
<1>10. QED
  BY <1>1, <1>3, <1>5, <1>7, <1>8, <1>9, TreeStep

\* The renames touch the three executables only.
LEMMA FileStep ==
    ASSUME IInv, NEW s \in Starters, NEW pc \in {"remove", "backup", "activate"}, At(s, pc),
           NEW q \in Task, q.pc # "none", task' = [task EXCEPT ![s] = q],
           UNCHANGED <<tree, process, running>>, phase' \in Phases, stranded' \in BOOLEAN,
           file' \in [{"exe", "new", "previous"} -> Contents],
           TaskOK(q)',
           file'["previous"].kind \in {"whole", "absent"},
           ExecutableSurvives', InstalledNotOlder'
    PROVE  IInv'
<1>1. UNCHANGED <<tree, proc, child, optIn, running>>
  BY DEF process
<1>2. /\ proc # 0 /\ running' /\ running' \in BOOLEAN /\ child' = 0 /\ child' \in 0..MaxVersion
      /\ tree' \in [Paths -> Contents] /\ task[s].pc = pc
  BY <1>1, Writing, UpdateConstants DEF Pcs
<1>3. \A p \in Sources : tree'[p] # Local
  BY <1>1 DEF IInv
<1>4. task[s].pc # "none" /\ task[s].pc # "sleep" /\ proc' = proc /\ optIn' = optIn
  BY <1>1, <1>2
<1>5. QED
  BY <1>2, <1>3, <1>4, TaskStep

LEMMA RemovePreviousInv ==
    ASSUME IInv, NEW s \in Starters, RemovePrevious(s)
    PROVE  IInv'
<1>1. /\ At(s, "remove") /\ Goto(s, "backup") /\ stranded' = (stranded \/ file["exe"] = Absent)
      /\ UNCHANGED <<tree, process, running, phase>> /\ UNCHANGED proc
  BY DEF RemovePrevious, process
<1>2. PICK q \in Task : /\ task' = [task EXCEPT ![s] = q] /\ q.pc = "backup"
                        /\ q.target = task[s].target /\ q.writing = task[s].writing
  BY <1>1, GotoFacts DEF Pcs
<1>3. /\ TaskOK(task[s]) /\ task[s].pc = "remove"
      /\ stranded' \in BOOLEAN /\ phase' \in Phases
  BY <1>1, Writing DEF Pcs
<1>4. /\ file' \in [{"exe", "new", "previous"} -> Contents]
      /\ file'["exe"] = file["exe"] /\ file'["new"] = file["new"] /\ file'["previous"] = Absent
  BY ContentFacts DEF RemovePrevious, IInv, TypeOK
<1>5. TaskOK(q)'
  BY <1>1, <1>2, <1>3, <1>4 DEF TaskOK
<1>6. ExecutableSurvives' /\ InstalledNotOlder'
  BY <1>1, <1>3, <1>4 DEF IInv, ExecutableSurvives, InstalledNotOlder
<1>7. file'["previous"].kind \in {"whole", "absent"}
  BY <1>4, ContentFacts
<1>8. QED
  BY <1>1, <1>2, <1>3, <1>4, <1>5, <1>6, <1>7, FileStep

LEMMA BackupInv ==
    ASSUME IInv, NEW s \in Starters, Backup(s)
    PROVE  IInv'
<1>1. /\ At(s, "backup") /\ file["exe"] # Absent /\ Goto(s, "activate")
      /\ UNCHANGED <<tree, stranded, process, running, phase>> /\ UNCHANGED proc
  BY DEF Backup, process
<1>2. PICK q \in Task : /\ task' = [task EXCEPT ![s] = q] /\ q.pc = "activate"
                        /\ q.target = task[s].target /\ q.writing = task[s].writing
  BY <1>1, GotoFacts DEF Pcs
<1>3. /\ TaskOK(task[s]) /\ task[s].pc = "backup" /\ proc # 0
      /\ stranded' \in BOOLEAN /\ phase' \in Phases
  BY <1>1, Writing DEF Pcs
<1>4. file["exe"].kind = "whole"
  BY <1>1, FileTypes DEF IInv, ExecutableSurvives, Contents, Absent, Torn, Local, Whole
<1>5. /\ file' \in [{"exe", "new", "previous"} -> Contents]
      /\ file'["exe"] = Absent /\ file'["new"] = file["new"] /\ file'["previous"] = file["exe"]
  BY FileTypes, ContentFacts DEF Backup, IInv, TypeOK
<1>6. TaskOK(q)'
  BY <1>1, <1>2, <1>3, <1>4, <1>5 DEF TaskOK, IInv, InstalledNotOlder
<1>7. ExecutableSurvives' /\ InstalledNotOlder'
  BY <1>4, <1>5, ContentFacts DEF ExecutableSurvives, InstalledNotOlder
<1>8. file'["previous"].kind \in {"whole", "absent"}
  BY <1>4, <1>5
<1>9. QED
  BY <1>1, <1>2, <1>3, <1>5, <1>6, <1>7, <1>8, FileStep

LEMMA ActivateInv ==
    ASSUME IInv, NEW s \in Starters, Activate(s)
    PROVE  IInv'
<1>1. /\ At(s, "activate") /\ Goto(s, "restart")
      /\ UNCHANGED <<tree, stranded, process, running, phase>> /\ UNCHANGED proc
  BY DEF Activate, process
<1>2. PICK q \in Task : /\ task' = [task EXCEPT ![s] = q] /\ q.pc = "restart"
                        /\ q.target = task[s].target /\ q.writing = task[s].writing
  BY <1>1, GotoFacts DEF Pcs
<1>3. /\ TaskOK(task[s]) /\ task[s].pc = "activate" /\ proc # 0
      /\ stranded' \in BOOLEAN /\ phase' \in Phases
  BY <1>1, Writing DEF Pcs
<1>4. file["new"] = Whole(q.target) /\ q.target \in Versions /\ q.target > proc
  BY <1>2, <1>3 DEF TaskOK
<1>5. /\ file' \in [{"exe", "new", "previous"} -> Contents]
      /\ file'["exe"] = Whole(q.target) /\ file'["previous"] = file["previous"]
  BY <1>4, FileTypes, ContentFacts DEF Activate, IInv, TypeOK
<1>6. TaskOK(q)'
  BY <1>1, <1>2, <1>3, <1>5 DEF TaskOK
<1>7. ExecutableSurvives' /\ InstalledNotOlder' /\ file'["exe"].kind = "whole"
  <2>1. file'["exe"].kind = "whole" /\ file'["exe"].version = q.target
    BY <1>5, ContentFacts
  <2>2. q.target >= proc'
    BY <1>1, <1>4, FileTypes, UpdateConstants DEF IInv, Versions
  <2>3. QED
    BY <2>1, <2>2, ContentFacts DEF ExecutableSurvives, InstalledNotOlder
<1>8. file'["previous"].kind \in {"whole", "absent"}
  BY <1>5 DEF IInv
<1>9. QED
  BY <1>1, <1>2, <1>3, <1>5, <1>6, <1>7, <1>8, FileStep

LEMMA ActivateFailsInv ==
    ASSUME IInv, NEW s \in Starters, ActivateFails(s)
    PROVE  IInv'
<1>1. /\ At(s, "activate") /\ UNCHANGED <<tree, stranded, process, running>> /\ UNCHANGED proc
      /\ phase' \in Phases /\ task' = [task EXCEPT ![s] = [NoTask EXCEPT !.pc = "release"]]
  BY DEF ActivateFails, Fail, Phases, process
<1>2. PICK q \in Task : task' = [task EXCEPT ![s] = q] /\ q.pc = "release" /\ q.writing = {}
  <2>1. [NoTask EXCEPT !.pc = "release"].writing = {}
    BY DEF NoTask
  <2>2. QED
    BY <1>1, <2>1, NoTaskFacts
<1>3. /\ TaskOK(task[s]) /\ task[s].pc = "activate" /\ proc # 0 /\ stranded \in BOOLEAN
      /\ file \in [{"exe", "new", "previous"} -> Contents]
  BY <1>1, Writing DEF Pcs
<1>4. file["exe"] = Absent /\ file["previous"].kind = "whole" /\ file["previous"].version >= proc
  BY <1>3 DEF TaskOK
<1>5. TaskOK(q)'
  BY <1>2 DEF TaskOK
<1>6. CASE file' = [file EXCEPT !["exe"] = file["previous"], !["previous"] = Absent]
  <2>1. /\ file' \in [{"exe", "new", "previous"} -> Contents]
        /\ file'["exe"] = file["previous"] /\ file'["previous"] = Absent
    BY <1>3, <1>6, ContentFacts
  <2>2. ExecutableSurvives' /\ InstalledNotOlder'
    BY <1>1, <1>4, <2>1, ContentFacts DEF ExecutableSurvives, InstalledNotOlder
  <2>3. file'["previous"].kind \in {"whole", "absent"}
    BY <2>1, ContentFacts
  <2>4. QED
    BY <1>1, <1>2, <1>3, <1>5, <1>6, <2>1, <2>2, <2>3, FileStep
<1>7. CASE UNCHANGED file
  <2>1. ExecutableSurvives' /\ InstalledNotOlder'
    BY <1>4, <1>7, ContentFacts DEF ExecutableSurvives, InstalledNotOlder
  <2>2. file' \in [{"exe", "new", "previous"} -> Contents] /\ file'["previous"].kind \in {"whole", "absent"}
    BY <1>3, <1>4, <1>7
  <2>3. QED
    BY <1>1, <1>2, <1>3, <1>5, <1>7, <2>1, <2>2, FileStep
<1>8. QED
  BY <1>6, <1>7 DEF ActivateFails

LEMMA SpawnInv ==
    ASSUME IInv, NEW s \in Starters, Spawn(s)
    PROVE  IInv'
<1>1. /\ At(s, "spawn") /\ file["exe"].kind = "whole" /\ child' = file["exe"].version /\ Goto(s, "sleep")
      /\ UNCHANGED <<file, tree, stranded, proc, optIn, running, phase>>
  BY DEF Spawn, disk
<1>2. PICK q \in Task : /\ task' = [task EXCEPT ![s] = q] /\ q.pc = "sleep"
                        /\ q.target = task[s].target /\ q.writing = task[s].writing
  BY <1>1, GotoFacts DEF Pcs
<1>3. /\ TaskOK(task[s]) /\ task[s].pc = "spawn" /\ proc # 0 /\ running' /\ running' \in BOOLEAN
      /\ stranded' \in BOOLEAN /\ phase' \in Phases
      /\ file' \in [{"exe", "new", "previous"} -> Contents] /\ tree' \in [Paths -> Contents]
  BY <1>1, Writing DEF Pcs
<1>4. child' \in 0..MaxVersion /\ file'["exe"] = Whole(child') /\ file'["exe"].kind = "whole"
  <2>1. child' \in Versions /\ file["exe"] = Whole(child')
    BY <1>1, FileTypes, WholeContents DEF IInv
  <2>2. QED
    BY <1>1, <2>1, UpdateConstants DEF Versions
<1>5. TaskOK(q)'
  BY <1>1, <1>2, <1>3 DEF TaskOK
<1>6. ExecutableSurvives' /\ InstalledNotOlder'
  BY <1>1 DEF IInv, ExecutableSurvives, InstalledNotOlder
<1>7. file'["previous"].kind \in {"whole", "absent"} /\ \A p \in Sources : tree'[p] # Local
  BY <1>1 DEF IInv
<1>8. task[s].pc # "none" /\ task[s].pc # "sleep" /\ proc' = proc /\ optIn' = optIn
  BY <1>1, <1>3
<1>9. QED
  BY <1>2, <1>3, <1>4, <1>5, <1>6, <1>7, <1>8, TaskStep

-----------------------------------------------------------------------------
\* A process ends or begins: it has no task.  What is on the disk stays, but for
\* the file an administrator may put back.
LEMMA ProcessStep ==
    ASSUME IInv, Fresh, tree' = tree, optIn' = optIn,
           proc' \in 0..MaxVersion, child' \in 0..MaxVersion, stranded' \in BOOLEAN,
           file' \in [{"exe", "new", "previous"} -> Contents],
           file'["previous"].kind \in {"whole", "absent"},
           proc' # 0 => file'["exe"].kind = "whole" /\ file'["exe"].version >= proc',
           child' # 0 => file'["exe"] = Whole(child') /\ proc' = 0,
           ExecutableSurvives'
    PROVE  IInv'
<1>1. \A s \in Starters : task'[s] = NoTask /\ task'[s].pc = "none"
  BY NoTaskFacts DEF Fresh
<1>2. TypeOK'
  BY NoTaskFacts DEF IInv, TypeOK, Fresh, Phases
<1>3. Exclusive' /\ ChildOK' /\ InstalledNotOlder'
  BY <1>1 DEF Exclusive, ChildOK, InstalledNotOlder
<1>4. TasksOK'
  BY <1>1 DEF TasksOK, TaskOK, NoTask
<1>5. \A p \in Sources : tree'[p] # Local
  BY DEF IInv
<1>6. QED
  BY <1>2, <1>3, <1>4, <1>5 DEF IInv

LEMMA EndInv ==
    ASSUME IInv, Crash \/ \E s \in Starters : Shutdown(s)
    PROVE  IInv'
<1>1. proc # 0 /\ proc' = 0 /\ Fresh /\ UNCHANGED <<file, tree, stranded, child, optIn>>
  BY DEF Crash, Shutdown, At, disk
<1>2. 0 \in 0..MaxVersion
  BY UpdateConstants
<1>3. ExecutableSurvives'
  BY <1>1 DEF IInv, ExecutableSurvives
<1>4. child' # 0 => file'["exe"] = Whole(child') /\ proc' = 0
  BY <1>1 DEF IInv, ChildOK
<1>5. QED
  BY <1>1, <1>2, <1>3, <1>4, ProcessStep DEF IInv, TypeOK

LEMMA BeginInv ==
    ASSUME IInv, TakeOver \/ Boot
    PROVE  IInv'
<1>1. Fresh /\ UNCHANGED <<file, tree, stranded, optIn>> /\ child' = 0
  BY DEF TakeOver, Boot, disk
<1>2. file["exe"].kind = "whole" /\ proc' = file["exe"].version
  <2>1. CASE TakeOver
    BY <2>1, ContentFacts DEF TakeOver, IInv, ChildOK
  <2>2. CASE Boot
    BY <2>2 DEF Boot
  <2>3. QED
    BY <2>1, <2>2
<1>3. proc' \in Versions
  BY <1>2, FileTypes, WholeContents DEF IInv
<1>4. proc' \in 0..MaxVersion /\ 0 \in 0..MaxVersion /\ file["exe"].version >= proc'
  BY <1>2, <1>3, UpdateConstants DEF Versions
<1>5. ExecutableSurvives'
  BY <1>1 DEF IInv, ExecutableSurvives
<1>6. QED
  BY <1>1, <1>2, <1>4, <1>5, ProcessStep DEF IInv, TypeOK

LEMMA ChildExitsInv ==
    ASSUME IInv, ChildExits
    PROVE  IInv'
<1>1. child' = 0 /\ UNCHANGED <<file, tree, stranded, proc, optIn, running, phase, task>>
  BY DEF ChildExits, disk
<1>2. 0 \in 0..MaxVersion
  BY UpdateConstants
<1>3. QED
  BY <1>1, <1>2 DEF IInv, TypeOK, Exclusive, TasksOK, TaskOK, ChildOK,
                    ExecutableSurvives, InstalledNotOlder

LEMMA PutBackInv ==
    ASSUME IInv, NEW f \in {"new", "previous"}, PutBack(f)
    PROVE  IInv'
<1>1. /\ proc = 0 /\ child = 0 /\ file[f].kind = "whole" /\ stranded' = FALSE
      /\ UNCHANGED <<tree, proc, child, optIn, running, phase, task>>
  BY DEF PutBack, process
<1>2. /\ file' \in [{"exe", "new", "previous"} -> Contents] /\ file'["exe"] = file[f]
      /\ file'["previous"] = file["previous"] \/ file'["previous"] = Absent
  BY ContentFacts DEF PutBack, IInv, TypeOK
<1>3. TypeOK'
  BY <1>1, <1>2 DEF IInv, TypeOK
<1>4. \A s \in Starters : task[s].pc = "none"
  BY <1>1 DEF IInv, Exclusive
<1>5. Exclusive' /\ ChildOK' /\ InstalledNotOlder'
  BY <1>1, <1>4 DEF Exclusive, ChildOK, InstalledNotOlder
<1>6. TasksOK'
  BY <1>1, <1>4 DEF IInv, TasksOK, TaskOK
<1>7. ExecutableSurvives' /\ file'["previous"].kind \in {"whole", "absent"}
  BY <1>1, <1>2, ContentFacts DEF IInv, ExecutableSurvives
<1>8. \A p \in Sources : tree'[p] # Local
  BY <1>1 DEF IInv
<1>9. QED
  BY <1>3, <1>5, <1>6, <1>7, <1>8 DEF IInv

LEMMA NextIInv == IInv /\ [Next]_vars => IInv'
<1> SUFFICES ASSUME IInv, [Next]_vars PROVE IInv'
  OBVIOUS
<1>1. CASE UNCHANGED vars
  <2>1. UNCHANGED <<file, tree, proc, child, optIn, running, phase, task, stranded>>
    BY <1>1 DEF vars
  <2>2. QED
    BY <2>1 DEF IInv, TypeOK, Exclusive, TasksOK, TaskOK, ChildOK,
                ExecutableSurvives, InstalledNotOlder
<1>2. CASE \E s \in Starters :
             \/ Start(s) \/ Reset(s) \/ StartDropped(s) \/ StepFails(s) \/ Begin(s)
             \/ \E v \in Versions : Lookup(s, v)
             \/ Download(s) \/ Extract(s) \/ Compile(s) \/ PrepareBegin(s) \/ PrepareEnd(s)
             \/ \E p \in Paths : CopyBegin(s, p) \/ CopyEnd(s, p)
             \/ CopyDone(s) \/ RemovePrevious(s) \/ Backup(s) \/ Activate(s) \/ ActivateFails(s)
             \/ Restarting(s) \/ Spawn(s) \/ Release(s) \/ Shutdown(s)
  BY <1>2, StartInv, StopInv, LookupInv, AdvanceInv, PrepareBeginInv, PrepareEndInv, CopyBeginInv,
     CopyEndInv, CopyDoneInv, RemovePreviousInv, BackupInv, ActivateInv, ActivateFailsInv,
     RestartingInv, SpawnInv, EndInv
<1>3. CASE Crash \/ TakeOver \/ ChildExits \/ Boot \/ \E f \in {"new", "previous"} : PutBack(f)
  BY <1>3, EndInv, BeginInv, ChildExitsInv, PutBackInv
<1>4. QED
  BY <1>1, <1>2, <1>3 DEF Next

\* The inductive invariant of the updater, its files and its processes.
THEOREM Inductive == Spec => []IInv
<1>1. QED
  BY InitIInv, NextIInv, PTL DEF Spec

\* Every file, task and process stays in its type.
THEOREM TypeCorrect == Spec => []TypeOK
<1>1. IInv => TypeOK
  BY DEF IInv
<1>2. QED
  BY <1>1, Inductive, PTL

\* Wherever a crash, a failed rename or a retry falls, the executable's path holds
\* nothing that is cut short, and while it is empty the backup is whole, until a
\* retry after a failed rollback removes it (activate_executable).
THEOREM ExecutableNeverLost == Spec => []ExecutableSurvives
<1>1. IInv => ExecutableSurvives
  BY DEF IInv
<1>2. QED
  BY <1>1, Inductive, PTL

\* No sequence of updates, rollbacks, crashes and restarts leaves a running
\* process with an older executable than itself.
THEOREM NoDowngrade == Spec => []InstalledNotOlder
<1>1. IInv => InstalledNotOlder
  BY DEF IInv
<1>2. QED
  BY <1>1, Inductive, PTL

\* The replacement is started only from an executable all of whose sources
\* have been copied whole.
THEOREM SourcesComplete == Spec => []SourcesBeforeExecutable
<1>1. IInv => SourcesBeforeExecutable
  BY DEF IInv, TasksOK, TaskOK, SourcesBeforeExecutable
<1>2. QED
  BY <1>1, Inductive, PTL

LEMMA StepKeepsLocal ==
    IInv /\ [Next]_vars => [\A p \in Paths : tree[p] = Local => tree'[p] = Local]_vars
<1> SUFFICES ASSUME IInv, [Next]_vars, NEW p \in Paths, tree[p] = Local PROVE tree'[p] = Local
  BY Zenon
<1>1. CASE \E s \in Starters, o \in Paths : CopyBegin(s, o)
  <2>1. PICK s \in Starters, o \in Paths : CopyBegin(s, o)
    BY <1>1
  <2>2. tree' = tree \/ (tree[o] # Local /\ tree' = [tree EXCEPT ![o] = Torn])
    BY <2>1, CopyBeginFacts
  <2>3. QED
    BY <2>2 DEF IInv, TypeOK
<1>2. CASE \E s \in Starters, o \in Paths : CopyEnd(s, o)
  <2>1. PICK s \in Starters, o \in Paths : CopyEnd(s, o)
    BY <1>2
  <2>2. task[s].writing = {o} /\ tree' = [tree EXCEPT ![o] = Whole(task[s].target)]
    BY <2>1 DEF CopyEnd
  <2>3. tree[o] # Local
    BY <2>2 DEF IInv, TasksOK, TaskOK
  <2>4. QED
    BY <2>2, <2>3 DEF IInv, TypeOK
<1>3. CASE ~\E s \in Starters, o \in Paths : CopyBegin(s, o) \/ CopyEnd(s, o)
  <2>1. tree' = tree
    BY <1>3 DEF Next, vars, disk, Start, Reset, StartDropped, StepFails, Begin, Lookup, Download,
                Extract, Compile, Advance, PrepareBegin, PrepareEnd, CopyDone, RemovePrevious,
                Backup, Activate, ActivateFails, Restarting, Spawn, Release, Shutdown, Crash,
                TakeOver, ChildExits, Boot, PutBack
  <2>2. QED
    BY <2>1
<1>4. QED
  BY <1>1, <1>2, <1>3

\* No update, finished, failed or cut short, ever overwrites a file that is the
\* site's own.
THEOREM SiteFilesKept == Spec => LocalStateKept
<1>1. QED
  BY StepKeepsLocal, Inductive, PTL DEF Spec, LocalStateKept

=============================================================================
