---------------------------- MODULE SourceUpdate ----------------------------
(***************************************************************************)
(* The in-application updater, services/source_update.rs: one background   *)
(* task that looks a release up, downloads, validates and compiles it in a *)
(* staging directory, copies its sources over the installation, swaps the  *)
(* executable by two renames and starts its replacement.                   *)
(*                                                                         *)
(* The disk outlives the process.  The process may die between any two     *)
(* file operations and in the middle of a copy, every operation may fail,  *)
(* and the administrator may start the update again.  What the network,    *)
(* the archive and the compiler deliver is a choice.                       *)
(***************************************************************************)
EXTENDS Naturals

CONSTANTS MaxVersion,   \* bound: releases
          Sources,      \* files of a release that are always copied
          Preserved,    \* files whose extension protects an existing copy
          Protected,    \* files under db/, conf/, certs/, ...
          Starters      \* requests to start an update

ASSUME UpdateConstants ==
    /\ MaxVersion \in Nat \ {0}
    /\ Sources \cap Preserved = {} /\ (Sources \cup Preserved) \cap Protected = {}

VARIABLES file,         \* the executable, .update-new and .update-previous
          tree,         \* the files of the source directory
          proc,         \* version of the running process, 0 when there is none
          child,        \* version of the replacement that waits, or 0
          optIn,        \* KRAKEN_UI_ALLOW_UNSIGNED_SOURCE_UPDATE
          running,      \* SourceUpdateService::running
          phase,        \* UpdateStatus::phase
          task,
          stranded      \* history: a retry removed the backup with no executable in place

vars == <<file, tree, proc, child, optIn, running, phase, task, stranded>>

-----------------------------------------------------------------------------
Versions == 1..MaxVersion
Paths == Sources \cup Preserved \cup Protected

\* A file is absent, cut short, whole as some version has it, or the site's own.
Absent == [kind |-> "absent", version |-> 0]
Torn == [kind |-> "torn", version |-> 0]
Local == [kind |-> "local", version |-> 0]
Whole(v) == [kind |-> "whole", version |-> v]
Contents == {Absent, Torn, Local} \cup {Whole(v) : v \in Versions}

Phases == {"idle", "checking", "downloading", "extracting", "compiling", "installing",
           "restarting", "complete", "failed"}

\* Where run_update is; "reset" is start between its compare-exchange and its
\* spawn, "release" the store of FALSE at the end.
Pcs == {"none", "reset", "begin", "lookup", "download", "extract", "compile", "prepare",
        "preparing", "copy", "remove", "backup", "activate", "restart", "spawn", "sleep",
        "release"}
Task == [pc : Pcs, target : 0..MaxVersion, todo : SUBSET Paths, writing : SUBSET Paths]
NoTask == [pc |-> "none", target |-> 0, todo |-> {}, writing |-> {}]

TypeOK ==
    /\ file \in [{"exe", "new", "previous"} -> Contents]
    /\ tree \in [Paths -> Contents]
    /\ proc \in 0..MaxVersion /\ child \in 0..MaxVersion
    /\ optIn \in BOOLEAN /\ running \in BOOLEAN
    /\ phase \in Phases
    /\ task \in [Starters -> Task]
    /\ stranded \in BOOLEAN

\* Version 1 as installed: some protected and preserved files are there, some not.
Init ==
    /\ file = [f \in {"exe", "new", "previous"} |-> IF f = "exe" THEN Whole(1) ELSE Absent]
    /\ tree \in {t \in [Paths -> {Whole(1), Local, Absent}] :
                   \A p \in Paths : (t[p] = Whole(1)) <=> (p \in Sources)}
    /\ proc = 1 /\ child = 0
    /\ optIn \in BOOLEAN
    /\ running = FALSE /\ phase = "idle"
    /\ task = [s \in Starters |-> NoTask]
    /\ stranded = FALSE

-----------------------------------------------------------------------------
disk == <<file, tree, stranded>>
process == <<proc, child, optIn>>

At(s, pc) == proc # 0 /\ task[s].pc = pc
Goto(s, pc) == task' = [task EXCEPT ![s].pc = pc]

\* start: the compare-exchange.
Start(s) ==
    /\ At(s, "none")
    /\ ~running
    /\ running' = TRUE
    /\ Goto(s, "reset")
    /\ UNCHANGED <<disk, process, phase>>

\* reset_for_update, and the spawn of the task.
Reset(s) ==
    /\ At(s, "reset")
    /\ phase' = "checking"
    /\ Goto(s, "begin")
    /\ UNCHANGED <<disk, process, running>>

\* The request is dropped while it waits for the status lock: no task will ever
\* clear running.
StartDropped(s) ==
    /\ At(s, "reset")
    /\ task' = [task EXCEPT ![s] = NoTask]
    /\ UNCHANGED <<disk, process, running, phase>>

\* run_update returns an error: finish_failed.
Fail(s) ==
    /\ phase' = "failed"
    /\ task' = [task EXCEPT ![s] = [NoTask EXCEPT !.pc = "release"]]

\* Any of the steps may fail with nothing done; the updater is off by default.
StepFails(s) ==
    /\ proc # 0
    /\ \/ task[s].pc \in {"lookup", "download", "extract", "compile", "prepare", "preparing",
                          "copy", "remove", "backup", "restart", "spawn"}
       \/ task[s].pc = "begin" /\ ~optIn
    /\ Fail(s)
    /\ UNCHANGED <<disk, process, running>>

Begin(s) ==
    /\ At(s, "begin") /\ optIn
    /\ phase' = "checking"
    /\ Goto(s, "lookup")
    /\ UNCHANGED <<disk, process, running>>

\* Mutant: any release that is not the running one is installed.
LookupOther(s, v) ==
    /\ At(s, "lookup")
    /\ IF v = proc
       THEN /\ phase' = "complete"
            /\ task' = [task EXCEPT ![s] = [NoTask EXCEPT !.pc = "release"]]
       ELSE /\ phase' = "downloading"
            /\ task' = [task EXCEPT ![s].pc = "download", ![s].target = v]
    /\ UNCHANGED <<disk, process, running>>

\* Mutant: the next version is taken for the release, the running one included.
LookupNext(s, v) ==
    /\ At(s, "lookup")
    /\ IF v < proc
       THEN /\ phase' = "complete"
            /\ task' = [task EXCEPT ![s] = [NoTask EXCEPT !.pc = "release"]]
       ELSE /\ phase' = "downloading"
            /\ task' = [task EXCEPT ![s].pc = "download", ![s].target = proc + 1]
    /\ UNCHANGED <<disk, process, running>>

\* The latest stable release is v; nothing to do unless it is newer.
Lookup(s, v) ==
    /\ At(s, "lookup")
    /\ IF v <= proc
       THEN /\ phase' = "complete"
            /\ task' = [task EXCEPT ![s] = [NoTask EXCEPT !.pc = "release"]]
       ELSE /\ phase' = "downloading"
            /\ task' = [task EXCEPT ![s].pc = "download", ![s].target = v]
    /\ UNCHANGED <<disk, process, running>>

\* A step that works in memory or in the staging directory only.
Advance(s, from, to, next) ==
    /\ At(s, from)
    /\ Goto(s, to)
    /\ phase' = next
    /\ UNCHANGED <<disk, process, running>>

Download(s) == Advance(s, "download", "extract", "extracting")

\* unpack_release_archive and validate_staged_release, which wants the target's
\* own version.
Extract(s) == Advance(s, "extract", "compile", "compiling")

\* cargo build, and the binary it must have left.
Compile(s) == Advance(s, "compile", "prepare", "installing")

\* prepare_executable: fs::copy to .update-new, from its first byte to its last.
PrepareBegin(s) ==
    /\ At(s, "prepare")
    /\ file' = [file EXCEPT !["new"] = Torn]
    /\ Goto(s, "preparing")
    /\ UNCHANGED <<tree, stranded, process, running, phase>>

PrepareEnd(s) ==
    /\ At(s, "preparing")
    /\ file' = [file EXCEPT !["new"] = Whole(task[s].target)]
    /\ task' = [task EXCEPT ![s].pc = "copy", ![s].todo = Paths]
    /\ UNCHANGED <<tree, stranded, process, running, phase>>

\* Mutant: existing files are protected by their extension only.
ProtectedByExtension(p) == p \in Preserved /\ tree[p] # Absent

\* protected_path
ProtectedPath(p) == p \in Protected \/ (p \in Preserved /\ tree[p] # Absent)

\* copy_directory, one entry: skipped, or begun, ...
CopyBegin(s, p) ==
    /\ At(s, "copy") /\ task[s].writing = {}
    /\ p \in task[s].todo
    /\ IF ProtectedPath(p)
       THEN /\ task' = [task EXCEPT ![s].todo = @ \ {p}]
            /\ UNCHANGED tree
       ELSE /\ task' = [task EXCEPT ![s].writing = {p}]
            /\ tree' = [tree EXCEPT ![p] = Torn]
    /\ UNCHANGED <<file, stranded, process, running, phase>>

\* ... and finished.
CopyEnd(s, p) ==
    /\ At(s, "copy") /\ task[s].writing = {p}
    /\ tree' = [tree EXCEPT ![p] = Whole(task[s].target)]
    /\ task' = [task EXCEPT ![s].writing = {}, ![s].todo = @ \ {p}]
    /\ UNCHANGED <<file, stranded, process, running, phase>>

\* Mutant: the copy stops at the first entry it skips.
CopyDoneEarly(s) ==
    /\ At(s, "copy") /\ task[s].writing = {}
    /\ task[s].todo = {} \/ \E p \in task[s].todo : ProtectedPath(p)
    /\ task' = [task EXCEPT ![s].pc = "remove", ![s].todo = {}]
    /\ UNCHANGED <<disk, process, running, phase>>

CopyDone(s) ==
    /\ At(s, "copy") /\ task[s].writing = {}
    /\ task[s].todo = {}
    /\ task' = [task EXCEPT ![s].pc = "remove", ![s].todo = {}]
    /\ UNCHANGED <<disk, process, running, phase>>

\* activate_executable: the old backup goes, whether or not there is an executable to
\* take its place, ...
RemovePrevious(s) ==
    /\ At(s, "remove")
    /\ file' = [file EXCEPT !["previous"] = Absent]
    /\ stranded' = (stranded \/ file["exe"] = Absent)
    /\ Goto(s, "backup")
    /\ UNCHANGED <<tree, process, running, phase>>

\* Mutant: the executable is removed, not renamed.
BackupRemoved(s) ==
    /\ At(s, "backup") /\ file["exe"] # Absent
    /\ file' = [file EXCEPT !["exe"] = Absent]
    /\ Goto(s, "activate")
    /\ UNCHANGED <<tree, stranded, process, running, phase>>

\* ... the executable becomes the backup, ...
Backup(s) ==
    /\ At(s, "backup") /\ file["exe"] # Absent
    /\ file' = [file EXCEPT !["previous"] = file["exe"], !["exe"] = Absent]
    /\ Goto(s, "activate")
    /\ UNCHANGED <<tree, stranded, process, running, phase>>

\* ... and the new one takes its name.
Activate(s) ==
    /\ At(s, "activate") /\ file["new"] # Absent
    /\ file' = [file EXCEPT !["exe"] = file["new"], !["new"] = Absent]
    /\ Goto(s, "restart")
    /\ UNCHANGED <<tree, stranded, process, running, phase>>

\* That rename fails: the backup is put back, if that rename does not fail too.
ActivateFails(s) ==
    /\ At(s, "activate")
    /\ \/ file' = [file EXCEPT !["exe"] = file["previous"], !["previous"] = Absent]
       \/ UNCHANGED file
    /\ Fail(s)
    /\ UNCHANGED <<tree, stranded, process, running>>

\* set_restarting, when there is a server handle to shut down.
Restarting(s) ==
    /\ At(s, "restart")
    /\ phase' = "restarting"
    /\ Goto(s, "spawn")
    /\ UNCHANGED <<disk, process, running>>

\* spawn_replacement: the child waits two seconds for the listener.
Spawn(s) ==
    /\ At(s, "spawn") /\ file["exe"].kind = "whole"
    /\ child' = file["exe"].version
    /\ Goto(s, "sleep")
    /\ UNCHANGED <<disk, proc, optIn, running, phase>>

\* running.store(false)
Release(s) ==
    /\ At(s, "release")
    /\ running' = FALSE
    /\ task' = [task EXCEPT ![s] = NoTask]
    /\ UNCHANGED <<disk, process, phase>>

\* The memory of a process that has ended or just begun.
Fresh ==
    /\ running' = FALSE /\ phase' = "idle"
    /\ task' = [s \in Starters |-> NoTask]

\* server_handle.shutdown aborts the connections and main returns, so no request
\* comes between it and the end of the process.  A crash may come at any time.
Shutdown(s) ==
    /\ At(s, "sleep")
    /\ proc' = 0
    /\ Fresh
    /\ UNCHANGED <<disk, child, optIn>>

Crash ==
    /\ proc # 0
    /\ proc' = 0
    /\ Fresh
    /\ UNCHANGED <<disk, child, optIn>>

\* The child binds the listener, or fails to start and exits.
TakeOver ==
    /\ proc = 0 /\ child # 0
    /\ proc' = child /\ child' = 0
    /\ Fresh
    /\ UNCHANGED <<disk, optIn>>

ChildExits ==
    /\ child # 0
    /\ child' = 0
    /\ UNCHANGED <<disk, proc, optIn, running, phase, task>>

\* The service manager starts what is at the executable's path; an administrator
\* puts a whole backup or the new file there when it is empty.
Boot ==
    /\ proc = 0 /\ child = 0
    /\ file["exe"].kind = "whole"
    /\ proc' = file["exe"].version
    /\ Fresh
    /\ UNCHANGED <<disk, child, optIn>>

PutBack(f) ==
    /\ proc = 0 /\ child = 0
    /\ file["exe"] = Absent /\ file[f].kind = "whole"
    /\ file' = [file EXCEPT !["exe"] = file[f], ![f] = Absent]
    /\ stranded' = FALSE
    /\ UNCHANGED <<tree, process, running, phase, task>>

Next ==
    \/ \E s \in Starters :
        \/ Start(s) \/ Reset(s) \/ StartDropped(s) \/ StepFails(s) \/ Begin(s)
        \/ \E v \in Versions : Lookup(s, v)
        \/ Download(s) \/ Extract(s) \/ Compile(s) \/ PrepareBegin(s) \/ PrepareEnd(s)
        \/ \E p \in Paths : CopyBegin(s, p) \/ CopyEnd(s, p)
        \/ CopyDone(s) \/ RemovePrevious(s) \/ Backup(s) \/ Activate(s) \/ ActivateFails(s)
        \/ Restarting(s) \/ Spawn(s) \/ Release(s) \/ Shutdown(s)
    \/ Crash \/ TakeOver \/ ChildExits \/ Boot
    \/ \E f \in {"new", "previous"} : PutBack(f)

Spec == Init /\ [][Next]_vars

-----------------------------------------------------------------------------
(***************************************************************************)
(* Properties.                                                             *)
(***************************************************************************)

\* At every moment, and so after a crash at any moment, what can be started again is
\* where an administrator is told to look for it: the executable's path holds nothing
\* that is cut short, and while it is empty (between the two renames, or after both
\* the second and its rollback failed) the backup is whole.  That ends when an update
\* is started again after such a double failure: activate_executable removes the
\* backup before it finds that there is no executable to take its place.
ExecutableSurvives ==
    /\ file["exe"].kind \in {"whole", "absent"}
    /\ file["exe"] = Absent /\ ~stranded => file["previous"].kind = "whole"

\* "No downgrade occurs" (docs/source-updates.md): what is installed is never
\* older than the process that installed it, across retries and restarts.
InstalledNotOlder ==
    proc # 0 /\ file["exe"].kind = "whole" => file["exe"].version >= proc

\* A new executable is in place only with all of its sources: every file the
\* release may replace is the release's, none is left over or cut short.
SourcesBeforeExecutable ==
    \A s \in Starters : task[s].pc \in {"restart", "spawn", "sleep"} =>
        /\ file["exe"] = Whole(task[s].target)
        /\ \A p \in Sources : tree[p] = Whole(task[s].target)

\* "Existing configuration content is never overwritten": the site's own files
\* outlive every update, finished or not.
LocalStateKept == [][\A p \in Paths : tree[p] = Local => tree'[p] = Local]_vars

=============================================================================
