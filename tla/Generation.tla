----------------------------- MODULE Generation ----------------------------
(***************************************************************************)
(* run(): one execution of the generator and the headers it leaves on disk. *)
(* The main thread builds the cache, adds a task per namespace and one for  *)
(* each of the two headers that span namespaces, copies base.h, and leaves  *)
(* the scope: the task group joins its tasks, then the cache is destroyed.  *)
(* The process may be killed at any point and started again, with metadata  *)
(* that may have changed.                                                   *)
(***************************************************************************)
EXTENDS Naturals, Sequences

CONSTANTS Namespaces,    \* the namespaces of the cache, in order
          Builds, None,  \* see TaskGroup
          StreamFaults,  \* whether an ofstream may fail
          MaxRuns,       \* bound on the executions of the program
          InitialDisks   \* what the output folder may hold beforehand

Tasks == Namespaces \o <<"complex_structs", "complex_interfaces">>
Task == {Tasks[i] : i \in 1..Len(Tasks)}

\* Fault: the header that users include is written first, what it includes after.
FaultyHeaders(t) ==
    IF t \in {"complex_structs", "complex_interfaces"}
    THEN << <<t, 1>> >>
    ELSE << <<t, 4>>, <<t, 3>>, <<t, 2>>, <<t, 1>> >>

\* The headers a task writes, in order: those of a namespace are ns.0.h,
\* ns.1.h, ns.2.h and ns.h, each of which includes the one before.
Headers(t) ==
    IF t \in {"complex_structs", "complex_interfaces"}
    THEN << <<t, 1>> >>
    ELSE << <<t, 1>>, <<t, 2>>, <<t, 3>>, <<t, 4>> >>

Base == <<"base", 1>>
Header == UNION {{Headers(t)[i] : i \in 1..Len(Headers(t))} : t \in Task}
File == Header \cup {Base}

\* "fresh" holds what this metadata generates, "old" what earlier metadata did,
\* "torn" is a file opened and truncated whose content is not all there.
Disk == [File -> {"absent", "old", "torn", "fresh"}]

\* The cache names a namespace once; a namespace called "base" would have the
\* file name of base.h.
ASSUME NamespacesAssumption ==
    /\ Namespaces \in Seq(STRING)
    /\ \A i, j \in 1..Len(Tasks) : i # j => Tasks[i] # Tasks[j]
    /\ "base" \notin Task
ASSUME BuildsAssumption == Builds \subseteq BOOLEAN
ASSUME NoneAssumption == None \notin Task \cup {"usage", "error"}
ASSUME InitialDisksAssumption == InitialDisks \subseteq Disk
ASSUME BoundsAssumption == MaxRuns \in Nat \ {0} /\ StreamFaults \in BOOLEAN

VARIABLES
    main,        \* where run() is
    cache,       \* whether the cache is alive
    exception,   \* what run() is to catch: None, "usage" or "error"
    result,      \* what run() returns
    at,          \* at[t]: how many headers task t is past
    open,        \* the headers opened for writing
    disk,        \* the output folder
    lost,        \* headers whose stream failed in this run
    runs,        \* executions so far
    debug, task, futures, moved, owner, pos, rethrown   \* the task group

Group == INSTANCE TaskGroup

process == <<main, cache, exception, result, at, open, lost>>
groupVars == <<debug, task, futures, moved, owner, pos, rethrown>>
vars == <<process, disk, runs, groupVars>>

Added == {t \in Task : Group!InGroup(t)}

Init ==
    /\ main = "start"
    /\ cache = FALSE
    /\ exception = None
    /\ result = 0
    /\ at = [t \in Task |-> 0]
    /\ open = {} /\ lost = {}
    /\ Group!Init
    /\ disk \in InitialDisks
    /\ runs = 1

-----------------------------------------------------------------------------
(* The main thread *)

\* The arguments are read, the output folder made and the cache built; any of
\* it may throw, before there is a task group.
Start ==
    /\ main = "start"
    /\ \/ main' = "adding" /\ cache' = TRUE /\ UNCHANGED exception
       \/ main' = "catching" /\ exception' \in {"usage", "error"} /\ UNCHANGED cache
    /\ UNCHANGED <<result, at, open, lost, disk, runs, groupVars>>

AddTask ==
    /\ main = "adding"
    /\ \E i \in 1..Len(Tasks) :
       /\ Added = {Tasks[j] : j \in 1..(i - 1)}
       /\ Group!Add(Tasks[i])
    /\ UNCHANGED <<process, disk, runs>>

\* Fault: the exception is swallowed where the task was called.
FaultyAddThrows ==
    /\ main = "adding" /\ owner = "unwinding"
    /\ main' = "leaving"
    /\ UNCHANGED <<cache, exception, result, at, open, lost, disk, runs, groupVars>>

\* An exception of a task called by add() goes on to run().
AddThrows ==
    /\ main = "adding" /\ owner = "unwinding"
    /\ main' = "leaving"
    /\ exception' = "error"
    /\ UNCHANGED <<cache, result, at, open, lost, disk, runs, groupVars>>

OpenBase ==
    /\ main = "adding" /\ owner = "open" /\ Added = Task
    /\ main' = "copying"
    /\ disk' = [disk EXCEPT ![Base] = "torn"]
    /\ UNCHANGED <<cache, exception, result, at, open, lost, runs, groupVars>>

CopyBase ==
    /\ main = "copying"
    /\ main' = "leaving"
    /\ disk' = [disk EXCEPT ![Base] = "fresh"]
    /\ UNCHANGED <<cache, exception, result, at, open, lost, runs, groupVars>>

\* copy_file throws: no base.h to copy, or a copy that breaks off.
CopyThrows ==
    /\ main = "copying" \/ (main = "adding" /\ owner = "open" /\ Added = Task)
    /\ main' = "leaving"
    /\ exception' = "error"
    /\ UNCHANGED <<cache, result, at, open, lost, disk, runs, groupVars>>

\* The scope is left, in the reverse order of its declarations: group, then c.
LeaveScope ==
    /\ main = "leaving"
    /\ Group!Destroy
    /\ UNCHANGED <<process, disk, runs>>

\* Fault: only tasks with a thread of their own are waited for.
FaultyJoin ==
    /\ main = "leaving"
    /\ (Group!Wait /\ UNCHANGED task) \/ Group!EndDestroy
    /\ UNCHANGED <<process, disk, runs>>

Join ==
    /\ main = "leaving"
    /\ Group!Wait \/ Group!EndDestroy
    /\ UNCHANGED <<process, disk, runs>>

\* Fault: the group is declared before the cache, so the cache goes first.
FaultyDestroyCache ==
    /\ main = "leaving" /\ cache
    /\ cache' = FALSE
    /\ main' = IF owner = "gone" THEN "catching" ELSE main
    /\ UNCHANGED <<exception, result, at, open, lost, disk, runs, groupVars>>

DestroyCache ==
    /\ main = "leaving" /\ owner = "gone"
    /\ cache' = FALSE
    /\ main' = "catching"
    /\ UNCHANGED <<exception, result, at, open, lost, disk, runs, groupVars>>

\* Fault: the exit status is not one of those the shell knows.
FaultyCatch ==
    /\ main = "catching"
    /\ main' = "exited"
    /\ result' = IF exception = "error" THEN 0 - 1 ELSE 0
    /\ UNCHANGED <<cache, exception, at, open, lost, disk, runs, groupVars>>

\* catch: the usage is no error; then the text is flushed and run() returns.
Catch ==
    /\ main = "catching"
    /\ main' = "exited"
    /\ result' = IF exception = "error" THEN 1 ELSE 0
    /\ UNCHANGED <<cache, exception, at, open, lost, disk, runs, groupVars>>

-----------------------------------------------------------------------------
(* The tasks *)

Running(t) == main # "killed" /\ task[t] = "running"

StartTask(t) ==
    /\ main # "killed"
    /\ Group!Start(t)
    /\ UNCHANGED <<process, disk, runs>>

\* The header task t has come to.
Due(t) == Headers(t)[at[t] + 1]
HasDue(t) == Running(t) /\ at[t] < Len(Headers(t))

\* Fault: file_equal compares sizes only, and a torn file may have any size.
FaultyFileEqual(f) == disk[f] \in {"fresh", "torn"}

\* file_equal: the file exists and its content is what has been composed.
FileEqual(f) == disk[f] = "fresh"

\* The header has been composed in memory.  flush_to_file leaves an equal file
\* alone; else it opens and truncates it.  The stream is not checked: when it
\* fails to open, the task goes on as if the header were written.
FlushHeader(t) ==
    /\ HasDue(t) /\ Due(t) \notin open
    /\ \/ /\ FileEqual(Due(t))
          /\ at' = [at EXCEPT ![t] = @ + 1]
          /\ UNCHANGED <<open, lost, disk>>
       \/ /\ ~FileEqual(Due(t))
          /\ open' = open \cup {Due(t)}
          /\ disk' = [disk EXCEPT ![Due(t)] = "torn"]
          /\ UNCHANGED <<at, lost>>
       \/ /\ ~FileEqual(Due(t)) /\ StreamFaults
          /\ at' = [at EXCEPT ![t] = @ + 1]
          /\ lost' = lost \cup {Due(t)}
          /\ UNCHANGED <<open, disk>>
    /\ UNCHANGED <<main, cache, exception, result, runs, groupVars>>

\* m_first and m_second are written and the stream is closed, or the write
\* fails, which nobody looks at.
WriteHeader(t) ==
    /\ HasDue(t) /\ Due(t) \in open
    /\ open' = open \ {Due(t)}
    /\ at' = [at EXCEPT ![t] = @ + 1]
    /\ \/ disk' = [disk EXCEPT ![Due(t)] = "fresh"] /\ UNCHANGED lost
       \/ StreamFaults /\ lost' = lost \cup {Due(t)} /\ UNCHANGED disk
    /\ UNCHANGED <<main, cache, exception, result, runs, groupVars>>

\* Composing a header may throw: a cyclic graph, or metadata it cannot express.
\* The future keeps the exception.
ComposeThrows(t) ==
    /\ HasDue(t) /\ Due(t) \notin open
    /\ Group!End(t, "threw")
    /\ UNCHANGED <<process, disk, runs>>

EndTask(t) ==
    /\ Running(t) /\ at[t] = Len(Headers(t))
    /\ Group!End(t, "returned")
    /\ UNCHANGED <<process, disk, runs>>

-----------------------------------------------------------------------------
(* The process *)

Kill ==
    /\ main \notin {"exited", "killed"} /\ runs < MaxRuns
    /\ main' = "killed"
    /\ UNCHANGED <<cache, exception, result, at, open, lost, disk, runs, groupVars>>

\* The next execution finds the disk; the metadata of some headers has changed.
Rerun ==
    /\ main \in {"exited", "killed"} /\ runs < MaxRuns
    /\ runs' = runs + 1
    /\ main' = "start" /\ cache' = FALSE /\ exception' = None /\ result' = 0
    /\ at' = [t \in Task |-> 0] /\ open' = {} /\ lost' = {}
    /\ task' = [t \in Task |-> "absent"]
    /\ futures' = <<>> /\ moved' = <<>>
    /\ owner' = "open" /\ pos' = 1 /\ rethrown' = None /\ UNCHANGED debug
    /\ \E changed \in {{}, Header} \cup {{h} : h \in Header} :
          disk' = [f \in File |-> IF f \in changed /\ disk[f] = "fresh"
                                  THEN "old" ELSE disk[f]]

Main ==
    \/ Start \/ AddTask \/ AddThrows \/ OpenBase \/ CopyBase \/ CopyThrows
    \/ LeaveScope \/ Join \/ DestroyCache \/ Catch

TaskStep(t) ==
    \/ StartTask(t) \/ FlushHeader(t) \/ WriteHeader(t)
    \/ ComposeThrows(t) \/ EndTask(t)

Next == Main \/ (\E t \in Task : TaskStep(t)) \/ Kill \/ Rerun

Spec == Init /\ [][Next]_vars

\* The main thread and every started task run.
FairSpec == Spec /\ WF_vars(Main) /\ \A t \in Task : WF_vars(TaskStep(t))

-----------------------------------------------------------------------------
(* Properties *)

\* Every variable keeps its type.
TypeOK ==
    /\ main \in {"start", "adding", "copying", "leaving", "catching", "exited", "killed"}
    /\ cache \in BOOLEAN
    /\ exception \in {None, "usage", "error"}
    /\ result \in {0, 1}
    /\ at \in [Task -> 0..4] /\ \A t \in Task : at[t] <= Len(Headers(t))
    /\ open \subseteq Header /\ lost \subseteq Header
    /\ disk \in Disk
    /\ runs \in 1..MaxRuns
    /\ Group!TypeOK

\* A task holds references to the cache and to its members: as long as it may
\* still run the cache is alive, also when run() unwinds (task_group is declared
\* after the cache, so that its destructor joins first).
CacheOutlivesTasks ==
    main # "killed" => \A t \in Added : ~Group!Ended(t) => cache

\* An execution in which nothing threw and no stream failed leaves every header
\* and base.h with the content the metadata generates, whatever an interrupted
\* or older execution left behind.
CleanRunIsComplete ==
    main = "exited" /\ exception = None /\ lost = {}
        /\ (\A t \in Added : task[t] # "threw")
    => \A f \in File : disk[f] = "fresh"

\* Unless a stream fails, no header of a namespace is on disk without the one of
\* its own chain, NS.0.h, NS.1.h, NS.2.h, NS.h, that it includes, not even after a
\* crash. What headers include besides, base.h, the spanning headers and those of
\* other namespaces, other tasks write; a crash may leave that missing until the
\* next clean execution.
ChainComplete ==
    \A f \in Header : f[2] > 1 /\ disk[f] # "absent" => disk[<<f[1], f[2] - 1>>] # "absent"

\* A debug build reports what a task threw: run() returns 1.
DebugReportsTasks ==
    debug /\ main = "exited" /\ (\E t \in Task : task[t] = "threw") => result = 1

\* The program ends, unless it is killed.
Termination == main = "start" ~> main \in {"exited", "killed"}
=============================================================================
