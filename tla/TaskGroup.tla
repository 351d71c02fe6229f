----------------------------- MODULE TaskGroup -----------------------------
(***************************************************************************)
(* task_group: tasks are added, then joined by get() or by the destructor.  *)
(* A release build hands a task to std::async, whose default policy leaves  *)
(* it to the implementation whether the task runs on a thread of its own or *)
(* is deferred until somebody waits for it.  A _DEBUG build calls it in add. *)
(***************************************************************************)
EXTENDS Naturals, Sequences, FiniteSets

CONSTANTS Task,     \* the callbacks the owner may add
          Builds,   \* the builds: whether _DEBUG is defined
          None      \* no task

ASSUME BuildsAssumption == Builds \subseteq BOOLEAN
ASSUME NoneAssumption == None \notin Task

VARIABLES
    debug,      \* the build
    task,       \* what became of each callback
    futures,    \* m_tasks: the futures held by the group, in order
    moved,      \* the local "tasks" of get()
    owner,      \* where the owner of the group is
    pos,        \* position of its loop over futures or moved
    rethrown    \* the task whose exception get() throws

groupVars == <<debug, task, futures, moved, owner, pos, rethrown>>

Outcome == {"returned", "threw"}
Ended(t) == task[t] \in Outcome
InGroup(t) == task[t] # "absent"

Init ==
    /\ debug \in Builds
    /\ task = [t \in Task |-> "absent"]
    /\ futures = <<>> /\ moved = <<>>
    /\ owner = "open"
    /\ pos = 1
    /\ rethrown = None

-----------------------------------------------------------------------------
(* The owner *)

\* add(): an exception of a callback called in place leaves add().
Add(t) ==
    /\ owner = "open" /\ task[t] = "absent"
    /\ IF debug
       THEN /\ task' = [task EXCEPT ![t] = "running"]
            /\ owner' = "calling"
            /\ UNCHANGED futures
       ELSE /\ \E s \in {"ready", "deferred"} : task' = [task EXCEPT ![t] = s]
            /\ futures' = Append(futures, t)
            /\ UNCHANGED owner
    /\ UNCHANGED <<debug, moved, pos, rethrown>>

\* Fault: get() collects the results without the first loop of waits.
FaultyGet ==
    /\ owner = "open"
    /\ owner' = "getting"
    /\ moved' = futures
    /\ futures' = <<>>
    /\ pos' = 1
    /\ UNCHANGED <<debug, task, rethrown>>

Get ==
    /\ owner = "open"
    /\ owner' = "waiting"
    /\ moved' = futures
    /\ futures' = <<>>
    /\ pos' = 1
    /\ UNCHANGED <<debug, task, rethrown>>

\* Fault: the loop starts one too early.
FaultyDestroy ==
    /\ owner \in {"open", "unwinding"}
    /\ owner' = "destroying"
    /\ pos' = 0
    /\ UNCHANGED <<debug, task, futures, moved, rethrown>>

\* The destructor, called when the scope is left, normally or by an exception.
Destroy ==
    /\ owner \in {"open", "unwinding"}
    /\ owner' = "destroying"
    /\ pos' = 1
    /\ UNCHANGED <<debug, task, futures, moved, rethrown>>

Joined == IF owner = "waiting" THEN moved ELSE futures

\* Fault: a deferred task counts as one there is nothing to wait for.
FaultyWait ==
    /\ owner \in {"waiting", "destroying"}
    /\ pos <= Len(Joined)
    /\ Ended(Joined[pos]) \/ task[Joined[pos]] = "deferred"
    /\ pos' = pos + 1
    /\ UNCHANGED <<debug, task, futures, moved, owner, rethrown>>

\* Fault: nobody runs a deferred task.
StuckWait ==
    /\ owner \in {"waiting", "destroying"}
    /\ pos <= Len(Joined)
    /\ Ended(Joined[pos])
    /\ pos' = pos + 1
    /\ UNCHANGED <<debug, task, futures, moved, owner, rethrown>>

\* future::wait() runs a deferred task on the waiting thread.
Wait ==
    /\ owner \in {"waiting", "destroying"}
    /\ pos <= Len(Joined)
    /\ LET t == Joined[pos] IN
       \/ /\ task[t] = "deferred"
          /\ task' = [task EXCEPT ![t] = "running"]
          /\ UNCHANGED pos
       \/ Ended(t) /\ pos' = pos + 1 /\ UNCHANGED task
    /\ UNCHANGED <<debug, futures, moved, owner, rethrown>>

EndWait ==
    /\ owner = "waiting" /\ pos > Len(moved)
    /\ owner' = "getting"
    /\ pos' = 1
    /\ UNCHANGED <<debug, task, futures, moved, rethrown>>

\* Fault: the results are waited for but not looked at.
FaultyGetNext ==
    /\ owner = "getting"
    /\ owner' = "open"
    /\ UNCHANGED <<debug, task, futures, moved, pos, rethrown>>

\* future::get() rethrows what the task threw.
GetNext ==
    /\ owner = "getting"
    /\ IF pos > Len(moved)
       THEN owner' = "open" /\ UNCHANGED <<pos, rethrown>>
       ELSE \/ task[moved[pos]] = "threw"
               /\ owner' = "unwinding" /\ rethrown' = moved[pos] /\ UNCHANGED pos
            \/ task[moved[pos]] = "returned"
               /\ pos' = pos + 1 /\ UNCHANGED <<owner, rethrown>>
    /\ UNCHANGED <<debug, task, futures, moved>>

EndDestroy ==
    /\ owner = "destroying" /\ pos > Len(futures)
    /\ owner' = "gone"
    /\ UNCHANGED <<debug, task, futures, moved, pos, rethrown>>

-----------------------------------------------------------------------------
(* The tasks *)

\* A thread of the pool picks the task up.
Start(t) ==
    /\ task[t] = "ready"
    /\ task' = [task EXCEPT ![t] = "running"]
    /\ UNCHANGED <<debug, futures, moved, owner, pos, rethrown>>

\* Fault: add() swallows the exception of a callback.
FaultyEnd(t, o) ==
    /\ task[t] = "running"
    /\ task' = [task EXCEPT ![t] = o]
    /\ owner' = IF owner # "calling" THEN owner ELSE "open"
    /\ UNCHANGED <<debug, futures, moved, pos, rethrown>>

End(t, o) ==
    /\ task[t] = "running"
    /\ task' = [task EXCEPT ![t] = o]
    /\ owner' = IF owner # "calling" THEN owner
                ELSE IF o = "threw" THEN "unwinding" ELSE "open"
    /\ UNCHANGED <<debug, futures, moved, pos, rethrown>>

Owner == (\E t \in Task : Add(t)) \/ Get \/ Destroy \/ Wait \/ EndWait \/ GetNext \/ EndDestroy

Next == Owner \/ (\E t \in Task : Start(t) \/ \E o \in Outcome : End(t, o))

Spec == Init /\ [][Next]_groupVars

\* std::async(launch::async) starts its thread, callbacks return, and the owner
\* goes on with a loop it has begun.
Fairness ==
    /\ WF_groupVars(Wait \/ EndWait \/ GetNext \/ EndDestroy)
    /\ \A t \in Task : WF_groupVars(Start(t)) /\ WF_groupVars(\E o \in Outcome : End(t, o))

FairSpec == Spec /\ Fairness

-----------------------------------------------------------------------------
(* Properties *)

\* Every variable keeps its type.
TypeOK ==
    /\ debug \in BOOLEAN
    /\ task \in [Task -> {"absent", "ready", "deferred", "running"} \cup Outcome]
    /\ futures \in Seq(Task) /\ moved \in Seq(Task)
    /\ owner \in {"open", "calling", "unwinding", "waiting", "getting", "destroying", "gone"}
    /\ pos \in Nat \ {0}
    /\ rethrown \in Task \cup {None}

\* When the destructor has returned, every callback that was added has run to
\* its end: none still uses what the owner is about to destroy.
JoinedWhenGone == owner = "gone" => \A t \in Task : InGroup(t) => Ended(t)

\* get() lets an exception out only when all its tasks have ended, and it is the
\* exception of the first failed task in the order of add(), not of the first to fail.
GetRethrowsFirst ==
    \A t \in Task : rethrown = t =>
        \E i \in 1..Len(moved) :
            /\ moved[i] = t /\ task[t] = "threw"
            /\ \A j \in 1..(i - 1) : task[moved[j]] = "returned"
            /\ \A j \in 1..Len(moved) : Ended(moved[j])

\* get() does not return normally when a task it joined has thrown.
GetMissesNothing ==
    [][owner = "getting" /\ owner' = "open"
         => \A i \in 1..Len(moved) : task[moved[i]] = "returned"]_groupVars

\* A debug build runs one callback at a time, and none after one that threw.
DebugIsSequential ==
    debug => /\ Cardinality({t \in Task : task[t] = "running"}) <= 1
             /\ (\E t \in Task : task[t] = "threw") => owner \notin {"open", "calling"}

\* The destructor and get() come to an end.
JoinEnds ==
    /\ owner = "destroying" ~> owner = "gone"
    /\ owner = "waiting" ~> owner \in {"open", "unwinding"}
=============================================================================
