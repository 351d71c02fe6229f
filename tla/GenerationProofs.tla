------------------------- MODULE GenerationProofs --------------------------
(***************************************************************************)
(* Proofs about Generation, for any namespaces, disks and number of runs:   *)
(* the cache outlives the tasks, a clean execution leaves every header      *)
(* current, and without stream faults the headers of a namespace appear in  *)
(* the order in which they include each other.                              *)
(* What the task group guarantees is taken from TaskGroupProofs.            *)
(***************************************************************************)
EXTENDS Generation, TLAPS

GroupFacts == INSTANCE TaskGroupProofs

\* Where run() is and what the group and the cache are then.
MainInv ==
    /\ main = "start" =>
          exception = None /\ owner = "open" /\ \A t \in Task : ~Group!InGroup(t)
    /\ main = "adding" =>
          cache /\ exception = None /\ owner \in {"open", "calling", "unwinding"}
    /\ main = "copying" =>
          cache /\ exception = None /\ owner = "open" /\ \A t \in Task : Group!InGroup(t)
    /\ main = "leaving" => cache /\ owner \in {"open", "unwinding", "destroying", "gone"}
    /\ main \in {"catching", "exited"} =>
          \A t \in Task : Group!InGroup(t) => Group!Ended(t)

\* run() leaves the scope without an exception only after it has added every
\* task and copied base.h.
CompleteUnlessThrown ==
    main \in {"leaving", "catching", "exited"} /\ exception = None =>
        disk[Base] = "fresh" /\ \A t \in Task : Group!InGroup(t)

\* The headers a task is past are current, or their streams failed.
PastIsFresh(t) ==
    \A i \in 1..Len(Headers(t)) :
        i <= at[t] => disk[Headers(t)[i]] = "fresh" \/ Headers(t)[i] \in lost

Progress ==
    \A t \in Task : PastIsFresh(t) /\ (task[t] = "returned" => at[t] = Len(Headers(t)))

\* The inductive invariant.
IInv == TypeOK /\ GroupFacts!IInv /\ MainInv /\ CompleteUnlessThrown /\ Progress

-----------------------------------------------------------------------------
(* The headers, and the group as a part *)

LEMMA OfATaskIsHeader ==
    ASSUME NEW t \in Task, NEW i \in 1..Len(Headers(t)) PROVE Headers(t)[i] \in Header
<1>1. Headers(t)[i] \in {Headers(t)[k] : k \in 1..Len(Headers(t))} OBVIOUS
<1>2. {Headers(t)[k] : k \in 1..Len(Headers(t))}
        \in {{Headers(u)[k] : k \in 1..Len(Headers(u))} : u \in Task}
  OBVIOUS
<1> QED BY <1>1, <1>2 DEF Header

LEMMA HeadersFacts ==
    ASSUME NEW t \in Task
    PROVE /\ Len(Headers(t)) \in 1..4
          /\ \A i \in 1..Len(Headers(t)) : Headers(t)[i] = <<t, i>> /\ Headers(t)[i] # Base
<1>1. CASE t \in {"complex_structs", "complex_interfaces"}
  <2>1. Headers(t) = << <<t, 1>> >> BY <1>1 DEF Headers
  <2>2. Len(Headers(t)) = 1 /\ Headers(t)[1] = <<t, 1>> BY <2>1
  <2>3. <<t, 1>> # Base BY NamespacesAssumption DEF Base
  <2> QED BY <2>2, <2>3
<1>2. CASE t \notin {"complex_structs", "complex_interfaces"}
  <2>1. Headers(t) = << <<t, 1>>, <<t, 2>>, <<t, 3>>, <<t, 4>> >> BY <1>2 DEF Headers
  <2>2. /\ Len(Headers(t)) = 4
        /\ Headers(t)[1] = <<t, 1>> /\ Headers(t)[2] = <<t, 2>>
        /\ Headers(t)[3] = <<t, 3>> /\ Headers(t)[4] = <<t, 4>>
    BY <2>1
  <2>3. \A i \in 1..4 : <<t, i>> # Base BY NamespacesAssumption DEF Base
  <2> QED BY <2>2, <2>3
<1> QED BY <1>1, <1>2

LEMMA HeaderIsOfATask ==
    ASSUME NEW f \in Header
    PROVE \E t \in Task : \E i \in 1..Len(Headers(t)) : f = Headers(t)[i]
BY DEF Header

LEMMA BaseIsNoHeader == Base \notin Header /\ Base \in File /\ Header \subseteq File
BY HeaderIsOfATask, HeadersFacts DEF File

\* A step of the group keeps the group's invariant.
LEMMA GroupStep == ASSUME GroupFacts!IInv, [Group!Next]_groupVars PROVE GroupFacts!IInv'
<1>1. [GroupFacts!Next]_(GroupFacts!groupVars)
  BY DEF groupVars, GroupFacts!groupVars, Group!Next, GroupFacts!Next, Group!Owner,
    GroupFacts!Owner, Group!Add, GroupFacts!Add, Group!Get, GroupFacts!Get, Group!Destroy,
    GroupFacts!Destroy, Group!Wait, GroupFacts!Wait, Group!EndWait, GroupFacts!EndWait,
    Group!GetNext, GroupFacts!GetNext, Group!EndDestroy, GroupFacts!EndDestroy, Group!Start,
    GroupFacts!Start, Group!End, GroupFacts!End, Group!Outcome, GroupFacts!Outcome,
    Group!Joined, GroupFacts!Joined, Group!Ended, GroupFacts!Ended
<1>2. Builds \subseteq BOOLEAN /\ None \notin Task BY BuildsAssumption, NoneAssumption
<1> QED BY <1>1, <1>2, GroupFacts!NextIInv

LEMMA GroupStart == ASSUME Group!Init PROVE GroupFacts!IInv
<1>1. GroupFacts!Init BY DEF Group!Init, GroupFacts!Init
<1>2. Builds \subseteq BOOLEAN /\ None \notin Task BY BuildsAssumption, NoneAssumption
<1> QED BY <1>1, <1>2, GroupFacts!InitIInv

-----------------------------------------------------------------------------
(* The actions *)

\* What a step that leaves the task group alone keeps.
LEMMA GroupRests ==
    ASSUME IInv, UNCHANGED groupVars
    PROVE /\ GroupFacts!IInv' /\ Group!TypeOK'
          /\ \A t \in Task : (Group!InGroup(t)' <=> Group!InGroup(t)) /\ (Group!Ended(t)' <=> Group!Ended(t))
<1>1. GroupFacts!IInv' BY GroupStep DEF IInv
<1> QED BY <1>1 DEF IInv, TypeOK, Group!TypeOK, groupVars, Group!InGroup, Group!Ended

\* What a step of the task group keeps.
LEMMA GroupMoves ==
    ASSUME IInv, Group!Next
    PROVE GroupFacts!IInv' /\ Group!TypeOK'
<1>1. GroupFacts!IInv' BY GroupStep DEF IInv
<1>2. GroupFacts!TypeOK' BY <1>1 DEF GroupFacts!IInv
<1> QED BY <1>1, <1>2 DEF Group!TypeOK, GroupFacts!TypeOK, Group!Outcome, GroupFacts!Outcome

\* Steps of the main thread that touch neither the disk nor the group.
LEMMA MainAloneIInv ==
    ASSUME IInv, Start \/ AddThrows \/ CopyThrows \/ DestroyCache \/ Catch \/ Kill
    PROVE IInv'
<1>1. /\ UNCHANGED <<at, open, lost, disk, runs, groupVars>>
      /\ TypeOK
  BY DEF Start, AddThrows, CopyThrows, DestroyCache, Catch, Kill, IInv
<1>2. /\ GroupFacts!IInv' /\ Group!TypeOK'
      /\ \A t \in Task : (Group!InGroup(t)' <=> Group!InGroup(t)) /\ (Group!Ended(t)' <=> Group!Ended(t))
  BY <1>1, GroupRests
<1>3. /\ main' \in {"start", "adding", "copying", "leaving", "catching", "exited", "killed"}
      /\ cache' \in BOOLEAN /\ exception' \in {None, "usage", "error"} /\ result' \in {0, 1}
  BY <1>1 DEF Start, AddThrows, CopyThrows, DestroyCache, Catch, Kill, TypeOK
<1>4. TypeOK' BY <1>1, <1>2, <1>3 DEF TypeOK
<1>5. MainInv'
  <2>1. CASE Start
    <3>1. /\ main = "start" /\ exception = None /\ owner = "open"
          /\ \A t \in Task : ~Group!InGroup(t)
      BY <2>1 DEF Start, IInv, MainInv
    <3>2. CASE main' = "adding"
      BY <1>1, <2>1, <3>1, <3>2 DEF Start, MainInv, groupVars
    <3>3. CASE main' = "catching"
      BY <1>2, <3>1, <3>3 DEF MainInv
    <3> QED BY <2>1, <3>2, <3>3 DEF Start
  <2>2. CASE AddThrows \/ CopyThrows
    BY <1>1, <1>2, <2>2 DEF AddThrows, CopyThrows, IInv, MainInv, groupVars
  <2>3. CASE DestroyCache
    <3>1. \A t \in Task : Group!InGroup(t) => Group!Ended(t)
      BY <2>3 DEF DestroyCache, IInv, GroupFacts!IInv, GroupFacts!JoinedWhenGone,
        Group!InGroup, GroupFacts!InGroup, Group!Ended, GroupFacts!Ended, Group!Outcome,
        GroupFacts!Outcome
    <3> QED BY <1>2, <2>3, <3>1 DEF DestroyCache, MainInv
  <2>4. CASE Catch
    BY <1>2, <2>4 DEF Catch, IInv, MainInv
  <2>5. CASE Kill
    BY <2>5 DEF Kill, MainInv
  <2> QED BY <2>1, <2>2, <2>3, <2>4, <2>5
<1>6. CompleteUnlessThrown'
  BY <1>1, <1>2, NoneAssumption DEF Start, AddThrows, CopyThrows, DestroyCache, Catch, Kill, IInv,
    CompleteUnlessThrown
<1>7. Progress' BY <1>1 DEF IInv, Progress, PastIsFresh, groupVars
<1> QED BY <1>2, <1>4, <1>5, <1>6, <1>7 DEF IInv

\* base.h is opened and copied.
LEMMA BaseIInv == ASSUME IInv, OpenBase \/ CopyBase PROVE IInv'
<1>1. /\ UNCHANGED <<cache, exception, result, at, open, lost, runs, groupVars>>
      /\ TypeOK
  BY DEF OpenBase, CopyBase, IInv
<1>2. /\ GroupFacts!IInv' /\ Group!TypeOK'
      /\ \A t \in Task : (Group!InGroup(t)' <=> Group!InGroup(t)) /\ (Group!Ended(t)' <=> Group!Ended(t))
  BY <1>1, GroupRests
<1>3. disk \in Disk BY <1>1 DEF TypeOK
<1>4. PICK c \in {"torn", "fresh"} :
        /\ disk' = [disk EXCEPT ![Base] = c]
        /\ c = "fresh" \/ main' = "copying"
  BY DEF OpenBase, CopyBase
<1>5. TypeOK'
  <2>1. disk' \in Disk BY <1>3, <1>4 DEF Disk
  <2>2. main' \in {"copying", "leaving"} BY DEF OpenBase, CopyBase
  <2> QED BY <1>1, <1>2, <2>1, <2>2 DEF TypeOK
<1>6. MainInv'
  <2>1. CASE OpenBase
    <3>1. \A t \in Task : Group!InGroup(t) BY <2>1 DEF OpenBase, Added
    <3> QED BY <1>1, <1>2, <2>1, <3>1 DEF OpenBase, IInv, MainInv, groupVars
  <2>2. CASE CopyBase
    BY <1>1, <1>2, <2>2 DEF CopyBase, IInv, MainInv, groupVars
  <2> QED BY <2>1, <2>2
<1>7. CompleteUnlessThrown'
  <2>1. CASE OpenBase BY <2>1 DEF OpenBase, CompleteUnlessThrown
  <2>2. CASE CopyBase
    <3>1. disk'[Base] = "fresh" BY <1>3, <2>2, BaseIsNoHeader DEF CopyBase, Disk
    <3> QED BY <1>2, <2>2, <3>1 DEF CopyBase, IInv, MainInv, CompleteUnlessThrown
  <2> QED BY <2>1, <2>2
<1>8. Progress'
  <2>1. \A t \in Task : \A i \in 1..Len(Headers(t)) : disk'[Headers(t)[i]] = disk[Headers(t)[i]]
    BY <1>3, <1>4, HeadersFacts, OfATaskIsHeader, BaseIsNoHeader DEF Disk
  <2> QED BY <1>1, <2>1 DEF IInv, Progress, PastIsFresh, groupVars
<1> QED BY <1>2, <1>5, <1>6, <1>7, <1>8 DEF IInv

\* Steps of the task group: only what group and tasks are doing changes.
LEMMA GroupIInv ==
    ASSUME IInv,
           \/ AddTask \/ LeaveScope \/ Join
           \/ \E t \in Task : StartTask(t) \/ ComposeThrows(t) \/ EndTask(t)
    PROVE IInv'
<1>1. UNCHANGED <<process, disk, runs>> /\ TypeOK
  BY DEF AddTask, LeaveScope, Join, StartTask, ComposeThrows, EndTask, IInv
<1>2. /\ main' = main /\ cache' = cache /\ exception' = exception /\ result' = result
      /\ at' = at /\ open' = open /\ lost' = lost /\ disk' = disk /\ runs' = runs
  BY <1>1 DEF process
<1>3. Group!Next
  <2>1. CASE AddTask
    <3>1. PICK i \in 1..Len(Tasks) : Group!Add(Tasks[i]) BY <2>1 DEF AddTask
    <3>2. Tasks[i] \in Task BY DEF Task
    <3> QED BY <3>1, <3>2 DEF Group!Next, Group!Owner
  <2>2. CASE LeaveScope \/ Join
    BY <2>2 DEF LeaveScope, Join, Group!Next, Group!Owner
  <2>3. ASSUME NEW t \in Task, StartTask(t) \/ ComposeThrows(t) \/ EndTask(t) PROVE Group!Next
    <3>1. "threw" \in Group!Outcome /\ "returned" \in Group!Outcome BY DEF Group!Outcome
    <3> QED BY <2>3, <3>1 DEF StartTask, ComposeThrows, EndTask, Group!Next
  <2> QED BY <2>1, <2>2, <2>3
<1>4. GroupFacts!IInv' /\ Group!TypeOK' BY <1>3, GroupMoves
<1>5. TypeOK' BY <1>1, <1>2, <1>4 DEF TypeOK
<1>6. task \in [Task -> {"absent", "ready", "deferred", "running", "returned", "threw"}]
  BY <1>1 DEF TypeOK, Group!TypeOK, Group!Outcome
<1>7. \A t \in Task : Group!InGroup(t) => Group!InGroup(t)'
  BY <1>3, <1>6 DEF Group!Next, Group!Owner, Group!Add, Group!Get, Group!Destroy, Group!Wait,
    Group!EndWait, Group!GetNext, Group!EndDestroy, Group!Start, Group!End, Group!Outcome,
    Group!InGroup
<1>8. MainInv'
  <2>1. CASE AddTask
    <3>1. PICK t \in Task : main = "adding" /\ Group!Add(t)
      <4>1. PICK i \in 1..Len(Tasks) : Group!Add(Tasks[i]) BY <2>1 DEF AddTask
      <4> QED BY <4>1, <2>1 DEF AddTask, Task
    <3>2. owner' \in {"open", "calling"} BY <3>1 DEF Group!Add
    <3> QED BY <1>2, <3>1, <3>2 DEF IInv, MainInv
  <2>2. CASE LeaveScope \/ Join
    <3>1. main = "leaving" BY <2>2 DEF LeaveScope, Join
    <3>2. owner' \in {"open", "unwinding", "destroying", "gone"}
      BY <2>2, <3>1 DEF LeaveScope, Join, Group!Destroy, Group!Wait, Group!EndDestroy, IInv, MainInv
    <3> QED BY <1>2, <3>1, <3>2 DEF IInv, MainInv
  <2>3. ASSUME NEW t \in Task, StartTask(t) \/ ComposeThrows(t) \/ EndTask(t) PROVE MainInv'
    <3>1. /\ main # "killed" /\ task[t] \in {"ready", "running"}
          /\ owner' = owner \/ (owner = "calling" /\ owner' \in {"open", "unwinding"})
      BY <2>3 DEF StartTask, ComposeThrows, EndTask, HasDue, Running, Group!Start, Group!End
    <3>2. Group!InGroup(t) /\ ~Group!Ended(t)
      BY <3>1 DEF Group!InGroup, Group!Ended, Group!Outcome
    <3>3. main \notin {"start", "catching", "exited"} BY <3>2 DEF IInv, MainInv
    <3> QED BY <1>2, <1>7, <3>1, <3>3 DEF IInv, MainInv
  <2> QED BY <2>1, <2>2, <2>3
<1>9. CompleteUnlessThrown' BY <1>2, <1>7 DEF IInv, CompleteUnlessThrown
<1>10. Progress'
  <2>1. \A t \in Task : PastIsFresh(t)' BY <1>2 DEF IInv, Progress, PastIsFresh
  <2>2. ASSUME NEW u \in Task, task'[u] = "returned", task[u] # "returned"
        PROVE at[u] = Len(Headers(u))
    <3>1. CASE AddTask \/ LeaveScope \/ Join
      BY <1>6, <2>2, <3>1 DEF AddTask, LeaveScope, Join, Group!Add, Group!Destroy, Group!Wait,
        Group!EndDestroy
    <3>2. ASSUME NEW t \in Task, StartTask(t) \/ ComposeThrows(t) \/ EndTask(t)
          PROVE at[u] = Len(Headers(u))
      BY <1>6, <2>2, <3>2 DEF StartTask, ComposeThrows, EndTask, Group!Start, Group!End
    <3> QED BY <3>1, <3>2
  <2> QED BY <1>2, <2>1, <2>2 DEF IInv, Progress
<1> QED BY <1>4, <1>5, <1>8, <1>9, <1>10 DEF IInv

\* The header task t has come to is no other task's, and none t is past.
LEMMA DueIsOwn ==
    ASSUME TypeOK, NEW t \in Task, HasDue(t)
    PROVE /\ at[t] + 1 \in 1..Len(Headers(t))
          /\ Due(t) \in Header /\ Due(t) # Base
          /\ \A u \in Task : \A i \in 1..Len(Headers(u)) :
                i <= at[u] => Headers(u)[i] # Due(t)
<1>1. at[t] \in Nat /\ Len(Headers(t)) \in Nat BY HeadersFacts DEF TypeOK
<1>2. at[t] + 1 \in 1..Len(Headers(t)) BY <1>1 DEF HasDue
<1>3. Due(t) = <<t, at[t] + 1>> /\ Due(t) # Base BY <1>2, HeadersFacts DEF Due
<1>4. Due(t) \in Header BY <1>2, OfATaskIsHeader DEF Due
<1>5. ASSUME NEW u \in Task, NEW i \in 1..Len(Headers(u)), i <= at[u]
      PROVE Headers(u)[i] # Due(t)
  <2>1. Headers(u)[i] = <<u, i>> BY HeadersFacts
  <2>2. CASE u = t
    <3>1. i # at[t] + 1 BY <1>1, <1>5, <2>2
    <3> QED BY <1>3, <2>1, <3>1
  <2>3. CASE u # t BY <1>3, <2>1, <2>3
  <2> QED BY <2>2, <2>3
<1> QED BY <1>2, <1>3, <1>4, <1>5

\* A header is compared, opened or written.
LEMMA HeaderIInv ==
    ASSUME IInv, NEW t \in Task, FlushHeader(t) \/ WriteHeader(t) PROVE IInv'
<1>1. /\ UNCHANGED <<main, cache, exception, result, runs, groupVars>>
      /\ TypeOK /\ HasDue(t)
  BY DEF FlushHeader, WriteHeader, IInv
<1>2. /\ GroupFacts!IInv' /\ Group!TypeOK'
      /\ \A u \in Task : (Group!InGroup(u)' <=> Group!InGroup(u)) /\ (Group!Ended(u)' <=> Group!Ended(u))
  BY <1>1, GroupRests
<1>3. /\ at[t] + 1 \in 1..Len(Headers(t))
      /\ Due(t) \in Header /\ Due(t) # Base
      /\ \A u \in Task : \A i \in 1..Len(Headers(u)) :
            i <= at[u] => Headers(u)[i] # Due(t)
  BY <1>1, DueIsOwn
<1>4. /\ disk \in [File -> {"absent", "old", "torn", "fresh"}] /\ at \in [Task -> 0..4]
      /\ open \subseteq Header /\ lost \subseteq Header
  BY <1>1 DEF TypeOK, Disk
<1>5. Due(t) \in File /\ Base \in File BY <1>3, BaseIsNoHeader
<1>6. /\ open' \subseteq open \cup {Due(t)}
      /\ lost' \in {lost, lost \cup {Due(t)}}
      /\ \E c \in {"absent", "old", "torn", "fresh"} : disk' = [disk EXCEPT ![Due(t)] = c]
  <2>1. disk = [disk EXCEPT ![Due(t)] = disk[Due(t)]] BY <1>4, <1>5
  <2>2. disk[Due(t)] \in {"absent", "old", "torn", "fresh"} BY <1>4, <1>5
  <2>3. CASE disk' = disk
    BY <2>1, <2>2, <2>3 DEF FlushHeader, WriteHeader
  <2>4. CASE disk' # disk
    BY <2>4 DEF FlushHeader, WriteHeader
  <2> QED BY <2>3, <2>4
<1>7. \/ at' = at
      \/ /\ at' = [at EXCEPT ![t] = @ + 1]
         /\ disk'[Due(t)] = "fresh" \/ Due(t) \in lost'
  BY <1>4, <1>5 DEF FlushHeader, WriteHeader, FileEqual
<1>8. Len(Headers(t)) \in 1..4 BY HeadersFacts
<1>9. TypeOK'
  <2>1. disk' \in Disk BY <1>4, <1>6 DEF Disk
  <2>2. open' \subseteq Header /\ lost' \subseteq Header BY <1>3, <1>4, <1>6
  <2>3. at' \in [Task -> 0..4] /\ \A u \in Task : at'[u] <= Len(Headers(u))
    BY SMTT(20), <1>1, <1>3, <1>4, <1>7, <1>8 DEF TypeOK
  <2> QED BY <1>1, <1>2, <2>1, <2>2, <2>3 DEF TypeOK
<1>10. MainInv' BY <1>1, <1>2 DEF IInv, MainInv, groupVars
<1>11. CompleteUnlessThrown'
  <2>1. disk'[Base] = disk[Base] BY <1>3, <1>4, <1>5, <1>6
  <2> QED BY <1>1, <1>2, <2>1 DEF IInv, CompleteUnlessThrown
<1>12. Progress'
  <2>1. ASSUME NEW u \in Task PROVE PastIsFresh(u)'
    <3> SUFFICES ASSUME NEW i \in 1..Len(Headers(u)), i <= at'[u]
                 PROVE disk'[Headers(u)[i]] = "fresh" \/ Headers(u)[i] \in lost'
      BY DEF PastIsFresh
    <3>1. CASE i <= at[u]
      <4>1. Headers(u)[i] # Due(t) /\ Headers(u)[i] \in File
        BY <1>3, <3>1, OfATaskIsHeader, BaseIsNoHeader
      <4>2. disk[Headers(u)[i]] = "fresh" \/ Headers(u)[i] \in lost
        BY <3>1 DEF IInv, Progress, PastIsFresh
      <4> QED BY <1>4, <1>6, <4>1, <4>2
    <3>2. CASE ~(i <= at[u])
      <4>1. u = t /\ i = at[t] + 1 /\ at' = [at EXCEPT ![t] = @ + 1]
        BY <1>4, <1>7, <1>8, <3>2
      <4>2. Headers(u)[i] = Due(t) BY <4>1 DEF Due
      <4>3. at' # at BY <1>4, <4>1
      <4> QED BY <1>7, <4>2, <4>3
    <3> QED BY <3>1, <3>2
  <2>2. ASSUME NEW u \in Task, task'[u] = "returned" PROVE at'[u] = Len(Headers(u))
    <3>1. task[u] = "returned" /\ task[t] = "running"
      BY <1>1, <2>2 DEF groupVars, HasDue, Running
    <3>2. at[u] = Len(Headers(u)) /\ u # t BY <3>1 DEF IInv, Progress
    <3> QED BY <1>4, <1>7, <3>2
  <2> QED BY <2>1, <2>2 DEF Progress
<1> QED BY <1>2, <1>9, <1>10, <1>11, <1>12 DEF IInv

\* A new execution starts from the disk alone.
LEMMA RerunIInv == ASSUME IInv, Rerun PROVE IInv'
<1>1. TypeOK /\ disk \in [File -> {"absent", "old", "torn", "fresh"}]
  BY DEF IInv, TypeOK, Disk
<1>2. /\ main' = "start" /\ cache' = FALSE /\ exception' = None /\ result' = 0
      /\ at' = [t \in Task |-> 0] /\ open' = {} /\ lost' = {}
      /\ runs' = runs + 1 /\ runs < MaxRuns
      /\ task' = [t \in Task |-> "absent"] /\ owner' = "open"
  BY DEF Rerun
<1>3. GroupFacts!IInv' /\ Group!TypeOK'
  <2>1. /\ futures' = <<>> /\ moved' = <<>> /\ pos' = 1 /\ rethrown' = None
        /\ debug' \in BOOLEAN
    BY <1>1 DEF Rerun, TypeOK, Group!TypeOK
  <2>2. GroupFacts!IInv'
    BY <1>2, <2>1, NoneAssumption, BuildsAssumption DEF GroupFacts!IInv, GroupFacts!TypeOK,
      GroupFacts!InGroup, GroupFacts!Ended, GroupFacts!Outcome, GroupFacts!LoopsDone,
      GroupFacts!JoinedWhenGone, GroupFacts!GetRethrowsFirst, GroupFacts!Rethrown,
      GroupFacts!InPlace
  <2> QED BY <1>2, <2>1, <2>2 DEF Group!TypeOK
<1>4. disk' \in Disk BY <1>1 DEF Rerun, Disk
<1>5. runs' \in 1..MaxRuns BY <1>1, <1>2, BoundsAssumption DEF TypeOK
<1>6. at' \in [Task -> 0..4] /\ \A t \in Task : at'[t] <= Len(Headers(t))
  BY <1>2, HeadersFacts
<1>7. TypeOK' BY <1>2, <1>3, <1>4, <1>5, <1>6 DEF TypeOK
<1>8. MainInv' /\ CompleteUnlessThrown'
  BY <1>2 DEF MainInv, CompleteUnlessThrown, Group!InGroup
<1>9. Progress' BY <1>2 DEF Progress, PastIsFresh
<1> QED BY <1>3, <1>7, <1>8, <1>9 DEF IInv

-----------------------------------------------------------------------------
(* The theorems *)

LEMMA InitIInv == Init => IInv
<1> SUFFICES ASSUME Init PROVE IInv OBVIOUS
<1>1. GroupFacts!IInv BY GroupStart DEF Init
<1>2. Group!TypeOK BY <1>1 DEF GroupFacts!IInv, GroupFacts!TypeOK, Group!TypeOK, Group!Outcome,
        GroupFacts!Outcome
<1>3. disk \in Disk BY InitialDisksAssumption DEF Init
<1>4. at \in [Task -> 0..4] /\ \A t \in Task : at[t] <= Len(Headers(t))
  BY HeadersFacts DEF Init
<1>5a. /\ main = "start" /\ cache = FALSE /\ exception = None /\ result = 0
       /\ open = {} /\ lost = {} /\ runs = 1
  BY DEF Init
<1>5b. 1 \in 1..MaxRuns BY BoundsAssumption
<1>5. TypeOK BY <1>2, <1>3, <1>4, <1>5a, <1>5b DEF TypeOK
<1>6. MainInv /\ CompleteUnlessThrown
  BY DEF Init, MainInv, CompleteUnlessThrown, Group!Init, Group!InGroup
<1>7. Progress BY DEF Init, Progress, PastIsFresh, Group!Init
<1> QED BY <1>1, <1>5, <1>6, <1>7 DEF IInv

LEMMA StutterIInv == ASSUME IInv, UNCHANGED vars PROVE IInv'
<1>1. UNCHANGED groupVars BY DEF vars
<1>2. GroupFacts!IInv' /\ Group!TypeOK' BY <1>1, GroupRests
<1>3. TypeOK' BY <1>2 DEF IInv, TypeOK, vars, process
<1>4. MainInv' BY DEF IInv, MainInv, vars, process, groupVars, Group!InGroup, Group!Ended
<1>5. CompleteUnlessThrown'
  BY DEF IInv, CompleteUnlessThrown, vars, process, groupVars, Group!InGroup
<1>6. Progress' BY DEF IInv, Progress, PastIsFresh, vars, process, groupVars
<1> QED BY <1>2, <1>3, <1>4, <1>5, <1>6 DEF IInv

LEMMA NextIInv == ASSUME IInv, [Next]_vars PROVE IInv'
<1>1. CASE Main
  BY <1>1, MainAloneIInv, BaseIInv, GroupIInv DEF Main
<1>2. ASSUME NEW t \in Task, TaskStep(t) PROVE IInv'
  BY <1>2, GroupIInv, HeaderIInv DEF TaskStep
<1> QED BY <1>1, <1>2, MainAloneIInv, RerunIInv, StutterIInv DEF Next

THEOREM Invariance == Spec => []IInv
BY InitIInv, NextIInv, PTL DEF Spec

\* Every variable keeps its type.
THEOREM TypeCorrect == Spec => []TypeOK
<1>1. IInv => TypeOK BY DEF IInv
<1> QED BY <1>1, Invariance, PTL

\* No task of an execution is left to run when the cache is gone, however run()
\* leaves the scope.
THEOREM CacheIsSafe == Spec => []CacheOutlivesTasks
<1>1. ASSUME IInv PROVE CacheOutlivesTasks
  <2> SUFFICES ASSUME main # "killed", NEW t \in Task, Group!InGroup(t), ~Group!Ended(t)
               PROVE cache
    BY DEF CacheOutlivesTasks, Added
  <2> QED BY <1>1 DEF IInv, MainInv, TypeOK
<1> QED BY <1>1, Invariance, PTL

\* After an execution without a failure every header is current.
THEOREM CleanRun == Spec => []CleanRunIsComplete
<1>1. ASSUME IInv PROVE CleanRunIsComplete
  <2> SUFFICES ASSUME main = "exited", exception = None, lost = {},
                      \A t \in Added : task[t] # "threw", NEW f \in File
               PROVE disk[f] = "fresh"
    BY DEF CleanRunIsComplete
  <2>1. disk[Base] = "fresh" /\ \A t \in Task : Group!InGroup(t)
    BY <1>1 DEF IInv, CompleteUnlessThrown
  <2>2. ASSUME f \in Header PROVE disk[f] = "fresh"
    <3>1. PICK t \in Task : \E i \in 1..Len(Headers(t)) : f = Headers(t)[i]
      BY <2>2, HeaderIsOfATask
    <3>2. PICK i \in 1..Len(Headers(t)) : f = Headers(t)[i] BY <3>1
    <3>3. Group!Ended(t) BY <1>1, <2>1 DEF IInv, MainInv
    <3>4. task[t] = "returned" BY <2>1, <3>3 DEF Added, Group!Ended, Group!Outcome
    <3>5. i <= at[t] BY <1>1, <3>4, HeadersFacts DEF IInv, Progress
    <3> QED BY <1>1, <3>2, <3>5 DEF IInv, Progress, PastIsFresh
  <2> QED BY <2>1, <2>2 DEF File
<1> QED BY <1>1, Invariance, PTL

-----------------------------------------------------------------------------
(* The chain of a namespace *)

\* Folder d has, with every header, the one before it in its chain.
Whole(d) == \A f \in Header : f[2] > 1 /\ d[f] # "absent" => d[<<f[1], f[2] - 1>>] # "absent"

WholeInv == Whole(disk) /\ lost = {}

LEMMA IncludedIsHeader ==
    ASSUME NEW f \in Header, f[2] > 1
    PROVE /\ f[1] \in Task /\ f[2] \in 1..Len(Headers(f[1]))
          /\ f = <<f[1], f[2]>>
          /\ f[2] - 1 \in 1..Len(Headers(f[1])) /\ <<f[1], f[2] - 1>> \in Header
<1>1. PICK t \in Task : \E i \in 1..Len(Headers(t)) : f = Headers(t)[i] BY HeaderIsOfATask
<1>2. PICK i \in 1..Len(Headers(t)) : f = Headers(t)[i] BY <1>1
<1>3. f = <<t, i>> BY <1>2, HeadersFacts
<1>4. Len(Headers(t)) \in 1..4 BY HeadersFacts
<1>5. i - 1 \in 1..Len(Headers(t)) BY <1>3, <1>4
<1>6. Headers(t)[i - 1] = <<t, i - 1>> BY <1>5, HeadersFacts
<1>7. <<t, i - 1>> \in Header BY <1>5, <1>6, OfATaskIsHeader
<1> QED BY <1>3, <1>5, <1>7

\* A folder that no header vanishes from stays whole when the headers that
\* appear in it have those they include.
LEMMA StaysWhole ==
    ASSUME NEW d, NEW e, Whole(d),
           \A f \in Header : d[f] # "absent" => e[f] # "absent",
           \A f \in Header : f[2] > 1 /\ d[f] = "absent" /\ e[f] # "absent"
                                => e[<<f[1], f[2] - 1>>] # "absent"
    PROVE Whole(e)
<1> SUFFICES ASSUME NEW f \in Header, f[2] > 1, e[f] # "absent"
             PROVE e[<<f[1], f[2] - 1>>] # "absent"
  BY DEF Whole
<1>1. CASE d[f] = "absent" BY <1>1
<1>2. CASE d[f] # "absent"
  <2>1. d[<<f[1], f[2] - 1>>] # "absent" BY <1>2 DEF Whole
  <2> QED BY <2>1, IncludedIsHeader
<1> QED BY <1>1, <1>2

LEMMA HeaderKeepsWhole ==
    ASSUME IInv, WholeInv, ~StreamFaults,
           NEW t \in Task, FlushHeader(t) \/ WriteHeader(t)
    PROVE WholeInv'
<1>1. TypeOK /\ HasDue(t) /\ disk \in [File -> {"absent", "old", "torn", "fresh"}]
  BY DEF IInv, TypeOK, Disk, FlushHeader, WriteHeader
<1>2. /\ lost' = lost
      /\ \/ disk' = disk
         \/ disk' = [disk EXCEPT ![Due(t)] = "torn"]
         \/ disk' = [disk EXCEPT ![Due(t)] = "fresh"]
  BY DEF FlushHeader, WriteHeader
<1>3. Due(t) = <<t, at[t] + 1>> /\ at[t] + 1 \in 1..Len(Headers(t))
  BY <1>1, DueIsOwn, HeadersFacts DEF Due
<1>4. at[t] \in Nat /\ Len(Headers(t)) \in 1..4 BY <1>1, HeadersFacts DEF TypeOK
<1>5. ASSUME at[t] + 1 > 1 PROVE disk[<<t, at[t]>>] = "fresh" /\ <<t, at[t]>> # Due(t)
  <2>1. at[t] \in 1..Len(Headers(t)) BY <1>3, <1>4, <1>5
  <2>2. disk[Headers(t)[at[t]]] = "fresh" BY <2>1, <1>4 DEF IInv, Progress, PastIsFresh, WholeInv
  <2> QED BY <2>1, <2>2, <1>3, <1>4, HeadersFacts
<1>6. \A f \in Header : disk[f] # "absent" => disk'[f] # "absent"
  BY <1>1, <1>2, BaseIsNoHeader
<1>7. ASSUME NEW f \in Header, f[2] > 1, disk[f] = "absent", disk'[f] # "absent"
      PROVE disk'[<<f[1], f[2] - 1>>] # "absent"
  <2>1. f = Due(t) BY <1>1, <1>2, <1>7, BaseIsNoHeader
  <2>2. f[1] = t /\ f[2] = at[t] + 1 BY <2>1, <1>3
  <2>3. f[2] - 1 = at[t] BY <2>2, <1>4
  <2>4. <<t, at[t]>> \in Header BY <1>7, <2>2, <2>3, IncludedIsHeader
  <2>5. disk[<<t, at[t]>>] # "absent" BY <1>5, <1>7, <2>2
  <2>6. disk'[<<t, at[t]>>] # "absent" BY <1>6, <2>4, <2>5
  <2> QED BY <2>2, <2>3, <2>6
<1>8. Whole(disk') BY <1>6, <1>7, StaysWhole DEF WholeInv
<1> QED BY <1>2, <1>8 DEF WholeInv, Whole

LEMMA NextKeepsWhole ==
    ASSUME IInv, WholeInv, ~StreamFaults, [Next]_vars PROVE WholeInv'
<1>1. disk \in [File -> {"absent", "old", "torn", "fresh"}] BY DEF IInv, TypeOK, Disk
<1>2. CASE Main \/ Kill \/ UNCHANGED vars
  <2>1. /\ lost' = lost
        /\ \A f \in Header : disk'[f] = disk[f]
    BY <1>1, <1>2, BaseIsNoHeader DEF Main, Start, AddTask, AddThrows, OpenBase, CopyBase,
      CopyThrows, LeaveScope, Join, DestroyCache, Catch, Kill, vars, process
  <2> QED BY <2>1, StaysWhole DEF WholeInv, Whole
<1>3. ASSUME NEW t \in Task, TaskStep(t) PROVE WholeInv'
  <2>1. CASE FlushHeader(t) \/ WriteHeader(t) BY <2>1, HeaderKeepsWhole
  <2>2. CASE StartTask(t) \/ ComposeThrows(t) \/ EndTask(t)
    <3>1. lost' = lost /\ disk' = disk
      BY <2>2 DEF StartTask, ComposeThrows, EndTask, process
    <3> QED BY <3>1 DEF WholeInv, Whole
  <2> QED BY <1>3, <2>1, <2>2 DEF TaskStep
<1>4. CASE Rerun
  <2>1. lost' = {} BY <1>4 DEF Rerun
  <2>2. \A f \in Header : (disk'[f] = "absent") <=> (disk[f] = "absent")
    BY <1>1, <1>4, BaseIsNoHeader DEF Rerun
  <2> QED BY <2>1, <2>2, StaysWhole DEF WholeInv, Whole
<1> QED BY <1>2, <1>3, <1>4 DEF Next

\* From an output folder whose chains are whole, and unless a stream fails, no execution,
\* crash or change of the metadata leaves a header of a namespace without the one of the
\* same namespace that it includes. This is about those headers only: base.h, the spanning
\* headers and other namespaces may be missing after a crash.
THEOREM ChainStays ==
    ~StreamFaults /\ (\A d \in InitialDisks : Whole(d)) => (Spec => []ChainComplete)
<1> SUFFICES ASSUME ~StreamFaults, \A d \in InitialDisks : Whole(d)
             PROVE Spec => []ChainComplete
  OBVIOUS
<1>1. Init => WholeInv BY DEF Init, WholeInv
<1>2. IInv /\ WholeInv /\ [Next]_vars => WholeInv' BY NextKeepsWhole
<1>3. WholeInv => ChainComplete BY DEF WholeInv, Whole, ChainComplete
<1> QED BY <1>1, <1>2, <1>3, Invariance, PTL DEF Spec

-----------------------------------------------------------------------------
(* What a debug build reports *)

Threw == \E t \in Task : task[t] = "threw"

\* The exception of a task called in place is on its way out of run().
OnItsWay ==
    \/ main = "adding" /\ owner = "unwinding"
    \/ main \in {"leaving", "catching"} /\ exception = "error"
    \/ main = "exited" /\ result = 1
    \/ main = "killed"

Reported == debug /\ Threw => OnItsWay

\* A task runs only while it is called, and that is in the loop that adds the tasks.
LEMMA RunsWhileCalled ==
    ASSUME IInv, debug, main # "killed", NEW t \in Task, task[t] = "running"
    PROVE main = "adding" /\ owner = "calling"
<1>1. owner = "calling" BY DEF IInv, GroupFacts!IInv, GroupFacts!InPlace
<1>2. Group!InGroup(t) /\ ~Group!Ended(t) BY DEF Group!InGroup, Group!Ended, Group!Outcome
<1>3. main \in {"start", "adding", "copying", "leaving", "catching", "exited", "killed"}
  BY DEF IInv, TypeOK
<1> QED BY <1>1, <1>2, <1>3 DEF IInv, MainInv

\* Steps of main and of the process.
LEMMA MainReports ==
    ASSUME IInv, Reported, Main \/ Kill \/ Rerun PROVE Reported'
<1>1. task \in [Task -> {"absent", "ready", "deferred", "running", "returned", "threw"}]
  BY DEF IInv, TypeOK, Group!TypeOK, Group!Outcome
<1>2. CASE Start
  <2>1. ~Threw' BY <1>2 DEF Start, IInv, MainInv, Group!InGroup, Threw, groupVars
  <2> QED BY <2>1 DEF Reported
<1>3. CASE AddTask
  <2>1. PICK i \in 1..Len(Tasks) : Group!Add(Tasks[i]) BY <1>3 DEF AddTask
  <2>2. Tasks[i] \in Task BY DEF Task
  <2>3. /\ owner = "open" /\ main = "adding" /\ debug' = debug
        /\ \E s \in {"running", "ready", "deferred"} : task' = [task EXCEPT ![Tasks[i]] = s]
    BY <1>3, <2>1 DEF AddTask, Group!Add
  <2>4. debug => ~Threw BY <2>3 DEF Reported, OnItsWay
  <2>5. debug' => ~Threw' BY <1>1, <2>2, <2>3, <2>4 DEF Threw
  <2> QED BY <2>5 DEF Reported
<1>4. CASE AddThrows \/ CopyThrows
  BY <1>4 DEF AddThrows, CopyThrows, Reported, OnItsWay
<1>5. CASE OpenBase \/ CopyBase
  <2>1. debug => ~Threw
    BY <1>5 DEF OpenBase, CopyBase, Reported, OnItsWay
  <2>2. debug' => ~Threw' BY <1>5, <2>1 DEF OpenBase, CopyBase, groupVars, Threw
  <2> QED BY <2>2 DEF Reported
<1>6. CASE LeaveScope \/ Join
  <2>1. /\ main = "leaving" /\ main' = main /\ exception' = exception /\ result' = result /\ debug' = debug
    BY <1>6 DEF LeaveScope, Join, process, Group!Destroy, Group!Wait, Group!EndDestroy
  <2>2. task' = task \/ \E t \in Task : task' = [task EXCEPT ![t] = "running"]
    <3>1. ASSUME Group!Wait, ~(task' = task)
          PROVE \E t \in Task : task' = [task EXCEPT ![t] = "running"]
      <4>1. task' = [task EXCEPT ![Group!Joined[pos]] = "running"] BY <3>1 DEF Group!Wait
      <4>2. Group!Joined \in Seq(Task) /\ pos \in 1..Len(Group!Joined)
        BY <3>1 DEF IInv, TypeOK, Group!TypeOK, Group!Joined, Group!Wait
      <4>3. Group!Joined[pos] \in Task BY <4>2
      <4> QED BY <4>1, <4>3
    <3> QED BY <1>6, <3>1 DEF LeaveScope, Join, Group!Destroy, Group!EndDestroy
  <2>3. Threw' => Threw BY <1>1, <2>2 DEF Threw
  <2> QED BY <2>1, <2>3 DEF Reported, OnItsWay
<1>7. CASE DestroyCache \/ Catch
  BY <1>7 DEF DestroyCache, Catch, groupVars, Reported, OnItsWay, Threw
<1>8. CASE Kill
  BY <1>8 DEF Kill, Reported, OnItsWay
<1>9. CASE Rerun
  <2>1. ~Threw' BY <1>9 DEF Rerun, Threw
  <2> QED BY <2>1 DEF Reported
<1> QED BY <1>2, <1>3, <1>4, <1>5, <1>6, <1>7, <1>8, <1>9 DEF Main

\* A task that throws is one that is being called.
LEMMA TaskReports ==
    ASSUME IInv, Reported, NEW t \in Task, TaskStep(t) PROVE Reported'
<1>1. task \in [Task -> {"absent", "ready", "deferred", "running", "returned", "threw"}]
  BY DEF IInv, TypeOK, Group!TypeOK, Group!Outcome
<1>2. CASE FlushHeader(t) \/ WriteHeader(t)
  BY <1>2 DEF FlushHeader, WriteHeader, groupVars, Reported, OnItsWay, Threw
<1>3. CASE StartTask(t)
  <2>1. task' = [task EXCEPT ![t] = "running"] /\ UNCHANGED <<main, exception, result, owner, debug>>
    BY <1>3 DEF StartTask, Group!Start, process
  <2>2. Threw' => Threw BY <1>1, <2>1 DEF Threw
  <2> QED BY <2>1, <2>2 DEF Reported, OnItsWay
<1>4. ASSUME NEW o \in {"returned", "threw"}, Group!End(t, o), main # "killed", UNCHANGED <<process, disk, runs>>
      PROVE Reported'
  <2>1. /\ task[t] = "running" /\ task' = [task EXCEPT ![t] = o]
        /\ owner' = IF owner # "calling" THEN owner ELSE IF o = "threw" THEN "unwinding" ELSE "open"
        /\ UNCHANGED <<main, exception, result, debug>>
    BY <1>4 DEF Group!End, process
  <2>2. debug => main = "adding" /\ owner = "calling" BY <1>4, <2>1, RunsWhileCalled
  <2>3. debug => ~Threw BY <2>2 DEF Reported, OnItsWay
  <2>4. CASE o = "threw" BY <2>1, <2>2, <2>4 DEF Reported, OnItsWay
  <2>5. CASE o = "returned"
    <3>1. Threw' => Threw BY <1>1, <2>1, <2>5 DEF Threw
    <3> QED BY <2>1, <2>3, <3>1 DEF Reported
  <2> QED BY <2>4, <2>5
<1>5. CASE ComposeThrows(t) \/ EndTask(t)
  BY <1>4, <1>5 DEF ComposeThrows, EndTask, HasDue, Running
<1> QED BY <1>2, <1>3, <1>5 DEF TaskStep

\* What a task throws in a debug build is never lost: run() returns 1.
THEOREM ThrownIsReported == Spec => []DebugReportsTasks
<1>1. Init => Reported
  BY DEF Init, Group!Init, Reported, Threw
<1>2. IInv /\ Reported /\ [Next]_vars => Reported'
  <2>1. ASSUME Reported, UNCHANGED vars PROVE Reported'
    BY <2>1 DEF vars, process, groupVars, Reported, OnItsWay, Threw
  <2> QED BY <2>1, MainReports, TaskReports DEF Next
<1>3. Reported => DebugReportsTasks BY DEF Reported, OnItsWay, Threw, DebugReportsTasks
<1> QED BY <1>1, <1>2, <1>3, Invariance, PTL DEF Spec
=============================================================================
