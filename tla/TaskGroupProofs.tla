-------------------------- MODULE TaskGroupProofs --------------------------
(***************************************************************************)
(* Proofs about TaskGroup: for any number of tasks and both builds, every   *)
(* variable keeps its type, the destructor leaves no task behind, get()     *)
(* rethrows the right exception, and a _DEBUG build is sequential.          *)
(***************************************************************************)
EXTENDS TaskGroup, FiniteSetTheorems, TLAPS

\* A task that has not ended is known to whoever will wait for it.
Tracked(t) ==
    \/ \E i \in 1..Len(futures) : futures[i] = t
    \/ owner = "waiting" /\ \E i \in 1..Len(moved) : moved[i] = t
    \/ owner = "calling"

\* The loops of get() and of the destructor leave only ended tasks behind.
LoopsDone ==
    /\ owner = "waiting" => \A i \in 1..Len(moved) : i < pos => Ended(moved[i])
    /\ owner = "getting" => \A i \in 1..Len(moved) :
                               Ended(moved[i]) /\ (i < pos => task[moved[i]] = "returned")
    /\ owner = "destroying" => \A i \in 1..Len(futures) : i < pos => Ended(futures[i])

\* An exception that get() let out leaves with the owner.
Rethrown == rethrown # None => owner \in {"unwinding", "destroying", "gone"}

\* One callback at a time in a debug build, and no futures.
InPlace ==
    IF debug
    THEN /\ futures = <<>>
         /\ \A t \in Task : task[t] \in {"absent", "running", "returned", "threw"}
         /\ \A t \in Task : task[t] = "running" => owner = "calling"
         /\ \A t, u \in Task : task[t] = "running" /\ task[u] = "running" => t = u
         /\ \A t \in Task : task[t] = "threw" => owner \in {"unwinding", "destroying", "gone"}
    ELSE owner # "calling"

\* The inductive invariant.
IInv ==
    /\ TypeOK
    /\ \A t \in Task : InGroup(t) /\ ~Ended(t) => Tracked(t)
    /\ LoopsDone
    /\ JoinedWhenGone
    /\ GetRethrowsFirst
    /\ Rethrown
    /\ InPlace

-----------------------------------------------------------------------------
(* The actions *)

LEMMA InitIInv == Init => IInv
BY NoneAssumption, BuildsAssumption DEF Init, IInv, TypeOK, Outcome, InGroup, Tracked, LoopsDone,
    JoinedWhenGone, GetRethrowsFirst, Rethrown, InPlace, Ended

\* add() appends a future, or starts the callback in place.
LEMMA AddIInv == ASSUME IInv, NEW t \in Task, Add(t) PROVE IInv'
<1> USE DEF Outcome
<1>1. TypeOK BY DEF IInv
<1>2. CASE debug
  <2>1. /\ owner = "open" /\ task[t] = "absent"
        /\ task' = [task EXCEPT ![t] = "running"]
        /\ owner' = "calling"
        /\ futures' = futures /\ moved' = moved /\ pos' = pos /\ rethrown' = rethrown /\ debug' = debug
    BY <1>2 DEF Add
  <2>2. TypeOK' BY <1>1, <2>1 DEF TypeOK
  <2>3. (\A u \in Task : InGroup(u) /\ ~Ended(u) => Tracked(u))' BY <2>1 DEF Tracked
  <2>4. LoopsDone' /\ JoinedWhenGone' BY <2>1 DEF LoopsDone, JoinedWhenGone
  <2>5. rethrown = None BY <2>1 DEF IInv, Rethrown
  <2>6. Rethrown' /\ GetRethrowsFirst'
    BY <2>1, <2>5, NoneAssumption DEF Rethrown, GetRethrowsFirst
  <2>7. InPlace'
    BY <1>1, <1>2, <2>1 DEF IInv, InPlace, TypeOK
  <2> QED BY <2>2, <2>3, <2>4, <2>6, <2>7 DEF IInv
<1>3. CASE ~debug
  <2>1. /\ owner = "open" /\ task[t] = "absent"
        /\ futures' = Append(futures, t)
        /\ owner' = owner /\ moved' = moved /\ pos' = pos /\ rethrown' = rethrown /\ debug' = debug
    BY <1>3 DEF Add
  <2>2. PICK s \in {"ready", "deferred"} : task' = [task EXCEPT ![t] = s]
    BY <1>3 DEF Add
  <2>3. futures \in Seq(Task) /\ task \in [Task -> {"absent", "ready", "deferred", "running"} \cup Outcome]
    BY <1>1 DEF TypeOK
  <2>4. TypeOK' BY <1>1, <2>1, <2>2, <2>3 DEF TypeOK
  <2>5. (\A u \in Task : InGroup(u) /\ ~Ended(u) => Tracked(u))'
    <3> SUFFICES ASSUME NEW u \in Task, InGroup(u)', ~Ended(u)'
                 PROVE \E i \in 1..Len(futures') : futures'[i] = u
      BY DEF Tracked
    <3>1. CASE u = t
      BY <2>1, <2>3, <3>1
    <3>2. CASE u # t
      <4>1. Tracked(u) BY <3>2, <2>2, <2>3 DEF IInv, InGroup, Ended
      <4>2. PICK i \in 1..Len(futures) : futures[i] = u
        BY <4>1, <2>1, <1>3 DEF Tracked
      <4> QED BY <4>2, <2>1, <2>3
    <3> QED BY <3>1, <3>2
  <2>6. LoopsDone' /\ JoinedWhenGone' BY <2>1 DEF LoopsDone, JoinedWhenGone
  <2>7. rethrown = None BY <2>1 DEF IInv, Rethrown
  <2>8. Rethrown' /\ GetRethrowsFirst'
    BY <2>1, <2>7, NoneAssumption DEF Rethrown, GetRethrowsFirst
  <2>9. InPlace' BY <1>3, <2>1 DEF InPlace
  <2> QED BY <2>4, <2>5, <2>6, <2>8, <2>9 DEF IInv
<1> QED BY <1>2, <1>3

\* get() takes the futures over.
LEMMA GetIInv == ASSUME IInv, Get PROVE IInv'
<1> USE DEF Outcome
<1>1. TypeOK BY DEF IInv
<1>2. /\ owner = "open" /\ owner' = "waiting"
      /\ moved' = futures /\ futures' = <<>> /\ pos' = 1
      /\ task' = task /\ rethrown' = rethrown /\ debug' = debug
  BY DEF Get
<1>3. TypeOK' BY <1>1, <1>2 DEF TypeOK
<1>4. (\A t \in Task : InGroup(t) /\ ~Ended(t) => Tracked(t))'
  BY <1>2 DEF IInv, Tracked, InGroup, Ended
<1>5. LoopsDone' /\ JoinedWhenGone' BY <1>1, <1>2 DEF LoopsDone, JoinedWhenGone, TypeOK
<1>6. rethrown = None BY <1>2 DEF IInv, Rethrown
<1>7. Rethrown' /\ GetRethrowsFirst' BY <1>2, <1>6, NoneAssumption DEF Rethrown, GetRethrowsFirst
<1>8. InPlace' BY <1>2 DEF IInv, InPlace
<1> QED BY <1>3, <1>4, <1>5, <1>7, <1>8 DEF IInv

\* The destructor starts its loop.
LEMMA DestroyIInv == ASSUME IInv, Destroy PROVE IInv'
<1> USE DEF Outcome
<1>1. TypeOK BY DEF IInv
<1>2. /\ owner \in {"open", "unwinding"} /\ owner' = "destroying" /\ pos' = 1
      /\ task' = task /\ futures' = futures /\ moved' = moved /\ rethrown' = rethrown /\ debug' = debug
  BY DEF Destroy
<1>3. TypeOK' BY <1>1, <1>2 DEF TypeOK
<1>4. (\A t \in Task : InGroup(t) /\ ~Ended(t) => Tracked(t))'
  BY <1>2 DEF IInv, Tracked, InGroup, Ended
<1>5. LoopsDone' /\ JoinedWhenGone' BY <1>1, <1>2 DEF LoopsDone, JoinedWhenGone, TypeOK
<1>6. Rethrown' BY <1>2 DEF Rethrown
<1>7. GetRethrowsFirst' BY <1>2 DEF IInv, GetRethrowsFirst, Ended
<1>8. InPlace' BY <1>2 DEF IInv, InPlace
<1> QED BY <1>3, <1>4, <1>5, <1>6, <1>7, <1>8 DEF IInv

\* One wait: a deferred task starts, or the loop gets past an ended one.
LEMMA WaitIInv == ASSUME IInv, Wait PROVE IInv'
<1> USE DEF Outcome
<1>1. TypeOK BY DEF IInv
<1>2. /\ owner \in {"waiting", "destroying"} /\ owner' = owner
      /\ pos <= Len(Joined)
      /\ futures' = futures /\ moved' = moved /\ rethrown' = rethrown /\ debug' = debug
  BY DEF Wait
<1>3. /\ task \in [Task -> {"absent", "ready", "deferred", "running"} \cup Outcome]
      /\ futures \in Seq(Task) /\ moved \in Seq(Task) /\ pos \in Nat \ {0}
  BY <1>1 DEF TypeOK
<1>4. Joined \in Seq(Task) BY <1>3 DEF Joined
<1>5. PICK t \in Task : t = Joined[pos] BY <1>2, <1>3, <1>4
<1>6. CASE task[t] = "deferred" /\ task' = [task EXCEPT ![t] = "running"] /\ pos' = pos
  <2>1. TypeOK' BY <1>1, <1>2, <1>3, <1>6 DEF TypeOK
  <2>2. \A u \in Task : /\ Ended(u) => Ended(u)' /\ task'[u] = task[u]
                        /\ InGroup(u)' => InGroup(u)
                        /\ Ended(u)' => Ended(u)
    BY <1>3, <1>6 DEF Ended, InGroup
  <2>3. (\A u \in Task : InGroup(u) /\ ~Ended(u) => Tracked(u))'
    BY <1>2, <2>2 DEF IInv, Tracked
  <2>4. LoopsDone'
    <3>1. owner' # "getting" BY <1>2
    <3>2. \A i \in 1..Len(moved) : Ended(moved[i]) => Ended(moved[i])'
      BY <1>2, <1>3, <2>2
    <3>3. \A i \in 1..Len(futures) : Ended(futures[i]) => Ended(futures[i])'
      BY <1>2, <1>3, <2>2
    <3> QED BY <3>1, <3>2, <3>3, <1>2, <1>6 DEF IInv, LoopsDone
  <2>5. JoinedWhenGone' BY <1>2 DEF JoinedWhenGone
  <2>6. Rethrown' BY <1>2 DEF IInv, Rethrown
  <2>7. GetRethrowsFirst'
    <3> SUFFICES ASSUME NEW u \in Task, rethrown' = u
                 PROVE \E i \in 1..Len(moved') :
                          /\ moved'[i] = u /\ task'[u] = "threw"
                          /\ \A j \in 1..(i - 1) : task'[moved'[j]] = "returned"
                          /\ \A j \in 1..Len(moved') : Ended(moved[j])'
      BY DEF GetRethrowsFirst
    <3>1. PICK i \in 1..Len(moved) :
             /\ moved[i] = u /\ task[u] = "threw"
             /\ \A j \in 1..(i - 1) : task[moved[j]] = "returned"
             /\ \A j \in 1..Len(moved) : Ended(moved[j])
      BY <1>2 DEF IInv, GetRethrowsFirst
    <3>2. \A j \in 1..Len(moved) : moved[j] \in Task BY <1>3
    <3>3. \A j \in 1..Len(moved) : task'[moved[j]] = task[moved[j]]
      BY <1>3, <1>6, <3>1, <3>2 DEF Ended
    <3> QED BY SMTT(20), <1>2, <1>3, <3>1, <3>2, <3>3 DEF Ended
  <2>8. InPlace' BY <1>2, <1>3, <1>6 DEF IInv, InPlace
  <2> QED BY <2>1, <2>3, <2>4, <2>5, <2>6, <2>7, <2>8 DEF IInv
<1>7. CASE Ended(t) /\ pos' = pos + 1 /\ task' = task
  <2>1. TypeOK' BY <1>1, <1>2, <1>3, <1>7 DEF TypeOK
  <2>2. (\A u \in Task : InGroup(u) /\ ~Ended(u) => Tracked(u))'
    BY <1>2, <1>7 DEF IInv, Tracked, InGroup, Ended
  <2>3. LoopsDone'
    <3>1. CASE owner = "waiting"
      BY <1>2, <1>3, <1>5, <1>7, <3>1 DEF IInv, LoopsDone, Joined, Ended
    <3>2. CASE owner = "destroying"
      BY <1>2, <1>3, <1>5, <1>7, <3>2 DEF IInv, LoopsDone, Joined, Ended
    <3> QED BY <1>2, <3>1, <3>2
  <2>4. JoinedWhenGone' BY <1>2 DEF JoinedWhenGone
  <2>5. Rethrown' BY <1>2 DEF IInv, Rethrown
  <2>6. GetRethrowsFirst' BY <1>2, <1>7 DEF IInv, GetRethrowsFirst, Ended
  <2>7. InPlace' BY <1>2, <1>7 DEF IInv, InPlace
  <2> QED BY <2>1, <2>2, <2>3, <2>4, <2>5, <2>6, <2>7 DEF IInv
<1> QED BY <1>5, <1>6, <1>7 DEF Wait

\* All is waited for; the second loop begins.
LEMMA EndWaitIInv == ASSUME IInv, EndWait PROVE IInv'
<1> USE DEF Outcome
<1>1. TypeOK BY DEF IInv
<1>2. /\ owner = "waiting" /\ pos > Len(moved) /\ owner' = "getting" /\ pos' = 1
      /\ task' = task /\ futures' = futures /\ moved' = moved /\ rethrown' = rethrown /\ debug' = debug
  BY DEF EndWait
<1>3. moved \in Seq(Task) /\ pos \in Nat BY <1>1 DEF TypeOK
<1>4. \A i \in 1..Len(moved) : Ended(moved[i])
  BY <1>2, <1>3 DEF IInv, LoopsDone
<1>5. TypeOK' BY <1>1, <1>2 DEF TypeOK
<1>6. (\A t \in Task : InGroup(t) /\ ~Ended(t) => Tracked(t))'
  BY <1>2, <1>4 DEF IInv, Tracked, InGroup, Ended
<1>7. LoopsDone' /\ JoinedWhenGone' BY <1>2, <1>3, <1>4 DEF LoopsDone, JoinedWhenGone, Ended
<1>8. rethrown = None BY <1>2 DEF IInv, Rethrown
<1>9. Rethrown' /\ GetRethrowsFirst' BY <1>2, <1>8, NoneAssumption DEF Rethrown, GetRethrowsFirst
<1>10. InPlace' BY <1>2 DEF IInv, InPlace
<1> QED BY <1>5, <1>6, <1>7, <1>9, <1>10 DEF IInv

\* One future::get(): the end, an exception, or the next.
LEMMA GetNextIInv == ASSUME IInv, GetNext PROVE IInv'
<1> USE DEF Outcome
<1>1. TypeOK BY DEF IInv
<1>2. /\ owner = "getting" /\ task' = task /\ futures' = futures /\ moved' = moved
      /\ debug' = debug
      /\ owner' \in {"getting", "open", "unwinding"}
  BY DEF GetNext
<1>3. moved \in Seq(Task) /\ pos \in Nat \ {0} BY <1>1 DEF TypeOK
<1>4. rethrown = None BY <1>2 DEF IInv, Rethrown
<1>5. \A i \in 1..Len(moved) : Ended(moved[i]) /\ (i < pos => task[moved[i]] = "returned")
  BY <1>2 DEF IInv, LoopsDone
<1>6. \A t \in Task : InGroup(t) /\ ~Ended(t) => \E i \in 1..Len(futures) : futures[i] = t
  BY <1>2 DEF IInv, Tracked
<1>7. (\A t \in Task : InGroup(t) /\ ~Ended(t) => Tracked(t))'
  BY <1>2, <1>6 DEF Tracked, InGroup, Ended
<1>8. JoinedWhenGone' BY <1>2 DEF JoinedWhenGone
<1>9. CASE pos > Len(moved) /\ owner' = "open" /\ pos' = pos /\ rethrown' = rethrown
  <2>1. TypeOK' /\ LoopsDone' /\ Rethrown' /\ GetRethrowsFirst'
    BY <1>1, <1>2, <1>4, <1>9, NoneAssumption DEF TypeOK, LoopsDone, Rethrown, GetRethrowsFirst
  <2>2. InPlace'
    <3>1. CASE debug
      <4>1. \A t \in Task : InGroup(t) => Ended(t)
        BY <1>6, <3>1 DEF IInv, InPlace
      <4> QED BY <4>1, <1>2, <1>9, <3>1 DEF IInv, InPlace
    <3> QED BY <1>2, <1>9, <3>1 DEF InPlace
  <2> QED BY <1>7, <1>8, <2>1, <2>2 DEF IInv
<1>10. CASE /\ pos <= Len(moved) /\ task[moved[pos]] = "threw"
            /\ owner' = "unwinding" /\ rethrown' = moved[pos] /\ pos' = pos
  <2>1. moved[pos] \in Task BY <1>3, <1>10
  <2>2. TypeOK' /\ LoopsDone' /\ Rethrown'
    BY <1>1, <1>2, <1>10, <2>1 DEF TypeOK, LoopsDone, Rethrown
  <2>3. GetRethrowsFirst'
    <3>1. /\ pos \in 1..Len(moved)
          /\ \A j \in 1..(pos - 1) : task[moved[j]] = "returned"
      BY <1>3, <1>5, <1>10
    <3>2. \A j \in 1..Len(moved) : Ended(moved[j])' BY <1>2, <1>5 DEF Ended
    <3> QED BY <1>2, <1>10, <3>1, <3>2 DEF GetRethrowsFirst
  <2>4. InPlace' BY <1>2, <1>10 DEF IInv, InPlace
  <2> QED BY <1>7, <1>8, <2>2, <2>3, <2>4 DEF IInv
<1>11. CASE /\ pos <= Len(moved) /\ task[moved[pos]] = "returned"
            /\ pos' = pos + 1 /\ owner' = owner /\ rethrown' = rethrown
  <2>1. TypeOK' /\ Rethrown' /\ GetRethrowsFirst'
    BY <1>1, <1>2, <1>3, <1>4, <1>11, NoneAssumption DEF TypeOK, Rethrown, GetRethrowsFirst
  <2>2. LoopsDone' BY <1>2, <1>3, <1>5, <1>11 DEF LoopsDone, Ended
  <2>3. InPlace' BY <1>2, <1>11 DEF IInv, InPlace
  <2> QED BY <1>7, <1>8, <2>1, <2>2, <2>3 DEF IInv
<1> QED BY <1>3, <1>9, <1>10, <1>11 DEF GetNext

\* The destructor returns.
LEMMA EndDestroyIInv == ASSUME IInv, EndDestroy PROVE IInv'
<1> USE DEF Outcome
<1>1. TypeOK BY DEF IInv
<1>2. /\ owner = "destroying" /\ pos > Len(futures) /\ owner' = "gone" /\ pos' = pos
      /\ task' = task /\ futures' = futures /\ moved' = moved /\ rethrown' = rethrown /\ debug' = debug
  BY DEF EndDestroy
<1>3. futures \in Seq(Task) /\ pos \in Nat BY <1>1 DEF TypeOK
<1>4. \A i \in 1..Len(futures) : Ended(futures[i]) BY <1>2, <1>3 DEF IInv, LoopsDone
<1>5. \A t \in Task : InGroup(t) => Ended(t) BY <1>2, <1>4 DEF IInv, Tracked
<1>6. TypeOK' /\ LoopsDone' /\ Rethrown' BY <1>1, <1>2 DEF TypeOK, LoopsDone, Rethrown
<1>7. /\ (\A t \in Task : InGroup(t) /\ ~Ended(t) => Tracked(t))'
      /\ JoinedWhenGone'
  BY <1>2, <1>5 DEF JoinedWhenGone, InGroup, Ended
<1>8. GetRethrowsFirst' BY <1>2 DEF IInv, GetRethrowsFirst, Ended
<1>9. InPlace' BY <1>2 DEF IInv, InPlace
<1> QED BY <1>6, <1>7, <1>8, <1>9 DEF IInv

\* A thread takes a task up.
LEMMA StartIInv == ASSUME IInv, NEW t \in Task, Start(t) PROVE IInv'
<1> USE DEF Outcome
<1>1. TypeOK BY DEF IInv
<1>2. /\ task[t] = "ready" /\ task' = [task EXCEPT ![t] = "running"]
      /\ owner' = owner /\ pos' = pos
      /\ futures' = futures /\ moved' = moved /\ rethrown' = rethrown /\ debug' = debug
  BY DEF Start
<1>3. /\ task \in [Task -> {"absent", "ready", "deferred", "running"} \cup Outcome]
      /\ futures \in Seq(Task) /\ moved \in Seq(Task)
  BY <1>1 DEF TypeOK
<1>4. \A u \in Task : Ended(u) => u # t BY <1>2 DEF Ended
<1>5. TypeOK' BY <1>1, <1>2, <1>3 DEF TypeOK
<1>6. (\A u \in Task : InGroup(u) /\ ~Ended(u) => Tracked(u))'
  BY <1>2, <1>3 DEF IInv, Tracked, InGroup, Ended
<1>7. \A u \in Task : Ended(u) => task'[u] = task[u] BY <1>2, <1>3, <1>4
<1>8. \A i \in 1..Len(moved) : moved[i] \in Task BY <1>3
<1>9. \A i \in 1..Len(futures) : futures[i] \in Task BY <1>3
<1>10. LoopsDone'
  BY <1>2, <1>7, <1>8, <1>9 DEF IInv, LoopsDone, Ended
<1>11. JoinedWhenGone' BY <1>2, <1>7 DEF IInv, JoinedWhenGone, InGroup, Ended
<1>12. Rethrown' BY <1>2 DEF IInv, Rethrown
<1>13. GetRethrowsFirst'
  <2> SUFFICES ASSUME NEW u \in Task, rethrown' = u
               PROVE \E i \in 1..Len(moved') :
                        /\ moved'[i] = u /\ task'[u] = "threw"
                        /\ \A j \in 1..(i - 1) : task'[moved'[j]] = "returned"
                        /\ \A j \in 1..Len(moved') : Ended(moved[j])'
    BY DEF GetRethrowsFirst
  <2>1. PICK i \in 1..Len(moved) :
           /\ moved[i] = u /\ task[u] = "threw"
           /\ \A j \in 1..(i - 1) : task[moved[j]] = "returned"
           /\ \A j \in 1..Len(moved) : Ended(moved[j])
    BY <1>2 DEF IInv, GetRethrowsFirst
  <2>2. \A j \in 1..Len(moved) : task'[moved[j]] = task[moved[j]]
    BY <1>7, <1>8, <2>1
  <2> QED BY <1>2, <1>3, <2>1, <2>2 DEF Ended
<1>14. InPlace' BY <1>2, <1>3 DEF IInv, InPlace
<1> QED BY <1>5, <1>6, <1>10, <1>11, <1>12, <1>13, <1>14 DEF IInv

\* A task ends; in a debug build the owner goes on from add().
LEMMA EndIInv == ASSUME IInv, NEW t \in Task, NEW o \in Outcome, End(t, o) PROVE IInv'
<1> USE DEF Outcome
<1>1. TypeOK BY DEF IInv
<1>2. /\ task[t] = "running" /\ task' = [task EXCEPT ![t] = o]
      /\ owner' = IF owner # "calling" THEN owner
                  ELSE IF o = "threw" THEN "unwinding" ELSE "open"
      /\ pos' = pos
      /\ futures' = futures /\ moved' = moved /\ rethrown' = rethrown /\ debug' = debug
  BY DEF End
<1>3. /\ task \in [Task -> {"absent", "ready", "deferred", "running"} \cup Outcome]
      /\ futures \in Seq(Task) /\ moved \in Seq(Task)
  BY <1>1 DEF TypeOK
<1>4. TypeOK' BY <1>1, <1>2, <1>3 DEF TypeOK
<1>5. \A u \in Task : Ended(u) => u # t BY <1>2 DEF Ended
<1>6. \A u \in Task : Ended(u) => task'[u] = task[u] BY <1>2, <1>3, <1>5
<1>7. \A i \in 1..Len(moved) : moved[i] \in Task BY <1>3
<1>8. \A i \in 1..Len(futures) : futures[i] \in Task BY <1>3
<1>9. (\A u \in Task : InGroup(u) /\ ~Ended(u) => Tracked(u))'
  <2>1. CASE owner = "calling"
    <3>1. debug BY <2>1 DEF IInv, InPlace
    <3>2. \A u \in Task : u # t => task[u] # "running" BY <1>2, <3>1 DEF IInv, InPlace
    <3> QED BY <1>2, <1>3, <3>1, <3>2 DEF IInv, InPlace, InGroup, Ended
  <2>2. CASE owner # "calling"
    BY <1>2, <1>3, <2>2 DEF IInv, Tracked, InGroup, Ended
  <2> QED BY <2>1, <2>2
<1>10. LoopsDone'
  BY <1>2, <1>6, <1>7, <1>8 DEF IInv, LoopsDone, Ended
<1>11. JoinedWhenGone' BY <1>2, <1>6 DEF IInv, JoinedWhenGone, InGroup, Ended
<1>12. Rethrown' BY <1>2 DEF IInv, Rethrown
<1>13. GetRethrowsFirst'
  <2> SUFFICES ASSUME NEW u \in Task, rethrown' = u
               PROVE \E i \in 1..Len(moved') :
                        /\ moved'[i] = u /\ task'[u] = "threw"
                        /\ \A j \in 1..(i - 1) : task'[moved'[j]] = "returned"
                        /\ \A j \in 1..Len(moved') : Ended(moved[j])'
    BY DEF GetRethrowsFirst
  <2>1. PICK i \in 1..Len(moved) :
           /\ moved[i] = u /\ task[u] = "threw"
           /\ \A j \in 1..(i - 1) : task[moved[j]] = "returned"
           /\ \A j \in 1..Len(moved) : Ended(moved[j])
    BY <1>2 DEF IInv, GetRethrowsFirst
  <2>2. \A j \in 1..Len(moved) : task'[moved[j]] = task[moved[j]]
    BY <1>6, <1>7, <2>1
  <2> QED BY <1>2, <1>3, <2>1, <2>2 DEF Ended
<1>14. InPlace'
  <2>1. CASE debug
    <3>1. owner = "calling" /\ \A u \in Task : u # t => task[u] # "running"
      BY <1>2, <2>1 DEF IInv, InPlace
    <3> QED BY <1>2, <1>3, <2>1, <3>1 DEF IInv, InPlace
  <2>2. CASE ~debug
    BY <1>2, <2>2 DEF IInv, InPlace
  <2> QED BY <2>1, <2>2
<1> QED BY <1>4, <1>9, <1>10, <1>11, <1>12, <1>13, <1>14 DEF IInv

-----------------------------------------------------------------------------
(* The theorems *)

LEMMA NextIInv == ASSUME IInv, [Next]_groupVars PROVE IInv'
<1>1. CASE UNCHANGED groupVars
  BY <1>1 DEF groupVars, IInv, TypeOK, InGroup, Ended, Tracked, LoopsDone, JoinedWhenGone,
      GetRethrowsFirst, Rethrown, InPlace
<1>2. CASE Owner
  BY <1>2, AddIInv, GetIInv, DestroyIInv, WaitIInv, EndWaitIInv, GetNextIInv, EndDestroyIInv
    DEF Owner
<1>3. ASSUME NEW t \in Task, Start(t) \/ \E o \in Outcome : End(t, o) PROVE IInv'
  BY <1>3, StartIInv, EndIInv
<1> QED BY <1>1, <1>2, <1>3 DEF Next

THEOREM Invariance == Spec => []IInv
BY InitIInv, NextIInv, PTL DEF Spec

\* Every variable of a group keeps its type.
THEOREM TypeCorrect == Spec => []TypeOK
<1>1. IInv => TypeOK BY DEF IInv
<1> QED BY <1>1, Invariance, PTL

\* The destructor leaves no task behind, whichever were deferred or threw.
THEOREM DestructorJoins == Spec => []JoinedWhenGone
<1>1. IInv => JoinedWhenGone BY DEF IInv
<1> QED BY <1>1, Invariance, PTL

\* get() rethrows the exception of the first failed task, with none still running.
THEOREM GetIsOrderly == Spec => []GetRethrowsFirst
<1>1. IInv => GetRethrowsFirst BY DEF IInv
<1> QED BY <1>1, Invariance, PTL

\* get() swallows no exception.
THEOREM GetIsComplete == Spec => GetMissesNothing
<1>1. ASSUME IInv, Next, owner = "getting", owner' = "open", NEW i \in 1..Len(moved)
      PROVE task[moved[i]] = "returned"
  <2>1. GetNext
    BY <1>1 DEF Next, Owner, Add, Get, Destroy, Wait, EndWait, EndDestroy, Start, End
  <2>2. pos > Len(moved) BY <2>1, <1>1 DEF GetNext
  <2>3. pos \in Nat /\ moved \in Seq(Task) BY <1>1 DEF IInv, TypeOK
  <2> QED BY <1>1, <2>2, <2>3 DEF IInv, LoopsDone
<1>2. IInv /\ [Next]_groupVars =>
        [owner = "getting" /\ owner' = "open"
           => \A i \in 1..Len(moved) : task[moved[i]] = "returned"]_groupVars
  BY <1>1
<1> QED BY <1>2, Invariance, PTL DEF Spec, GetMissesNothing

\* A debug build runs one callback at a time, and none after one that threw.
THEOREM DebugOrder == Spec => []DebugIsSequential
<1>1. ASSUME IInv PROVE DebugIsSequential
  <2> SUFFICES ASSUME debug PROVE DebugIsSequential BY DEF DebugIsSequential
  <2> DEFINE R == {t \in Task : task[t] = "running"}
  <2>1. (\E t \in Task : task[t] = "threw") => owner \notin {"open", "calling"}
    BY <1>1 DEF IInv, InPlace
  <2>2. CASE R = {}
    BY <2>1, <2>2, FS_EmptySet DEF DebugIsSequential
  <2>3. CASE R # {}
    <3>1. PICK t \in Task : task[t] = "running" BY <2>3
    <3>2. R = {t} BY <1>1, <3>1 DEF IInv, InPlace
    <3> QED BY <2>1, <3>2, FS_Singleton DEF DebugIsSequential
  <2> QED BY <2>2, <2>3
<1> QED BY <1>1, Invariance, PTL
=============================================================================
