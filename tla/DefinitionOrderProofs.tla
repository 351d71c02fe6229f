----------------------- MODULE DefinitionOrderProofs -----------------------
(***************************************************************************)
(* Proofs that the abstract job keeps its promises for every set of types   *)
(* and every dependency relation.                                           *)
(***************************************************************************)
EXTENDS DefinitionOrder, TLAPS

\* The types W hold all they depend on, and no cycle.
Settled(d, W) ==
    /\ \A t \in W : d[t] \subseteq W
    /\ \A S \in SUBSET W : S # {} => \E s \in S : d[s] \cap S = {}

\* What Write keeps: a definition is written after all definitions it needs, and once.
DependenciesFirst ==
    \A i \in 1..Len(order) :
        /\ deps[order[i]] \subseteq {order[j] : j \in 1..(i - 1)}
        /\ \A j \in 1..(i - 1) : order[j] # order[i]

\* At the end all that is needed is written.
AllWritten == outcome = "done" => Needed = Written

IInv ==
    /\ TypeOK
    /\ DependenciesFirst
    /\ AllWritten
    /\ Settled(deps, Written)
    /\ CircleReportedExactly

\* Appending t writes t and nothing else.
LEMMA WrittenAppend ==
    ASSUME TypeOK, NEW t \in Type, order' = Append(order, t)
    PROVE  /\ Written' = Written \cup {t}
           /\ order' \in Seq(Type)
           /\ Len(order') = Len(order) + 1
           /\ \A i \in 1..Len(order) : order'[i] = order[i]
           /\ order'[Len(order) + 1] = t
<1>1. /\ order' \in Seq(Type)
      /\ Len(order') = Len(order) + 1
      /\ \A i \in 1..Len(order) : order'[i] = order[i]
      /\ order'[Len(order) + 1] = t
  BY DEF TypeOK
<1>2. Len(order) \in Nat
  BY DEF TypeOK
<1>3. Written' \subseteq Written \cup {t}
  BY <1>1, <1>2 DEF Written
<1>4. Written \cup {t} \subseteq Written'
  <2>1. Written \subseteq Written'
    BY <1>1, <1>2 DEF Written
  <2>2. t \in Written'
    <3>1. Len(order) + 1 \in 1..Len(order')
      BY <1>1, <1>2
    <3>2. QED
      BY <3>1, <1>1 DEF Written
  <2>3. QED
    BY <2>1, <2>2
<1>5. QED
  BY <1>1, <1>3, <1>4

\* A set of types that grows by a type whose dependencies it already holds
\* stays without a cycle.
LEMMA GrowsWithoutCycle ==
    ASSUME NEW W, NEW t, NEW d, t \notin W, d[t] \subseteq W, Settled(d, W)
    PROVE  Settled(d, W \cup {t})
<1> USE DEF Settled
<1> SUFFICES ASSUME NEW S \in SUBSET (W \cup {t}), S # {}
             PROVE  \E s \in S : d[s] \cap S = {}
  OBVIOUS
<1>1. CASE S \ {t} = {}
  <2>1. t \in S /\ d[t] \cap S = {}
    BY <1>1
  <2>2. QED
    BY <2>1
<1>2. CASE S \ {t} # {}
  <2>1. S \ {t} \in SUBSET W
    OBVIOUS
  <2>2. PICK s \in S \ {t} : d[s] \cap (S \ {t}) = {}
    BY <1>2, <2>1
  <2>3. t \notin d[s]
    BY <2>1
  <2>4. d[s] \cap S = {}
    BY <2>2, <2>3
  <2>5. QED
    BY <2>4
<1>3. QED
  BY <1>1, <1>2

LEMMA InitIInv == Init => IInv
<1> SUFFICES ASSUME Init PROVE IInv
  OBVIOUS
<1>1. Written = {} /\ Len(order) = 0
  BY DEF Init, Written
<1>2. TypeOK
  BY DEF Init, TypeOK
<1>3. DependenciesFirst
  BY <1>1 DEF DependenciesFirst
<1>4. Settled(deps, Written)
  BY <1>1 DEF Settled
<1>5. CircleReportedExactly /\ AllWritten
  BY DEF Init, CircleReportedExactly, AllWritten
<1>6. QED
  BY <1>2, <1>3, <1>4, <1>5 DEF IInv

LEMMA StepIInv == IInv /\ [Next]_vars => IInv'
<1> SUFFICES ASSUME IInv, [Next]_vars PROVE IInv'
  OBVIOUS
<1> USE DEF IInv
<1>1. ASSUME NEW t \in Type, Write(t) PROVE IInv'
  <2>1. /\ Written' = Written \cup {t}
        /\ order' \in Seq(Type)
        /\ Len(order') = Len(order) + 1
        /\ \A i \in 1..Len(order) : order'[i] = order[i]
        /\ order'[Len(order) + 1] = t
    BY <1>1, WrittenAppend DEF Write
  <2>2. t \notin Written /\ deps[t] \subseteq Written /\ deps' = deps
    BY <1>1 DEF Write
  <2>3. Len(order) \in Nat
    BY DEF TypeOK
  <2>4. TypeOK'
    BY <1>1, <2>1 DEF TypeOK, Write
  <2>5. DependenciesFirst'
    <3> SUFFICES ASSUME NEW i \in 1..(Len(order) + 1)
                 PROVE  /\ deps[order'[i]] \subseteq {order'[j] : j \in 1..(i - 1)}
                        /\ \A j \in 1..(i - 1) : order'[j] # order'[i]
      BY <2>1, <2>2 DEF DependenciesFirst
    <3>0. \A j \in 1..(i - 1) : order'[j] = order[j]
      <4> TAKE j \in 1..(i - 1)
      <4>1. j \in 1..Len(order)
        BY <2>3
      <4>2. QED
        BY <4>1, <2>1
    <3>1. {order'[j] : j \in 1..(i - 1)} = {order[j] : j \in 1..(i - 1)}
      BY <3>0
    <3>2. CASE i \in 1..Len(order)
      <4>1. order'[i] = order[i] /\ \A j \in 1..(i - 1) : order'[j] = order[j]
        BY <3>2, <2>1, <2>3
      <4>2. QED
        BY <4>1, <3>1, <3>2 DEF DependenciesFirst
    <3>3. CASE i = Len(order) + 1
      <4>1. order'[i] = t /\ \A j \in 1..(i - 1) : order'[j] = order[j]
        BY <3>3, <2>1, <2>3
      <4>2. {order[j] : j \in 1..(i - 1)} = Written
        BY <3>3, <2>3 DEF Written
      <4>3. QED
        BY <4>1, <4>2, <3>1, <2>2
    <3>4. QED
      BY <3>2, <3>3, <2>3
  <2>6. Settled(deps, Written)'
    <3>1. Settled(deps, Written \cup {t})
      BY <2>2, GrowsWithoutCycle
    <3>2. QED
      BY <3>1, <2>1, <2>2 DEF Settled
  <2>7. CircleReportedExactly' /\ AllWritten'
    BY <1>1 DEF Write, CircleReportedExactly, AllWritten
  <2>8. QED
    BY <2>4, <2>5, <2>6, <2>7
<1>2. ASSUME UNCHANGED <<deps, roots, order>>,
             outcome' \in {"open", "done", "cyclic", "threw"},
             outcome' = "done" => ~Cyclic /\ Needed = Written, outcome' = "cyclic" => Cyclic
      PROVE  IInv'
  <2>1. TypeOK' /\ DependenciesFirst'
    BY <1>2 DEF TypeOK, DependenciesFirst
  <2>2. Settled(deps, Written)'
    BY <1>2 DEF Settled, Written
  <2>3. Cyclic' = Cyclic
    BY <1>2 DEF Cyclic, Needed, Closed
  <2>4. CircleReportedExactly'
    BY <1>2, <2>3 DEF CircleReportedExactly
  <2>5. Needed' = Needed /\ Written' = Written
    BY <1>2 DEF Needed, Closed, Written
  <2>6. AllWritten'
    BY <1>2, <2>5 DEF AllWritten
  <2>7. QED
    BY <2>1, <2>2, <2>4, <2>6
<1>3. CASE Finish
  <2>1. ~Cyclic
    BY <1>3 DEF Finish, Settled, Cyclic
  <2>2. QED
    BY <1>2, <1>3, <2>1 DEF Finish
<1>4. CASE Refuse
  BY <1>2, <1>4 DEF Refuse
<1>5. CASE GiveUp
  BY <1>2, <1>5 DEF GiveUp
<1>6. CASE UNCHANGED vars
  BY <1>2, <1>6 DEF vars, TypeOK, CircleReportedExactly, AllWritten
<1>7. QED
  BY <1>1, <1>3, <1>4, <1>5, <1>6 DEF Next

\* Every definition is written once, after those it needs.
LEMMA OrderIsSound == Spec => []DependenciesFirst
<1>1. IInv => DependenciesFirst
  BY DEF IInv
<1>2. QED
  BY InitIInv, StepIInv, <1>1, PTL DEF Spec

\* What is needed, but not asked for, is needed by something else that is needed: without it
\* the rest would be closed, and Needed is the least closed set.
LEMMA NeededIsWanted ==
    ASSUME TypeOK, NEW t \in Needed, t \notin roots
    PROVE  \E s \in Needed \ {t} : t \in deps[s]
<1> SUFFICES ASSUME \A s \in Needed \ {t} : t \notin deps[s] PROVE FALSE
  OBVIOUS
<1>1. Needed \ {t} \in SUBSET Type
  BY DEF Needed
<1>2. roots \subseteq Needed \ {t}
  BY DEF TypeOK, Needed, Closed
<1>3. \A s \in Needed : deps[s] \subseteq Needed
  <2> SUFFICES ASSUME NEW s \in Needed, NEW u \in deps[s] PROVE u \in Needed
    OBVIOUS
  <2>1. s \in Type /\ u \in Type
    BY DEF Needed, TypeOK
  <2>2. ASSUME NEW S \in SUBSET Type, Closed(S) PROVE u \in S
    <3>1. s \in S
      BY <2>2 DEF Needed
    <3>2. QED
      BY <2>2, <3>1 DEF Closed
  <2>3. QED
    BY <2>1, <2>2 DEF Needed
<1>4. Closed(Needed \ {t})
  BY <1>2, <1>3 DEF Closed
<1>5. QED
  BY <1>1, <1>4 DEF Needed

LEMMA WantedAtTheEnd == IInv => WrittenForAReason
<1> SUFFICES ASSUME IInv, outcome = "done", NEW i \in 1..Len(order), order[i] \notin roots
             PROVE  \E j \in (i + 1)..Len(order) : order[i] \in deps[order[j]]
  BY DEF WrittenForAReason
<1>1. TypeOK /\ DependenciesFirst /\ Needed = Written
  BY DEF IInv, AllWritten
<1>2. order[i] \in Needed
  BY <1>1 DEF Written
<1>3. PICK s \in Needed \ {order[i]} : order[i] \in deps[s]
  BY <1>1, <1>2, NeededIsWanted
<1>4. PICK j \in 1..Len(order) : s = order[j]
  BY <1>1, <1>3 DEF Written
<1>5. PICK k \in 1..(j - 1) : order[i] = order[k]
  BY <1>1, <1>3, <1>4 DEF DependenciesFirst
<1>6. Len(order) \in Nat
  BY <1>1 DEF TypeOK
<1>7. ~(i < k) /\ ~(k < i)
  <2>1. ASSUME NEW a \in 1..Len(order), NEW b \in 1..Len(order), b < a
        PROVE  order[b] # order[a]
    <3>1. b \in 1..(a - 1)
      BY <1>6, <2>1
    <3>2. QED
      BY <3>1, <1>1 DEF DependenciesFirst
  <2>2. k \in 1..Len(order)
    BY <1>6
  <2>3. QED
    BY <1>5, <2>1, <2>2
<1>8. i = k /\ j \in (i + 1)..Len(order)
  BY <1>6, <1>7
<1>9. QED
  BY <1>3, <1>4, <1>8

\* When the job ends well, every definition it wrote was asked for or is needed by one
\* written after it.
THEOREM WrittenIsWanted == Spec => []WrittenForAReason
BY InitIInv, StepIInv, WantedAtTheEnd, PTL DEF Spec

\* A circle is reported exactly when there is one.
THEOREM CircleIsExact == Spec => []CircleReportedExactly
<1>1. IInv => CircleReportedExactly
  BY DEF IInv
<1>2. QED
  BY InitIInv, StepIInv, <1>1, PTL DEF Spec
=============================================================================
