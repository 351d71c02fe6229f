--------------------- MODULE TypeDependencyGraphProofs ---------------------
(***************************************************************************)
(* Proofs about TypeDependencyGraph for any number of types and any         *)
(* metadata: the inductive invariant of the walk, and that it implements    *)
(* DefinitionOrder.                                                         *)
(***************************************************************************)
EXTENDS TypeDependencyGraph, FiniteSetTheorems, SequenceTheorems, WellFoundedInduction, TLAPS

Job == INSTANCE DefinitionOrderProofs WITH
    deps <- DepsOf,
    roots <- Elems(input.roots),
    order <- emitted,
    outcome <- IF Ended THEN phase ELSE "open"

-----------------------------------------------------------------------------
(* The inductive invariant *)

\* The references of t before position k that become edges have become edges.
Followed(t, k) ==
    \A j \in 1..Len(input.refs[t]) :
        j < k /\ BecomesEdge(input.refs[t][j])
            => input.refs[t][j].to \in Elems(edges[t])

\* The active types are distinct nodes.
StackOK ==
    /\ \A i \in 1..Len(stack) : stack[i] \in nodes
    /\ \A i, j \in 1..Len(stack) : stack[i] = stack[j] => i = j

\* Edges come from references, and a node that is not under construction has
\* all of them.  The caller of an activation has added the edge to it.
EdgesOK ==
    /\ \A t \in Type : Elems(edges[t]) \subseteq Deps(t)
    /\ \A t \in nodes : phase # "adding" \/ t \notin Elems(stack)
            => Followed(t, Len(input.refs[t]) + 1)
    /\ phase = "adding" => \A i \in 1..Len(stack) :
            Followed(stack[i], IF i < Len(stack) THEN next[stack[i]] + 1
                                                 ELSE next[stack[i]])

\* The nodes are the added roots and what they lead to.
NodesOK ==
    /\ \A i \in 1..added : input.roots[i] \in nodes
    /\ phase # "adding" => added = Len(input.roots)
    /\ \A S \in SUBSET Type : Abstract!Closed(S) => nodes \subseteq S

\* Nothing is visited while the graph is built.
NotWalked ==
    phase = "adding" => emitted = <<>> /\ \A t \in Type : state[t] = "not_started"

\* The stack holds the types being walked; each waits for the next at its own
\* loop position, and the edges before that position are complete.
WalkOK ==
    phase = "walking" =>
        /\ \A t \in Type : state[t] = "walking" <=> t \in Elems(stack)
        /\ \A t \in Type : state[t] = "complete" <=> t \in Elems(emitted)
        /\ \A i \in 1..(Len(stack) - 1) :
              /\ next[stack[i]] <= Len(edges[stack[i]])
              /\ edges[stack[i]][next[stack[i]]] = stack[i + 1]
        /\ \A i \in 1..Len(stack) : \A j \in 1..Len(edges[stack[i]]) :
              j < next[stack[i]] => edges[stack[i]][j] \in Elems(emitted)

\* What is emitted contains its own dependencies, and no cycle.
EmittedOK ==
    /\ Elems(emitted) \subseteq nodes
    /\ Job!Settled(DepsOf, Elems(emitted))

EndOK ==
    /\ phase = "done" => Elems(emitted) = nodes
    /\ phase = "cyclic" => Abstract!Cyclic

IInv ==
    /\ TypeOK /\ EdgesClosed /\ StackOK /\ EdgesOK /\ NodesOK
    /\ NotWalked /\ WalkOK /\ EmittedOK /\ EndOK

-----------------------------------------------------------------------------
(* Sequences *)

LEMMA ElemsAppend ==
    ASSUME NEW T, NEW s \in Seq(T), NEW x \in T
    PROVE  /\ Append(s, x) \in Seq(T)
           /\ Len(Append(s, x)) = Len(s) + 1
           /\ \A i \in 1..Len(s) : Append(s, x)[i] = s[i]
           /\ Append(s, x)[Len(s) + 1] = x
           /\ Elems(Append(s, x)) = Elems(s) \cup {x}
<1>1. /\ Append(s, x) \in Seq(T)
      /\ Len(Append(s, x)) = Len(s) + 1
      /\ \A i \in 1..Len(s) : Append(s, x)[i] = s[i]
      /\ Append(s, x)[Len(s) + 1] = x
  BY AppendProperties
<1>2. Len(s) \in Nat
  OBVIOUS
<1>3. Elems(Append(s, x)) \subseteq Elems(s) \cup {x}
  BY <1>1, <1>2 DEF Elems
<1>4. Elems(s) \subseteq Elems(Append(s, x))
  BY <1>1, <1>2 DEF Elems
<1>5. x \in Elems(Append(s, x))
  <2>1. Len(s) + 1 \in 1..Len(Append(s, x))
    BY <1>1, <1>2
  <2>2. QED
    BY <2>1, <1>1 DEF Elems
<1>6. QED
  BY <1>1, <1>3, <1>4, <1>5

LEMMA ElemsAddEdge ==
    ASSUME NEW s \in Seq(Type), NEW t \in Type
    PROVE  AddEdge(s, t) \in Seq(Type) /\ Elems(AddEdge(s, t)) = Elems(s) \cup {t}
<1>1. CASE t \in Elems(s)
  BY <1>1 DEF AddEdge
<1>2. CASE t \notin Elems(s)
  BY <1>2, ElemsAppend DEF AddEdge
<1>3. QED
  BY <1>1, <1>2

\* What is left of a stack when its top returns.
LEMMA Pop ==
    ASSUME NEW T, NEW s \in Seq(T), s # <<>>
    PROVE  /\ SubSeq(s, 1, Len(s) - 1) \in Seq(T)
           /\ Len(SubSeq(s, 1, Len(s) - 1)) = Len(s) - 1
           /\ \A i \in 1..(Len(s) - 1) : SubSeq(s, 1, Len(s) - 1)[i] = s[i]
           /\ Len(s) \in Nat \ {0}
           /\ s[Len(s)] \in T
<1>1. Len(s) \in Nat \ {0}
  OBVIOUS
<1>2. PICK n \in Nat : n = Len(s) - 1
  BY <1>1
<1>3. \A i \in 1..n : s[i] \in T
  BY <1>2
<1>4. /\ SubSeq(s, 1, n) \in Seq(T)
      /\ Len(SubSeq(s, 1, n)) = IF 1 <= n THEN n - 1 + 1 ELSE 0
      /\ \A i \in 1..(n - 1 + 1) : SubSeq(s, 1, n)[i] = s[1 + i - 1]
  BY <1>3, SubSeqProperties
<1>5. /\ Len(SubSeq(s, 1, n)) = n
      /\ \A i \in 1..n : SubSeq(s, 1, n)[i] = s[i]
  BY <1>4
<1>6. QED
  BY <1>1, <1>2, <1>4, <1>5

-----------------------------------------------------------------------------
(* Facts about the metadata, which no step changes *)

LEMMA InputTypes ==
    ASSUME TypeOK
    PROVE  /\ input.refs \in [Type -> Seq(Reference)]
           /\ input.roots \in Seq(Type)
           /\ \A t \in Type : Len(input.refs[t]) \in Nat
           /\ \A t \in Type : \A j \in 1..Len(input.refs[t]) :
                 BecomesEdge(input.refs[t][j]) => input.refs[t][j].to \in Type
<1>1. /\ input.refs \in [Type -> Seq(Reference)]
      /\ input.roots \in Seq(Type)
  BY DEF TypeOK, Metadata
<1>2. \A t \in Type : Len(input.refs[t]) \in Nat
  BY <1>1
<1>3. \A t \in Type : \A j \in 1..Len(input.refs[t]) : input.refs[t][j] \in Reference
  BY <1>1
<1>4. \A r \in Reference : BecomesEdge(r) => r.to \in Type
  BY DEF Reference, BecomesEdge, StructEdge, DelegateEdge, InterfaceEdge, NoType
<1>5. QED
  BY <1>1, <1>2, <1>3, <1>4

LEMMA SameMetadata ==
    ASSUME UNCHANGED input
    PROVE  /\ \A r : BecomesEdge(r)' <=> BecomesEdge(r)
           /\ \A t : Deps(t)' = Deps(t)
           /\ DepsOf' = DepsOf
           /\ \A S : Abstract!Closed(S)' <=> Abstract!Closed(S)
           /\ Abstract!Cyclic' <=> Abstract!Cyclic
<1>1. \A r : BecomesEdge(r)' <=> BecomesEdge(r)
  BY DEF BecomesEdge, StructEdge, DelegateEdge, InterfaceEdge, IsNested
<1>2. \A t : Deps(t)' = Deps(t)
  BY <1>1 DEF Deps
<1>3. DepsOf' = DepsOf
  BY <1>2 DEF DepsOf
<1>4. \A S : Abstract!Closed(S)' <=> Abstract!Closed(S)
  BY <1>3 DEF Abstract!Closed
<1>5. Abstract!Cyclic' <=> Abstract!Cyclic
  BY <1>3, <1>4 DEF Abstract!Cyclic, Abstract!Needed
<1>6. QED
  BY <1>1, <1>2, <1>3, <1>4, <1>5

\* Edges are never lost.
LEMMA FollowedGrows ==
    ASSUME UNCHANGED input, NEW t, NEW k,
           Elems(edges[t]) \subseteq Elems(edges'[t]), Followed(t, k)
    PROVE  Followed(t, k)'
BY SameMetadata DEF Followed

\* A node all of whose references have been followed has its dependencies as edges.
LEMMA FollowedAll ==
    ASSUME TypeOK, NEW t \in Type, Followed(t, Len(input.refs[t]) + 1)
    PROVE  Deps(t) \subseteq Elems(edges[t])
<1> SUFFICES ASSUME NEW d \in Deps(t) PROVE d \in Elems(edges[t])
  OBVIOUS
<1>1. PICK j \in 1..Len(input.refs[t]) :
        BecomesEdge(input.refs[t][j]) /\ d = input.refs[t][j].to
  BY DEF Deps
<1>2. j < Len(input.refs[t]) + 1
  BY InputTypes
<1>3. QED
  BY <1>1, <1>2 DEF Followed

-----------------------------------------------------------------------------
(* What Call, Advance and Return do to the activations *)

LEMMA Called ==
    ASSUME TypeOK, NEW t \in Type, Call(t)
    PROVE  /\ stack' \in Seq(Type)
           /\ Len(stack) \in Nat
           /\ Len(stack') = Len(stack) + 1
           /\ \A i \in 1..Len(stack) : stack'[i] = stack[i]
           /\ stack'[Len(stack) + 1] = t
           /\ Elems(stack') = Elems(stack) \cup {t}
           /\ next' \in [Type -> Nat \ {0}]
           /\ next'[t] = 1
           /\ \A u \in Type : u # t => next'[u] = next[u]
<1>1. stack' = Append(stack, t) /\ stack \in Seq(Type)
  BY DEF Call, TypeOK
<1>2. /\ stack' \in Seq(Type)
      /\ Len(stack') = Len(stack) + 1
      /\ \A i \in 1..Len(stack) : stack'[i] = stack[i]
      /\ stack'[Len(stack) + 1] = t
      /\ Elems(stack') = Elems(stack) \cup {t}
  BY <1>1, ElemsAppend
<1>3. Len(stack) \in Nat
  BY <1>1
<1>4. /\ next' \in [Type -> Nat \ {0}]
      /\ next'[t] = 1
      /\ \A u \in Type : u # t => next'[u] = next[u]
  BY DEF Call, TypeOK
<1>5. QED
  BY <1>2, <1>3, <1>4

LEMMA TopType ==
    ASSUME TypeOK, stack # <<>>
    PROVE  /\ Len(stack) \in Nat \ {0}
           /\ Top \in Type
           /\ Top \in Elems(stack)
<1>1. Len(stack) \in Nat \ {0} /\ Top \in Type
  BY Pop DEF Top, TypeOK
<1>2. Len(stack) \in 1..Len(stack)
  BY <1>1
<1>3. QED
  BY <1>1, <1>2 DEF Top, Elems

LEMMA Advanced ==
    ASSUME TypeOK, stack # <<>>, Advance
    PROVE  /\ stack' = stack
           /\ next' \in [Type -> Nat \ {0}]
           /\ next'[Top] = next[Top] + 1
           /\ \A u \in Type : u # Top => next'[u] = next[u]
BY TopType DEF Advance, TypeOK

\* The activation on top is gone; the caller is one position further.
LEMMA Returned ==
    ASSUME TypeOK, StackOK, stack # <<>>, Return
    PROVE  /\ stack' \in Seq(Type)
           /\ Len(stack) \in Nat \ {0}
           /\ Len(stack') = Len(stack) - 1
           /\ \A i \in 1..(Len(stack) - 1) : stack'[i] = stack[i] /\ stack[i] \in Type
           /\ Elems(stack') = Elems(stack) \ {Top}
           /\ next' \in [Type -> Nat \ {0}]
           /\ \A i \in 1..(Len(stack) - 1) : next'[stack[i]] =
                 IF i = Len(stack) - 1 THEN next[stack[i]] + 1 ELSE next[stack[i]]
<1>1. stack' = SubSeq(stack, 1, Len(stack) - 1) /\ stack \in Seq(Type)
  BY DEF Return, TypeOK
<1>2. /\ stack' \in Seq(Type)
      /\ Len(stack) \in Nat \ {0}
      /\ Len(stack') = Len(stack) - 1
      /\ \A i \in 1..(Len(stack) - 1) : stack'[i] = stack[i]
  BY <1>1, Pop
<1>3. \A i \in 1..Len(stack) : stack[i] \in Type
  BY <1>1
<1>4. Elems(stack') = Elems(stack) \ {Top}
  <2>1. Elems(stack') \subseteq Elems(stack) \ {Top}
    BY <1>2 DEF Elems, StackOK, Top
  <2>2. Elems(stack) \ {Top} \subseteq Elems(stack')
    <3> SUFFICES ASSUME NEW i \in 1..Len(stack), stack[i] # Top
                 PROVE  stack[i] \in Elems(stack')
      BY DEF Elems
    <3>1. i \in 1..(Len(stack) - 1)
      BY <1>2 DEF Top
    <3>2. QED
      BY <3>1, <1>2 DEF Elems
  <2>3. QED
    BY <2>1, <2>2
<1>5. CASE Len(stack) = 1
  BY <1>2, <1>4, <1>5 DEF Return, TypeOK
<1>6. CASE Len(stack) > 1
  <2> DEFINE c == stack[Len(stack) - 1]
  <2>1. Len(stack) - 1 \in 1..Len(stack) /\ c \in Type
    BY <1>2, <1>3, <1>6
  <2>2. next' = [next EXCEPT ![c] = @ + 1]
    BY <1>6 DEF Return
  <2>3. next' \in [Type -> Nat \ {0}]
    <3> HIDE DEF c
    <3>0. next \in [Type -> Nat \ {0}]
      BY DEF TypeOK
    <3>1. next \in [Type -> Nat \ {0}] /\ next[c] + 1 \in Nat \ {0}
      BY <2>1, <3>0
    <3>2. QED
      BY <3>1, <2>2
  <2>4. ASSUME NEW i \in 1..(Len(stack) - 1)
        PROVE  next'[stack[i]] =
                 IF i = Len(stack) - 1 THEN next[stack[i]] + 1 ELSE next[stack[i]]
    <3>1. i \in 1..Len(stack) /\ stack[i] \in Type
      BY <1>2, <1>3
    <3>2. stack[i] = c => i = Len(stack) - 1
      BY <2>1, <3>1 DEF StackOK
    <3>3. QED
      BY <2>1, <2>2, <3>1, <3>2 DEF TypeOK
  <2>5. QED
    BY <1>2, <1>3, <1>4, <2>3, <2>4
<1>7. QED
  BY <1>2, <1>5, <1>6

-----------------------------------------------------------------------------
(* The invariant holds initially *)

LEMMA InitIInv == Init => IInv
<1> SUFFICES ASSUME Init PROVE IInv
  OBVIOUS
<1> USE DEF Init
<1>1. Elems(<<>>) = {}
  BY DEF Elems
<1>2. \A t \in Type : Elems(edges[t]) = {}
  BY <1>1
<1>3. TypeOK
  <2>1. input \in Metadata
    BY InputsAssumption
  <2>2. input.roots \in Seq(Type)
    BY <2>1 DEF Metadata
  <2>3. added \in 0..Len(input.roots)
    BY <2>2
  <2>4. QED
    BY <2>1, <2>3 DEF TypeOK
<1>4. EdgesClosed /\ StackOK /\ EdgesOK
  BY <1>2 DEF EdgesClosed, StackOK, EdgesOK
<1>5. NodesOK
  BY DEF NodesOK
<1>6. NotWalked /\ WalkOK /\ EndOK
  BY DEF NotWalked, WalkOK, EndOK
<1>7. EmittedOK
  BY <1>1 DEF EmittedOK, Job!Settled
<1>8. QED
  BY <1>3, <1>4, <1>5, <1>6, <1>7 DEF IInv

-----------------------------------------------------------------------------
(* Building the graph *)

LEMMA AddRootStep ==
    ASSUME IInv, AddRoot
    PROVE  IInv'
<1> USE DEF IInv
<1> DEFINE t == input.roots[added + 1]
<1>1. /\ phase = "adding" /\ stack = <<>> /\ added + 1 \in 1..Len(input.roots)
      /\ added' = added + 1 /\ t \in Type
      /\ UNCHANGED <<input, phase, edges, state, emitted>>
      /\ nodes' = nodes \cup {t}
  <2>1. added \in Nat /\ Len(input.roots) \in Nat
    BY InputTypes DEF TypeOK
  <2>2. added + 1 \in 1..Len(input.roots)
    BY <2>1 DEF AddRoot
  <2>3. t \in Type
    BY <2>2, InputTypes
  <2>4. QED
    BY <2>2, <2>3 DEF AddRoot
<1>2. Elems(stack) = {} /\ Len(stack) = 0
  BY <1>1 DEF Elems
<1>3. \/ t \in nodes /\ stack' = stack /\ next' = next
      \/ t \notin nodes /\ Call(t)
  BY <1>1 DEF AddRoot
<1>3a. ASSUME t \notin nodes
       PROVE  /\ stack' \in Seq(Type) /\ Len(stack') = 1 /\ stack'[1] = t
              /\ Elems(stack') = {t}
              /\ next' \in [Type -> Nat \ {0}] /\ next'[t] = 1
  BY <1>1, <1>2, <1>3, <1>3a, Called
<1>4. TypeOK'
  <2>1. stack' \in Seq(Type) /\ next' \in [Type -> Nat \ {0}]
    BY <1>3, <1>3a DEF TypeOK
  <2>2. added' \in 0..Len(input.roots)
    BY <1>1, InputTypes DEF TypeOK
  <2>3. QED
    BY <1>1, <2>1, <2>2 DEF TypeOK
<1>5. EdgesClosed'
  BY <1>1 DEF EdgesClosed
<1>6. StackOK'
  BY <1>1, <1>2, <1>3, <1>3a DEF StackOK
<1>7. EdgesOK'
  <2>1. \A u, k : Followed(u, k) => Followed(u, k)'
    BY <1>1, FollowedGrows
  <2>2. \A u \in Type : Elems(edges'[u]) \subseteq Deps(u)'
    BY <1>1, SameMetadata DEF EdgesOK
  <2>3. \A u \in nodes' : u \notin Elems(stack') => Followed(u, Len(input.refs[u]) + 1)'
    <3> SUFFICES ASSUME NEW u \in nodes', u \notin Elems(stack')
                 PROVE  Followed(u, Len(input.refs[u]) + 1)
      BY <1>1, <2>1
    <3>1. u # t \/ t \in nodes
      BY <1>3, <1>3a
    <3>2. QED
      BY <1>1, <1>2, <3>1 DEF EdgesOK
  <2>4. \A i \in 1..Len(stack') : Followed(stack[i], IF i < Len(stack) THEN next[stack[i]] + 1
                                                 ELSE next[stack[i]])'
    <3>2. CASE t \notin nodes
      <4> SUFFICES ASSUME NEW i \in 1..Len(stack')
                   PROVE  Followed(stack[i], IF i < Len(stack) THEN next[stack[i]] + 1
                                                 ELSE next[stack[i]])'
        OBVIOUS
      <4>1. i = 1 /\ ~(i < Len(stack')) /\ next'[stack'[i]] = 1
        <5>1. Len(stack') = 1 /\ stack'[1] = t /\ next'[t] = 1
          BY <1>3a, <3>2
        <5>2. i = 1
          BY <5>1
        <5>3. QED
          BY <5>1, <5>2
      <4>2. QED
        BY <4>1 DEF Followed
    <3>3. CASE t \in nodes
      BY <1>2, <1>3, <3>3
    <3>4. QED
      BY <3>2, <3>3
  <2>5. QED
    BY <1>1, <2>2, <2>3, <2>4 DEF EdgesOK
<1>8. NodesOK'
  <2>1. \A i \in 1..(added + 1) : input.roots[i] \in nodes'
    BY <1>1 DEF NodesOK, TypeOK
  <2>2. \A S \in SUBSET Type : Abstract!Closed(S) => nodes' \subseteq S
    <3> SUFFICES ASSUME NEW S \in SUBSET Type, Abstract!Closed(S) PROVE nodes' \subseteq S
      OBVIOUS
    <3>1. t \in Elems(input.roots)
      BY <1>1 DEF Elems
    <3>2. QED
      BY <1>1, <3>1 DEF NodesOK, Abstract!Closed
  <2>3. QED
    BY <1>1, <2>1, <2>2, SameMetadata DEF NodesOK
<1>9. NotWalked' /\ WalkOK' /\ EndOK'
  BY <1>1 DEF NotWalked, WalkOK, EndOK
<1>10. EmittedOK'
  BY <1>1, SameMetadata DEF EmittedOK, Job!Settled
<1>11. QED
  BY <1>4, <1>5, <1>6, <1>7, <1>8, <1>9, <1>10

\* What a step that looks at the next reference of the type on top starts from.
LEMMA CurrentReference ==
    ASSUME IInv, AddReference
    PROVE  LET r == input.refs[Top][next[Top]] IN
           /\ phase = "adding" /\ stack # <<>>
           /\ Top \in Type /\ Top \in nodes /\ Top \in Elems(stack)
           /\ Len(stack) \in Nat \ {0}
           /\ next[Top] \in 1..Len(input.refs[Top])
           /\ BecomesEdge(r) => r.to \in Type /\ r.to \in Deps(Top)
<1> USE DEF IInv
<1>1. /\ phase = "adding" /\ stack # <<>> /\ next[Top] <= Len(input.refs[Top])
  BY DEF AddReference
<1>2. Top \in Type /\ Top \in Elems(stack) /\ Len(stack) \in Nat \ {0}
  BY <1>1, TopType
<1>3. Top \in nodes
  BY <1>2 DEF StackOK, Top
<1>4. next[Top] \in Nat \ {0}
  BY <1>2 DEF TypeOK
<1>5. next[Top] \in 1..Len(input.refs[Top])
  BY <1>1, <1>2, <1>4, InputTypes
<1>6. QED
  BY <1>1, <1>2, <1>3, <1>5, InputTypes DEF Deps

LEMMA AddReferenceStep ==
    ASSUME IInv, AddReference
    PROVE  IInv'
<1> USE DEF IInv
<1> DEFINE r == input.refs[Top][next[Top]]
<1>1. /\ phase = "adding" /\ stack # <<>>
      /\ Top \in Type /\ Top \in nodes /\ Top \in Elems(stack)
      /\ Len(stack) \in Nat \ {0}
      /\ next[Top] \in 1..Len(input.refs[Top])
      /\ BecomesEdge(r) => r.to \in Type /\ r.to \in Deps(Top)
  BY CurrentReference
<1>2. UNCHANGED <<input, phase, added, state, emitted>>
  BY DEF AddReference
<1>3. \/ /\ ~BecomesEdge(r)
         /\ Advance
         /\ UNCHANGED <<nodes, edges>>
      \/ /\ BecomesEdge(r) /\ r.to \in nodes
         /\ Advance
         /\ nodes' = nodes
         /\ edges' = [edges EXCEPT ![Top] = AddEdge(@, r.to)]
      \/ /\ BecomesEdge(r) /\ r.to \notin nodes
         /\ Call(r.to)
         /\ nodes' = nodes \cup {r.to}
         /\ edges' = [edges EXCEPT ![Top] = AddEdge(@, r.to)]
  BY DEF AddReference
<1> HIDE DEF r
<1>4. /\ edges' \in [Type -> Seq(Type)]
      /\ \A u \in Type : u # Top => edges'[u] = edges[u]
      /\ Elems(edges'[Top]) = IF BecomesEdge(r) THEN Elems(edges[Top]) \cup {r.to}
                                               ELSE Elems(edges[Top])
  <2>1. edges \in [Type -> Seq(Type)]
    BY DEF TypeOK
  <2>2. CASE ~BecomesEdge(r)
    BY <1>3, <2>1, <2>2
  <2>3. CASE BecomesEdge(r)
    <3>1. AddEdge(edges[Top], r.to) \in Seq(Type)
      BY <1>1, <2>1, <2>3, ElemsAddEdge
    <3>2. edges' = [edges EXCEPT ![Top] = AddEdge(edges[Top], r.to)]
      BY <1>3, <2>3
    <3>3. Elems(AddEdge(edges[Top], r.to)) = Elems(edges[Top]) \cup {r.to}
      BY <1>1, <2>1, <2>3, ElemsAddEdge
    <3>4. QED
      BY <1>1, <2>1, <2>3, <3>1, <3>2, <3>3
  <2>4. QED
    BY <2>2, <2>3
<1>5. nodes \subseteq nodes' /\ (BecomesEdge(r) => r.to \in nodes')
      /\ \A u \in nodes' : u \in nodes \/ (BecomesEdge(r) /\ u = r.to)
  BY <1>3
<1>6. \/ /\ stack' = stack
         /\ next'[Top] = next[Top] + 1
         /\ \A u \in Type : u # Top => next'[u] = next[u]
         /\ nodes' = nodes
      \/ /\ BecomesEdge(r) /\ r.to \notin nodes
         /\ Len(stack') = Len(stack) + 1
         /\ \A i \in 1..Len(stack) : stack'[i] = stack[i]
         /\ stack'[Len(stack) + 1] = r.to
         /\ Elems(stack') = Elems(stack) \cup {r.to}
         /\ next'[r.to] = 1
         /\ \A u \in Type : u # r.to => next'[u] = next[u]
  BY <1>1, <1>3, Advanced, Called
<1>7. TypeOK'
  <2>1. stack' \in Seq(Type) /\ next' \in [Type -> Nat \ {0}]
    BY <1>1, <1>3, Advanced, Called DEF TypeOK
  <2>2. nodes' \subseteq Type
    BY <1>1, <1>5 DEF TypeOK
  <2>3. QED
    BY <1>2, <1>4, <2>1, <2>2 DEF TypeOK
<1>8. EdgesClosed'
  BY <1>1, <1>4, <1>5 DEF EdgesClosed
<1>9. \A i \in 1..Len(stack) : stack[i] \in Type /\ stack[i] \in nodes /\ stack[i] \in Elems(stack)
  BY DEF StackOK, TypeOK, Elems
<1>10. StackOK'
  BY <1>1, <1>5, <1>6, <1>9 DEF StackOK
<1>11. EdgesOK'
  <2>1. \A u \in Type : Elems(edges[u]) \subseteq Elems(edges'[u])
    BY <1>4
  <2>2. \A u \in Type : \A k : Followed(u, k) => Followed(u, k)'
    BY <1>2, <2>1, FollowedGrows
  <2>3. \A u \in Type : Elems(edges'[u]) \subseteq Deps(u)'
    BY <1>1, <1>2, <1>4, SameMetadata DEF EdgesOK
  <2>4. Elems(stack) \subseteq Elems(stack') /\ \A u \in nodes' : u \in nodes \/ u \in Elems(stack')
    BY <1>5, <1>6
  <2>5. \A u \in nodes' : u \notin Elems(stack') => Followed(u, Len(input.refs[u]) + 1)'
    BY <1>1, <1>2, <2>2, <2>4 DEF EdgesOK, TypeOK
  <2>6. PICK t \in Type, n \in Nat : t = Top /\ n = next[Top]
    BY <1>1 DEF TypeOK
  <2>7. Followed(t, n + 1)'
    <3>1. Followed(t, n)
      BY <1>1, <2>6 DEF EdgesOK, Top
    <3>2. SUFFICES ASSUME NEW j \in 1..Len(input.refs[t]), j < n + 1,
                          BecomesEdge(input.refs[t][j])
                   PROVE  input.refs[t][j].to \in Elems(edges'[t])
      BY <1>2, SameMetadata DEF Followed
    <3>3. CASE j < n
      BY <2>1, <3>1, <3>2, <3>3 DEF Followed
    <3>4. CASE j = n
      BY <1>4, <2>6, <3>2, <3>4 DEF r
    <3>5. QED
      BY <2>6, <3>2, <3>3, <3>4
  <2>8. ASSUME NEW i \in 1..Len(stack')
        PROVE  Followed(stack[i], IF i < Len(stack) THEN next[stack[i]] + 1
                                                    ELSE next[stack[i]])'
    <3>1. CASE i \in 1..Len(stack) /\ i < Len(stack)
      <4>1. /\ stack'[i] = stack[i] /\ i < Len(stack')
            /\ stack[i] # Top /\ next'[stack[i]] = next[stack[i]]
        BY <1>1, <1>6, <1>9, <3>1 DEF StackOK, Top
      <4>2. PICK u \in Type, k \in Nat : u = stack[i] /\ k = next[stack[i]] + 1
        <5>1. stack[i] \in Type /\ next \in [Type -> Nat \ {0}]
          BY <1>9, <3>1 DEF TypeOK
        <5>2. next[stack[i]] + 1 \in Nat
          BY <5>1
        <5>3. QED
          BY <5>1, <5>2
      <4>3. Followed(u, k)'
        BY <1>1, <2>2, <3>1, <4>2 DEF EdgesOK
      <4>4. QED
        BY <4>1, <4>2, <4>3
    <3>2. CASE i = Len(stack)
      <4>1. /\ stack'[i] = t
            /\ (IF i < Len(stack') THEN next'[t] + 1 ELSE next'[t]) = n + 1
        BY <1>1, <1>6, <2>6, <3>2 DEF Top
      <4>2. QED
        BY <2>7, <4>1
    <3>3. CASE i = Len(stack) + 1
      <4>1. /\ Len(stack') = Len(stack) + 1 /\ stack'[i] = r.to /\ next'[r.to] = 1
        BY <1>1, <1>6, <3>3
      <4>2. QED
        BY <1>1, <3>3, <4>1 DEF Followed
    <3>4. QED
      BY <1>1, <1>6, <3>1, <3>2, <3>3
  <2>9. QED
    BY <1>1, <1>2, <2>3, <2>5, <2>8 DEF EdgesOK
<1>12. NodesOK'
  <2>1. \A S \in SUBSET Type : Abstract!Closed(S) => nodes' \subseteq S
    <3> SUFFICES ASSUME NEW S \in SUBSET Type, Abstract!Closed(S) PROVE nodes' \subseteq S
      OBVIOUS
    <3>1. Top \in S /\ Deps(Top) \subseteq S
      BY <1>1 DEF NodesOK, Abstract!Closed, DepsOf
    <3>2. QED
      BY <1>1, <1>5, <3>1 DEF NodesOK
  <2>2. QED
    BY <1>1, <1>2, <1>5, <2>1, SameMetadata DEF NodesOK
<1>13. NotWalked' /\ WalkOK' /\ EndOK'
  BY <1>1, <1>2 DEF NotWalked, WalkOK, EndOK
<1>14. EmittedOK'
  BY <1>2, <1>5, SameMetadata DEF EmittedOK, Job!Settled
<1>15. QED
  BY <1>7, <1>8, <1>10, <1>11, <1>12, <1>13, <1>14

LEMMA AddReturnStep ==
    ASSUME IInv, AddReturn
    PROVE  IInv'
<1> USE DEF IInv
<1>1. /\ phase = "adding" /\ stack # <<>>
      /\ next[Top] > Len(input.refs[Top]) /\ Return
      /\ UNCHANGED <<input, phase, added, nodes, edges, state, emitted>>
  BY DEF AddReturn
<1>2. /\ stack' \in Seq(Type)
      /\ Len(stack) \in Nat \ {0}
      /\ Len(stack') = Len(stack) - 1
      /\ \A i \in 1..(Len(stack) - 1) : stack'[i] = stack[i] /\ stack[i] \in Type
      /\ Elems(stack') = Elems(stack) \ {Top}
      /\ next' \in [Type -> Nat \ {0}]
      /\ \A i \in 1..(Len(stack) - 1) : next'[stack[i]] =
            IF i = Len(stack) - 1 THEN next[stack[i]] + 1 ELSE next[stack[i]]
  BY <1>1, Returned
<1>3. Top \in Type
  BY <1>1, TopType
<1>4. TypeOK'
  BY <1>1, <1>2 DEF TypeOK
<1>5. EdgesClosed'
  BY <1>1 DEF EdgesClosed
<1>6. StackOK'
  BY <1>1, <1>2 DEF StackOK
<1>7. EdgesOK'
  <2>1. \A u, k : Followed(u, k) => Followed(u, k)'
    BY <1>1, FollowedGrows
  <2>2. \A u \in Type : Elems(edges'[u]) \subseteq Deps(u)'
    BY <1>1, SameMetadata DEF EdgesOK
  <2>3. Followed(Top, Len(input.refs[Top]) + 1)
    <3>1. Followed(Top, next[Top])
      BY <1>1, <1>2 DEF EdgesOK, Top
    <3>2. next[Top] \in Nat /\ Len(input.refs[Top]) \in Nat
      BY <1>3, InputTypes DEF TypeOK
    <3>3. \A j \in 1..Len(input.refs[Top]) : j < next[Top]
      BY <1>1, <3>2
    <3>4. QED
      BY <3>1, <3>3 DEF Followed
  <2>4. \A u \in nodes : u \notin Elems(stack') => Followed(u, Len(input.refs[u]) + 1)
    BY <1>2, <2>3 DEF EdgesOK
  <2>5. ASSUME NEW i \in 1..Len(stack')
        PROVE  Followed(stack[i], IF i < Len(stack) THEN next[stack[i]] + 1
                                                    ELSE next[stack[i]])'
    <3>1. i \in 1..(Len(stack) - 1) /\ i \in 1..Len(stack) /\ i < Len(stack)
      BY <1>2
    <3>2. PICK u \in Type, k \in Nat : u = stack[i] /\ k = next[stack[i]] + 1
      <4>1. stack[i] \in Type /\ next \in [Type -> Nat \ {0}]
        BY <1>2, <3>1 DEF TypeOK
      <4>2. next[stack[i]] + 1 \in Nat
        BY <4>1
      <4>3. QED
        BY <4>1, <4>2
    <3>3. Followed(u, k)'
      BY <1>1, <2>1, <3>1, <3>2 DEF EdgesOK
    <3>4. /\ stack'[i] = u
          /\ (IF i < Len(stack') THEN next'[u] + 1 ELSE next'[u]) = k
      <4>1. /\ stack'[i] = u
            /\ next'[u] = IF i = Len(stack) - 1 THEN next[u] + 1 ELSE next[u]
        BY <1>2, <3>1, <3>2
      <4>2. i < Len(stack') <=> i # Len(stack) - 1
        BY <1>2, <3>1
      <4>3. QED
        BY <4>1, <4>2, <3>2
    <3>5. QED
      BY <3>3, <3>4
  <2>6. QED
    BY <1>1, <2>1, <2>2, <2>4, <2>5 DEF EdgesOK
<1>8. NodesOK'
  BY <1>1, SameMetadata DEF NodesOK
<1>9. NotWalked' /\ WalkOK' /\ EndOK'
  BY <1>1 DEF NotWalked, WalkOK, EndOK
<1>10. EmittedOK'
  BY <1>1, SameMetadata DEF EmittedOK, Job!Settled
<1>11. QED
  BY <1>4, <1>5, <1>6, <1>7, <1>8, <1>9, <1>10

LEMMA BeginWalkStep ==
    ASSUME IInv, BeginWalk
    PROVE  IInv'
<1> USE DEF IInv
<1>1. /\ phase = "adding" /\ stack = <<>> /\ added = Len(input.roots)
      /\ phase' = "walking"
      /\ UNCHANGED <<input, added, nodes, edges, state, stack, next, emitted>>
  BY DEF BeginWalk
<1>2. Elems(stack) = {} /\ Len(stack) = 0 /\ Elems(emitted) = {}
  BY <1>1 DEF NotWalked, Elems
<1>3. TypeOK'
  BY <1>1 DEF TypeOK
<1>4. EdgesClosed' /\ StackOK'
  BY <1>1 DEF EdgesClosed, StackOK
<1>5. EdgesOK'
  <2>1. \A u, k : Followed(u, k) => Followed(u, k)'
    BY <1>1, FollowedGrows
  <2>2. \A u \in Type : Elems(edges'[u]) \subseteq Deps(u)'
    BY <1>1, SameMetadata DEF EdgesOK
  <2>3. \A u \in nodes : Followed(u, Len(input.refs[u]) + 1)
    BY <1>1, <1>2 DEF EdgesOK
  <2>4. QED
    BY <1>1, <2>1, <2>2, <2>3 DEF EdgesOK
<1>6. NodesOK'
  BY <1>1, SameMetadata DEF NodesOK
<1>7. NotWalked' /\ EndOK'
  BY <1>1 DEF NotWalked, EndOK
<1>8. WalkOK'
  BY <1>1, <1>2 DEF WalkOK, NotWalked
<1>9. EmittedOK'
  BY <1>1, SameMetadata DEF EmittedOK, Job!Settled
<1>10. QED
  BY <1>3, <1>4, <1>5, <1>6, <1>7, <1>8, <1>9

-----------------------------------------------------------------------------
(* Walking it *)

\* The walk leaves the graph alone.
LEMMA GraphKept ==
    ASSUME IInv, phase = "walking", phase' # "adding",
           UNCHANGED <<input, added, nodes, edges>>
    PROVE  EdgesClosed' /\ EdgesOK' /\ NodesOK' /\ NotWalked'
<1> USE DEF IInv
<1>1. \A u, k : Followed(u, k) => Followed(u, k)'
  BY FollowedGrows
<1>2. EdgesOK'
  <2>1. \A u \in Type : Elems(edges'[u]) \subseteq Deps(u)'
    BY SameMetadata DEF EdgesOK
  <2>2. \A u \in nodes : Followed(u, Len(input.refs[u]) + 1)
    BY DEF EdgesOK
  <2>3. QED
    BY <1>1, <2>1, <2>2 DEF EdgesOK
<1>3. EdgesClosed' /\ NotWalked'
  BY DEF EdgesClosed, NotWalked
<1>4. NodesOK'
  BY SameMetadata DEF NodesOK
<1>5. QED
  BY <1>2, <1>3, <1>4

\* Once the graph is built the edges of a node are its dependencies.
LEMMA EdgesAreDeps ==
    ASSUME IInv, phase # "adding"
    PROVE  \A t \in nodes : Elems(edges[t]) = Deps(t)
<1> TAKE t \in nodes
<1>1. t \in Type /\ Followed(t, Len(input.refs[t]) + 1)
  BY DEF IInv, TypeOK, EdgesOK
<1>2. QED
  BY <1>1, FollowedAll DEF IInv, EdgesOK

\* The activations on the stack, while the walk runs.
LEMMA WalkStack ==
    ASSUME IInv, phase = "walking", stack # <<>>
    PROVE  /\ Len(stack) \in Nat \ {0}
           /\ Top \in Type /\ Top \in nodes /\ Top \in Elems(stack)
           /\ \A i \in 1..Len(stack) : stack[i] \in Type /\ stack[i] \in nodes
           /\ next[Top] \in Nat \ {0}
           /\ Len(edges[Top]) \in Nat
           /\ \A j \in 1..Len(edges[Top]) : edges[Top][j] \in nodes
           /\ nodes \subseteq Type
<1> USE DEF IInv
<1>1. /\ Len(stack) \in Nat \ {0} /\ Top \in Type /\ Top \in Elems(stack)
  BY TopType
<1>2. \A i \in 1..Len(stack) : stack[i] \in Type /\ stack[i] \in nodes
  BY DEF TypeOK, StackOK
<1>3. Top \in nodes
  BY <1>1, <1>2 DEF Top
<1>4. next[Top] \in Nat \ {0} /\ nodes \subseteq Type
  BY <1>1 DEF TypeOK
<1>5. edges[Top] \in Seq(Type)
  BY <1>1 DEF TypeOK
<1>6. \A j \in 1..Len(edges[Top]) : edges[Top][j] \in Elems(edges[Top])
  BY DEF Elems
<1>7. QED
  BY <1>1, <1>2, <1>3, <1>4, <1>5, <1>6 DEF EdgesClosed

\* Descending into a node that has not been visited: the first of a walk, or
\* the edge at which the type on top has arrived.
LEMMA DescendStep ==
    ASSUME IInv, phase = "walking", NEW e \in nodes, state[e] = "not_started",
           stack = <<>> \/ (/\ next[Top] \in 1..Len(edges[Top])
                           /\ edges[Top][next[Top]] = e),
           state' = [state EXCEPT ![e] = "walking"], Call(e),
           UNCHANGED <<input, phase, added, nodes, edges, emitted>>
    PROVE  IInv'
<1> USE DEF IInv
<1>1. e \in Type /\ nodes \subseteq Type
  BY DEF TypeOK
<1>2. /\ stack' \in Seq(Type)
      /\ Len(stack) \in Nat
      /\ Len(stack') = Len(stack) + 1
      /\ \A i \in 1..Len(stack) : stack'[i] = stack[i]
      /\ stack'[Len(stack) + 1] = e
      /\ Elems(stack') = Elems(stack) \cup {e}
      /\ next' \in [Type -> Nat \ {0}]
      /\ next'[e] = 1
      /\ \A u \in Type : u # e => next'[u] = next[u]
  BY <1>1, Called
<1>3. e \notin Elems(stack)
  BY <1>1 DEF WalkOK
<1>4. \A i \in 1..Len(stack) : /\ stack[i] \in Type /\ stack[i] \in nodes
                               /\ stack[i] # e /\ next'[stack[i]] = next[stack[i]]
  <2>1. \A i \in 1..Len(stack) : stack[i] \in Elems(stack) /\ stack[i] \in nodes
    BY DEF Elems, StackOK
  <2>2. QED
    BY <1>1, <1>2, <1>3, <2>1
<1>5. /\ state' \in [Type -> {"not_started", "walking", "complete"}]
      /\ state'[e] = "walking"
      /\ \A u \in Type : u # e => state'[u] = state[u]
  BY <1>1 DEF TypeOK
<1>6. TypeOK'
  BY <1>2, <1>5 DEF TypeOK
<1>7. EdgesClosed' /\ EdgesOK' /\ NodesOK' /\ NotWalked'
  BY GraphKept
<1>8. StackOK'
  <2>1. \A i \in 1..Len(stack') : \/ i \in 1..Len(stack) /\ stack'[i] = stack[i] /\ stack[i] # e
                                  \/ i = Len(stack) + 1 /\ stack'[i] = e
    BY <1>2, <1>4
  <2>2. \A i \in 1..Len(stack') : stack'[i] \in nodes'
    BY <1>4, <2>1
  <2>3. \A i, j \in 1..Len(stack') : stack'[i] = stack'[j] => i = j
    BY <2>1 DEF StackOK
  <2>4. QED
    BY <2>2, <2>3 DEF StackOK
<1>9. WalkOK'
  <2>1. \A u \in Type : state'[u] = "walking" <=> u \in Elems(stack')
    BY <1>2, <1>5 DEF WalkOK
  <2>2. \A u \in Type : state'[u] = "complete" <=> u \in Elems(emitted)
    BY <1>5 DEF WalkOK
  <2>3. ASSUME NEW i \in 1..(Len(stack') - 1)
        PROVE  /\ next'[stack'[i]] <= Len(edges[stack'[i]])
               /\ edges[stack'[i]][next'[stack'[i]]] = stack'[i + 1]
    <3>1. i \in 1..Len(stack) /\ stack'[i] = stack[i] /\ next'[stack'[i]] = next[stack[i]]
      BY <1>2, <1>4
    <3>2. CASE i = Len(stack)
      <4>1. stack # <<>> /\ stack[i] = Top /\ stack'[i + 1] = e
        BY <1>2, <3>1, <3>2 DEF Top
      <4>2. QED
        BY <3>1, <4>1
    <3>3. CASE i \in 1..(Len(stack) - 1)
      <4>1. i + 1 \in 1..Len(stack)
        BY <1>2, <3>3
      <4>2. QED
        BY <1>2, <3>1, <3>3, <4>1 DEF WalkOK
    <3>4. QED
      BY <1>2, <3>1, <3>2, <3>3
  <2>4. ASSUME NEW i \in 1..Len(stack'), NEW j \in 1..Len(edges[stack'[i]]),
               j < next'[stack'[i]]
        PROVE  edges[stack'[i]][j] \in Elems(emitted)
    <3>1. CASE i = Len(stack) + 1
      BY <1>2, <2>4, <3>1
    <3>2. CASE i \in 1..Len(stack)
      <4>1. stack'[i] = stack[i] /\ next'[stack'[i]] = next[stack[i]]
        BY <1>2, <1>4, <3>2
      <4>2. j \in 1..Len(edges[stack[i]]) /\ j < next[stack[i]]
        BY <2>4, <4>1
      <4>3. edges[stack[i]][j] \in Elems(emitted)
        BY <3>2, <4>2 DEF WalkOK
      <4>4. QED
        BY <4>1, <4>3
    <3>3. QED
      BY <1>2, <3>1, <3>2
  <2>5. QED
    BY <2>1, <2>2, <2>3, <2>4 DEF WalkOK
<1>10. EmittedOK' /\ EndOK'
  BY SameMetadata DEF EmittedOK, EndOK, Job!Settled
<1>11. QED
  BY <1>6, <1>7, <1>8, <1>9, <1>10

LEMMA WalkNextStep ==
    ASSUME IInv, WalkNext
    PROVE  IInv'
<1>1. PICK t \in Eligible : state' = [state EXCEPT ![t] = "walking"] /\ Call(t)
  BY DEF WalkNext
<1>2. t \in nodes /\ state[t] = "not_started"
  BY DEF Eligible
<1>3. phase = "walking" /\ stack = <<>> /\ UNCHANGED <<input, phase, added, nodes, edges, emitted>>
  BY DEF WalkNext
<1>4. QED
  BY <1>1, <1>2, <1>3, DescendStep

\* An edge that leads back to a type on the stack closes a cycle of those above it.
LEMMA BackEdgeIsCycle ==
    ASSUME IInv, phase = "walking", stack # <<>>,
           next[Top] \in 1..Len(edges[Top]),
           state[edges[Top][next[Top]]] = "walking"
    PROVE  Abstract!Cyclic
<1> USE DEF IInv
<1> DEFINE e == edges[Top][next[Top]]
<1>1. /\ Len(stack) \in Nat \ {0}
      /\ Top \in Type /\ Top \in nodes
      /\ \A i \in 1..Len(stack) : stack[i] \in Type /\ stack[i] \in nodes
      /\ e \in nodes /\ e \in Type
  BY WalkStack
<1>2. PICK k \in 1..Len(stack) : stack[k] = e
  BY <1>1 DEF WalkOK, Elems
<1> DEFINE S == {stack[i] : i \in k..Len(stack)}
<1>3. S # {} /\ S \in SUBSET nodes
  BY <1>1, <1>2
<1>4. S \in SUBSET Abstract!Needed
  <2>1. nodes \subseteq Abstract!Needed
    BY DEF NodesOK, Abstract!Needed, TypeOK
  <2>2. QED
    BY <1>3, <2>1
<1>5. ASSUME NEW i \in k..Len(stack)
      PROVE  DepsOf[stack[i]] \cap S # {}
  <2>1. i \in 1..Len(stack) /\ stack[i] \in nodes /\ stack[i] \in Type
    BY <1>1, <1>2
  <2>2. DepsOf[stack[i]] = Elems(edges[stack[i]])
    BY <2>1, EdgesAreDeps DEF DepsOf
  <2>3. CASE i = Len(stack)
    <3>1. e \in Elems(edges[stack[i]])
      BY <2>3 DEF Elems, Top
    <3>2. e \in S
      BY <1>1, <1>2
    <3>3. QED
      BY <2>2, <3>1, <3>2
  <2>4. CASE i # Len(stack)
    <3>1. i \in 1..(Len(stack) - 1) /\ i + 1 \in k..Len(stack)
      BY <1>1, <1>2, <2>4
    <3>2. /\ next[stack[i]] <= Len(edges[stack[i]])
          /\ edges[stack[i]][next[stack[i]]] = stack[i + 1]
      BY <3>1 DEF WalkOK
    <3>3. next[stack[i]] \in Nat \ {0} /\ edges[stack[i]] \in Seq(Type)
      BY <2>1 DEF TypeOK
    <3>4. next[stack[i]] \in 1..Len(edges[stack[i]])
      BY <3>2, <3>3
    <3>5. stack[i + 1] \in Elems(edges[stack[i]]) /\ stack[i + 1] \in S
      BY <3>1, <3>2, <3>4 DEF Elems
    <3>6. QED
      BY <2>2, <3>5
  <2>5. QED
    BY <2>3, <2>4
<1>6. \A s \in S : DepsOf[s] \cap S # {}
  BY <1>5
<1> HIDE DEF S
<1>7. QED
  BY <1>3, <1>4, <1>6 DEF Abstract!Cyclic

LEMMA VisitEdgeStep ==
    ASSUME IInv, VisitEdge
    PROVE  IInv'
<1> USE DEF IInv
<1> DEFINE e == edges[Top][next[Top]]
<1>1. /\ phase = "walking" /\ stack # <<>> /\ next[Top] <= Len(edges[Top])
      /\ UNCHANGED <<input, added, nodes, edges, emitted>>
  BY DEF VisitEdge
<1>2. /\ Len(stack) \in Nat \ {0}
      /\ Top \in Type /\ Top \in nodes
      /\ \A i \in 1..Len(stack) : stack[i] \in Type /\ stack[i] \in nodes
      /\ next[Top] \in 1..Len(edges[Top])
      /\ e \in nodes /\ e \in Type
  BY <1>1, WalkStack
<1>3. CASE state[e] = "not_started" /\ state' = [state EXCEPT ![e] = "walking"]
           /\ Call(e) /\ UNCHANGED phase
  BY <1>1, <1>2, <1>3, DescendStep
<1>4. CASE state[e] = "complete" /\ Advance /\ UNCHANGED <<phase, state>>
  <2>1. /\ stack' = stack
        /\ next' \in [Type -> Nat \ {0}]
        /\ next'[Top] = next[Top] + 1
        /\ \A u \in Type : u # Top => next'[u] = next[u]
    BY <1>1, <1>4, Advanced
  <2>2. TypeOK' /\ StackOK'
    BY <1>1, <1>4, <2>1 DEF TypeOK, StackOK
  <2>3. EdgesClosed' /\ EdgesOK' /\ NodesOK' /\ NotWalked'
    BY <1>1, <1>4, GraphKept
  <2>4. WalkOK'
    <3>1. ASSUME NEW i \in 1..(Len(stack) - 1)
          PROVE  /\ next'[stack[i]] <= Len(edges[stack[i]])
                 /\ edges[stack[i]][next'[stack[i]]] = stack[i + 1]
      <4>1. next'[stack[i]] = next[stack[i]]
        BY <1>2, <2>1 DEF StackOK, Top
      <4>2. QED
        BY <1>1, <4>1 DEF WalkOK
    <3>2. ASSUME NEW i \in 1..Len(stack), NEW j \in 1..Len(edges[stack[i]]),
                 j < next'[stack[i]]
          PROVE  edges[stack[i]][j] \in Elems(emitted)
      <4>1. CASE stack[i] = Top /\ j = next[Top]
        BY <1>1, <1>2, <1>4, <4>1 DEF WalkOK
      <4>2. CASE ~(stack[i] = Top /\ j = next[Top])
        <5>1. j < next[stack[i]]
          BY <1>2, <2>1, <3>2, <4>2
        <5>2. QED
          BY <1>1, <5>1 DEF WalkOK
      <4>3. QED
        BY <4>1, <4>2
    <3>3. QED
      BY <1>1, <1>4, <2>1, <3>1, <3>2 DEF WalkOK
  <2>5. EmittedOK' /\ EndOK'
    BY <1>1, <1>4, SameMetadata DEF EmittedOK, EndOK, Job!Settled
  <2>6. QED
    BY <2>2, <2>3, <2>4, <2>5
<1>5. CASE state[e] = "walking" /\ phase' = "cyclic" /\ UNCHANGED <<state, stack, next>>
  <2>1. Abstract!Cyclic
    BY <1>1, <1>2, <1>5, BackEdgeIsCycle
  <2>2. TypeOK' /\ StackOK' /\ WalkOK'
    <3>1. TypeOK'
      BY <1>1, <1>5 DEF TypeOK
    <3>2. StackOK' /\ WalkOK'
      BY <1>1, <1>5 DEF StackOK, WalkOK
    <3>3. QED
      BY <3>1, <3>2
  <2>3. EdgesClosed' /\ EdgesOK' /\ NodesOK' /\ NotWalked'
    BY <1>1, <1>5, GraphKept
  <2>4. EmittedOK' /\ EndOK'
    BY <1>1, <1>5, <2>1, SameMetadata DEF EmittedOK, EndOK, Job!Settled
  <2>5. QED
    BY <2>2, <2>3, <2>4
<1>6. QED
  BY <1>3, <1>4, <1>5 DEF VisitEdge

LEMMA VisitReturnStep ==
    ASSUME IInv, VisitReturn
    PROVE  IInv'
<1> USE DEF IInv
<1>1. /\ phase = "walking" /\ stack # <<>> /\ next[Top] > Len(edges[Top])
      /\ state' = [state EXCEPT ![Top] = "complete"]
      /\ UNCHANGED <<input, added, nodes, edges>>
  BY DEF VisitReturn
<1>2. /\ Len(stack) \in Nat \ {0}
      /\ Top \in Type /\ Top \in nodes /\ Top \in Elems(stack)
      /\ \A i \in 1..Len(stack) : stack[i] \in Type /\ stack[i] \in nodes
      /\ next[Top] \in Nat \ {0} /\ Len(edges[Top]) \in Nat
      /\ nodes \subseteq Type
  BY <1>1, WalkStack
<1>3. /\ state' \in [Type -> {"not_started", "walking", "complete"}]
      /\ state'[Top] = "complete"
      /\ \A u \in Type : u # Top => state'[u] = state[u]
  BY <1>1, <1>2 DEF TypeOK
<1>4. CASE phase' = "threw" /\ UNCHANGED <<emitted, stack, next>>
  <2>1. TypeOK'
    BY <1>1, <1>3, <1>4 DEF TypeOK
  <2>2. EdgesClosed' /\ EdgesOK' /\ NodesOK' /\ NotWalked'
    BY <1>1, <1>4, GraphKept
  <2>3. StackOK' /\ WalkOK' /\ EndOK'
    BY <1>1, <1>4 DEF StackOK, WalkOK, EndOK
  <2>4. EmittedOK'
    BY <1>1, <1>4, SameMetadata DEF EmittedOK, Job!Settled
  <2>5. QED
    BY <2>1, <2>2, <2>3, <2>4
<1>5. CASE emitted' = Append(emitted, Top) /\ Return /\ UNCHANGED phase
  <2>1. /\ emitted' \in Seq(Type) /\ Elems(emitted') = Elems(emitted) \cup {Top}
    BY <1>2, <1>5, ElemsAppend DEF TypeOK
  <2>2. /\ stack' \in Seq(Type)
        /\ Len(stack') = Len(stack) - 1
        /\ \A i \in 1..(Len(stack) - 1) : stack'[i] = stack[i] /\ stack[i] \in Type
        /\ Elems(stack') = Elems(stack) \ {Top}
        /\ next' \in [Type -> Nat \ {0}]
        /\ \A i \in 1..(Len(stack) - 1) : next'[stack[i]] =
              IF i = Len(stack) - 1 THEN next[stack[i]] + 1 ELSE next[stack[i]]
    BY <1>1, <1>5, Returned
  <2>3. TypeOK'
    BY <1>1, <1>3, <1>5, <2>1, <2>2 DEF TypeOK
  <2>4. EdgesClosed' /\ EdgesOK' /\ NodesOK' /\ NotWalked'
    BY <1>1, <1>5, GraphKept
  <2>5. StackOK'
    <3>1. \A i \in 1..Len(stack') : i \in 1..Len(stack) /\ stack'[i] = stack[i]
      BY <1>2, <2>2
    <3>2. \A i \in 1..Len(stack') : stack'[i] \in nodes'
      BY <1>1, <1>2, <3>1
    <3>3. \A i, j \in 1..Len(stack') : stack'[i] = stack'[j] => i = j
      BY <3>1 DEF StackOK
    <3>4. QED
      BY <3>2, <3>3 DEF StackOK
  <2>6. Top \notin Elems(emitted)
    BY <1>1, <1>2 DEF WalkOK
  <2>7. Deps(Top) \subseteq Elems(emitted)
    <3>1. \A j \in 1..Len(edges[Top]) : edges[Top][j] \in Elems(emitted)
      BY <1>1, <1>2 DEF WalkOK, Top
    <3>2. Elems(edges[Top]) \subseteq Elems(emitted)
      BY <3>1 DEF Elems
    <3>3. QED
      BY <1>1, <1>2, <3>2, EdgesAreDeps
  <2>8. WalkOK'
    <3>1. \A u \in Type : state'[u] = "walking" <=> u \in Elems(stack')
      BY <1>1, <1>2, <1>3, <2>2 DEF WalkOK
    <3>2. \A u \in Type : state'[u] = "complete" <=> u \in Elems(emitted')
      BY <1>1, <1>2, <1>3, <2>1 DEF WalkOK
    <3>3. ASSUME NEW i \in 1..(Len(stack') - 1)
          PROVE  /\ next'[stack'[i]] <= Len(edges[stack'[i]])
                 /\ edges[stack'[i]][next'[stack'[i]]] = stack'[i + 1]
      <4>1. /\ i \in 1..(Len(stack) - 1) /\ i + 1 \in 1..(Len(stack) - 1)
            /\ i # Len(stack) - 1
        BY <1>2, <2>2
      <4>2. stack'[i] = stack[i] /\ stack'[i + 1] = stack[i + 1] /\ next'[stack[i]] = next[stack[i]]
        BY <2>2, <4>1
      <4>3. QED
        BY <1>1, <4>1, <4>2 DEF WalkOK
    <3>4. ASSUME NEW i \in 1..Len(stack'), NEW j \in 1..Len(edges[stack'[i]]),
                 j < next'[stack'[i]]
          PROVE  edges[stack'[i]][j] \in Elems(emitted')
      <4>1. i \in 1..(Len(stack) - 1) /\ i \in 1..Len(stack) /\ stack'[i] = stack[i]
        BY <1>2, <2>2
      <4>2. CASE j < next[stack[i]]
        BY <1>1, <2>1, <4>1, <4>2 DEF WalkOK
      <4>3. CASE ~(j < next[stack[i]])
        <5>1. next[stack[i]] \in Nat
          BY <2>2, <4>1 DEF TypeOK
        <5>2. i = Len(stack) - 1 /\ j = next[stack[i]]
          BY <2>2, <3>4, <4>1, <4>3, <5>1
        <5>3. edges[stack[i]][j] = Top
          BY <1>1, <1>2, <4>1, <5>2 DEF WalkOK, Top
        <5>4. QED
          BY <2>1, <4>1, <5>3
      <4>4. QED
        BY <4>2, <4>3
    <3>5. QED
      BY <1>1, <3>1, <3>2, <3>3, <3>4 DEF WalkOK
  <2>9. EmittedOK'
    <3>1. Job!Settled(DepsOf, Elems(emitted) \cup {Top})
      <4>1. DepsOf[Top] \subseteq Elems(emitted) /\ Job!Settled(DepsOf, Elems(emitted))
        BY <1>2, <2>7 DEF DepsOf, EmittedOK
      <4>2. QED
        BY <2>6, <4>1, Job!GrowsWithoutCycle
    <3>2. DepsOf' = DepsOf
      BY <1>1, SameMetadata
    <3>3. QED
      BY <1>1, <1>2, <2>1, <3>1, <3>2 DEF EmittedOK, Job!Settled
  <2>10. EndOK'
    BY <1>1, <1>5 DEF EndOK
  <2>11. QED
    BY <2>3, <2>4, <2>5, <2>8, <2>9, <2>10
<1>6. QED
  BY <1>4, <1>5 DEF VisitReturn

LEMMA EndWalkStep ==
    ASSUME IInv, EndWalk
    PROVE  IInv'
<1> USE DEF IInv
<1>1. /\ phase = "walking" /\ stack = <<>> /\ Eligible = {} /\ phase' = "done"
      /\ UNCHANGED <<input, added, nodes, edges, state, stack, next, emitted>>
  BY DEF EndWalk
<1>2. TypeOK'
  BY <1>1 DEF TypeOK
<1>3. EdgesClosed' /\ EdgesOK' /\ NodesOK' /\ NotWalked'
  BY <1>1, GraphKept
<1>4. StackOK' /\ WalkOK'
  BY <1>1 DEF StackOK, WalkOK
<1>5. EmittedOK'
  BY <1>1, SameMetadata DEF EmittedOK, Job!Settled
<1>6. EndOK'
  <2>1. ASSUME NEW t \in nodes PROVE t \in Elems(emitted)
    <3>1. t \in Type /\ state[t] \in {"walking", "complete"}
      BY <1>1 DEF TypeOK, Eligible
    <3>2. state[t] # "walking"
      BY <1>1, <3>1 DEF WalkOK, Elems
    <3>3. QED
      BY <1>1, <3>1, <3>2 DEF WalkOK
  <2>2. QED
    BY <1>1, <2>1 DEF EndOK, EmittedOK
<1>7. QED
  BY <1>2, <1>3, <1>4, <1>5, <1>6

LEMMA StutterStep ==
    ASSUME IInv, UNCHANGED vars
    PROVE  IInv'
<1> USE DEF IInv, vars
<1>1. TypeOK' /\ EdgesClosed'
  BY DEF TypeOK, EdgesClosed
<1>2. StackOK' /\ NotWalked' /\ WalkOK'
  BY DEF StackOK, NotWalked, WalkOK
<1>3. \A u, k : Followed(u, k)' <=> Followed(u, k)
  BY SameMetadata DEF Followed
<1>4. EdgesOK'
  BY <1>3, SameMetadata DEF EdgesOK, Followed
<1>5. NodesOK' /\ EndOK'
  BY SameMetadata DEF NodesOK, EndOK
<1>6. EmittedOK'
  BY SameMetadata DEF EmittedOK, Job!Settled
<1>7. QED
  BY <1>1, <1>2, <1>4, <1>5, <1>6

LEMMA StepIInv == IInv /\ [Next]_vars => IInv'
BY AddRootStep, AddReferenceStep, AddReturnStep, BeginWalkStep, WalkNextStep,
   VisitEdgeStep, VisitReturnStep, EndWalkStep, StutterStep DEF Next

\* The inductive invariant holds of every reachable state.
THEOREM Invariance == Spec => []IInv
BY InitIInv, StepIInv, PTL DEF Spec

\* Every variable keeps its type, whatever the metadata.
THEOREM TypeCorrect == Spec => []TypeOK
<1>1. IInv => TypeOK
  BY DEF IInv
<1>2. QED
  BY Invariance, <1>1, PTL

\* XLANG_ASSERT(it != graph.end()) in visit() never fails.
THEOREM EdgesStayClosed == Spec => []EdgesClosed
<1>1. IInv => EdgesClosed
  BY DEF IInv
<1>2. QED
  BY Invariance, <1>1, PTL

-----------------------------------------------------------------------------
(* It implements DefinitionOrder *)

LEMMA WrittenIsEmitted == Abstract!Written = Elems(emitted)
BY DEF Abstract!Written, Elems

LEMMA DepsAreTypes ==
    ASSUME TypeOK
    PROVE  DepsOf \in [Type -> SUBSET Type]
<1>1. \A t \in Type : Deps(t) \subseteq Type
  BY InputTypes DEF Deps
<1>2. QED
  BY <1>1 DEF DepsOf

\* When the walk has come to its end the nodes are what has to be written.
LEMMA NodesAreNeeded ==
    ASSUME IInv
    PROVE  /\ nodes \subseteq Abstract!Needed
           /\ phase # "adding" => Abstract!Needed = nodes
<1> USE DEF IInv
<1>1. nodes \subseteq Type /\ nodes \subseteq Abstract!Needed
  BY DEF NodesOK, Abstract!Needed, TypeOK
<1>2. ASSUME phase # "adding" PROVE Abstract!Needed \subseteq nodes
  <2>1. Elems(input.roots) \subseteq nodes
    BY <1>2 DEF NodesOK, Elems
  <2>2. \A t \in nodes : DepsOf[t] \subseteq nodes
    BY <1>1, <1>2, EdgesAreDeps DEF DepsOf, EdgesClosed
  <2>3. Abstract!Closed(nodes)
    BY <2>1, <2>2 DEF Abstract!Closed
  <2>4. QED
    BY <1>1, <2>3 DEF Abstract!Needed
<1>3. QED
  BY <1>1, <1>2

LEMMA InitRefines == Init => Abstract!Init
<1> SUFFICES ASSUME Init PROVE Abstract!Init
  OBVIOUS
<1>1. TypeOK
  BY InitIInv DEF IInv
<1>2. DepsOf \in [Type -> SUBSET Type]
  BY <1>1, DepsAreTypes
<1>3. Elems(input.roots) \in SUBSET Type
  BY <1>1, InputTypes DEF Elems
<1>4. emitted = <<>> /\ ~Ended
  BY DEF Init, Ended
<1>5. QED
  BY <1>2, <1>3, <1>4 DEF Abstract!Init

LEMMA StepRefines == IInv /\ [Next]_vars => [Abstract!Next]_(Abstract!vars)
<1> SUFFICES ASSUME IInv, [Next]_vars PROVE [Abstract!Next]_(Abstract!vars)
  OBVIOUS
<1> USE DEF IInv
<1>1. ASSUME UNCHANGED <<input, emitted>>, Ended' <=> Ended, Ended => UNCHANGED phase
      PROVE  UNCHANGED Abstract!vars
  BY <1>1, SameMetadata DEF Abstract!vars
<1>2. CASE AddRoot \/ AddReference \/ AddReturn \/ WalkNext
  BY <1>1, <1>2 DEF AddRoot, AddReference, AddReturn, WalkNext, Ended
<1>3. CASE BeginWalk
  BY <1>1, <1>3 DEF BeginWalk, Ended
<1>4. CASE VisitEdge
  <2>1. phase = "walking" /\ stack # <<>> /\ UNCHANGED <<input, emitted>>
    BY <1>4 DEF VisitEdge
  <2>2. CASE UNCHANGED phase
    BY <1>1, <2>1, <2>2 DEF Ended
  <2>3. CASE phase' = "cyclic"
    <3>1. Abstract!Cyclic
      <4>1. state[edges[Top][next[Top]]] = "walking"
        BY <1>4, <2>1, <2>3 DEF VisitEdge
      <4>2. next[Top] \in 1..Len(edges[Top])
        BY <1>4, <2>1, WalkStack DEF VisitEdge
      <4>3. QED
        BY <2>1, <4>1, <4>2, BackEdgeIsCycle
    <3>2. Abstract!Refuse
      BY <2>1, <2>3, <3>1, SameMetadata DEF Abstract!Refuse, Ended
    <3>3. QED
      BY <3>2 DEF Abstract!Next
  <2>4. QED
    BY <1>4, <2>2, <2>3 DEF VisitEdge
<1>5. CASE VisitReturn
  <2>1. /\ phase = "walking" /\ stack # <<>> /\ next[Top] > Len(edges[Top])
        /\ UNCHANGED input
    BY <1>5 DEF VisitReturn
  <2>2. Top \in Type /\ Top \in nodes /\ Top \in Elems(stack) /\ Len(stack) \in 1..Len(stack)
    BY <2>1, WalkStack
  <2>3. Top \in Abstract!Needed \ Abstract!Written
    BY <2>1, <2>2, NodesAreNeeded, WrittenIsEmitted DEF WalkOK
  <2>4. CASE phase' = "threw" /\ UNCHANGED <<emitted, stack, next>>
    <3>1. Abstract!GiveUp
      BY <2>1, <2>3, <2>4, SameMetadata DEF Abstract!GiveUp, Ended
    <3>2. QED
      BY <3>1 DEF Abstract!Next
  <2>5. CASE emitted' = Append(emitted, Top) /\ UNCHANGED phase
    <3>1. DepsOf[Top] \subseteq Abstract!Written
      <4>1. \A j \in 1..Len(edges[Top]) : j < next[Top]
        BY <2>1, WalkStack
      <4>2. \A j \in 1..Len(edges[Top]) : edges[Top][j] \in Elems(emitted)
        BY <2>1, <2>2, <4>1 DEF WalkOK, Top
      <4>3. Elems(edges[Top]) \subseteq Elems(emitted)
        BY <4>2 DEF Elems
      <4>4. QED
        BY <2>1, <2>2, <4>3, EdgesAreDeps, WrittenIsEmitted DEF DepsOf
    <3>2. Abstract!Write(Top)
      BY <2>1, <2>3, <2>5, <3>1, SameMetadata DEF Abstract!Write, Ended
    <3>3. QED
      BY <2>2, <3>2 DEF Abstract!Next
  <2>6. QED
    BY <1>5, <2>4, <2>5 DEF VisitReturn
<1>6. CASE EndWalk
  <2>1. IInv'
    BY <1>6, EndWalkStep
  <2>2. /\ phase = "walking" /\ phase' = "done"
        /\ UNCHANGED <<input, emitted, nodes>>
    BY <1>6 DEF EndWalk
  <2>3. Elems(emitted) = nodes
    BY <2>1, <2>2 DEF EndOK, Elems
  <2>4. Abstract!Needed = Abstract!Written
    BY <2>2, <2>3, NodesAreNeeded, WrittenIsEmitted
  <2>5. Abstract!Finish
    BY <2>2, <2>4, SameMetadata DEF Abstract!Finish, Ended
  <2>6. QED
    BY <2>5 DEF Abstract!Next
<1>7. CASE UNCHANGED vars
  BY <1>1, <1>7 DEF vars, Ended
<1>8. QED
  BY <1>2, <1>3, <1>4, <1>5, <1>6, <1>7 DEF Next

\* The graph and its walk keep the promise of DefinitionOrder for every metadata.
THEOREM Implementation == Spec => ImplementsDefinitionOrder
<1>1. Spec => Abstract!Init /\ [][Abstract!Next]_(Abstract!vars)
  BY InitRefines, StepRefines, Invariance, PTL DEF Spec
<1>2. QED
  BY <1>1 DEF ImplementsDefinitionOrder, Abstract!Spec

\* "Cyclic dependency graph encountered" is thrown exactly when there is a cycle.
THEOREM CycleIsExact == Spec => []CycleReportedExactly
<1>1. IInv => CycleReportedExactly
  <2> SUFFICES ASSUME IInv PROVE CycleReportedExactly
    OBVIOUS
  <2>1. ASSUME phase = "done" PROVE ~Abstract!Cyclic
    <3>1. Abstract!Needed = Elems(emitted)
      BY <2>1, NodesAreNeeded DEF IInv, EndOK
    <3>2. QED
      BY <3>1 DEF IInv, EmittedOK, Job!Settled, Abstract!Cyclic
  <2>2. QED
    BY <2>1 DEF IInv, EndOK, CycleReportedExactly
<1>2. QED
  BY Invariance, <1>1, PTL

-----------------------------------------------------------------------------
(* The order is the one that C++ requires *)

\* A set of types that is not empty has a first one: among the intervals that end
\* at one of them there is a minimal one.
LEMMA FirstType ==
    ASSUME NEW B \in SUBSET Type, B # {}
    PROVE  \E x \in B : \A y \in B : x <= y
<1> DEFINE T == {1..k : k \in B}
<1>1. IsWellFoundedOn(StrictSubsetOrdering(Type), SUBSET Type)
  <2>1. IsFiniteSet(Type)
    BY NAssumption, FS_Interval DEF Type
  <2>2. FiniteSubsetsOf(Type) = SUBSET Type
    BY <2>1, FS_FiniteSubsetsOfFinite
  <2>3. QED
    BY <2>1, <2>2, FS_StrictSubsetOrderingWellFounded
<1>2. T \subseteq SUBSET Type /\ T # {}
  <2>1. ASSUME NEW k \in B PROVE (1..k) \subseteq Type
    BY <2>1, NAssumption DEF Type
  <2>2. QED
    BY <2>1
<1>3. PICK X \in T : \A Y \in T : <<Y, X>> \notin StrictSubsetOrdering(Type)
  <2> HIDE DEF T
  <2>1. QED
    BY <1>1, <1>2, WFMin
<1>4. PICK x \in B : X = 1..x
  BY <1>3
<1>5. ASSUME NEW y \in B, y < x PROVE FALSE
  <2>1. y \in Nat \ {0} /\ x \in Nat \ {0}
    BY NAssumption DEF Type
  <2>2. (1..y) \subseteq (1..x) /\ x \in 1..x /\ x \notin 1..y
    BY <1>5, <2>1
  <2>3. <<1..y, 1..x>> \in StrictSubsetOrdering(Type)
    <3>1. 1..y \in SUBSET Type /\ 1..x \in SUBSET Type
      BY NAssumption DEF Type
    <3>2. (1..y) # (1..x)
      BY <2>2
    <3>3. QED
      BY <2>2, <3>1, <3>2 DEF StrictSubsetOrdering
  <2>4. QED
    BY <1>3, <1>4, <2>3
<1>6. ASSUME NEW y \in B PROVE x <= y
  <2>1. y \in Nat /\ x \in Nat
    BY NAssumption DEF Type
  <2>2. QED
    BY <1>5, <2>1
<1>7. QED
  BY <1>6

\* The enclosing type of each nested type is an earlier one, and a struct.
LEMMA Enclosing ==
    ASSUME input \in Inputs, NEW t \in Type, IsNested(t)
    PROVE  /\ input.encl[t] \in Type
           /\ input.encl[t] < t
           /\ input.category[input.encl[t]] = "struct"
<1>1. input.encl[t] # NoType
  BY DEF IsNested
<1>2. input.encl \in [Type -> Type \cup {NoType}]
  BY InputsAssumption DEF Metadata
<1>3. QED
  BY <1>1, <1>2, NestingAssumption

\* f goes from each of the first n types to its outermost one.
Outer(f, n) ==
    f = [t \in 1..n |-> IF IsNested(t) THEN f[input.encl[t]] ELSE t]

\* Such a function exists for all types: the least n it were missing for would have
\* one for n - 1, which can be extended.
LEMMA OuterExists ==
    ASSUME input \in Inputs
    PROVE  \E f : Outer(f, N)
<1> DEFINE B == {n \in Type : ~ \E f : Outer(f, n)}
<1>1. \E f : Outer(f, 0)
  <2>1. Outer([t \in 1..0 |-> t], 0)
    BY DEF Outer
  <2>2. QED
    BY <2>1
<1>2. CASE B = {}
  <2>1. N = 0 \/ N \in Type
    BY NAssumption DEF Type
  <2>2. QED
    BY <1>1, <1>2, <2>1
<1>3. CASE B # {}
  <2>1. PICK n \in B : \A k \in B : n <= k
    BY <1>3, FirstType
  <2>2. n \in Type /\ n \in Nat \ {0} /\ 1..n \subseteq Type
    BY NAssumption DEF Type
  <2>3. \E f : Outer(f, n - 1)
    <3>1. CASE n = 1
      BY <1>1, <3>1
    <3>2. CASE n # 1
      <4>1. n - 1 \in Type /\ ~(n <= n - 1)
        BY <2>2, <3>2 DEF Type
      <4>2. QED
        BY <2>1, <4>1
    <3>3. QED
      BY <3>1, <3>2
  <2>4. PICK f : Outer(f, n - 1)
    BY <2>3
  <2> DEFINE g == [t \in 1..n |-> IF t = n
                    THEN (IF IsNested(n) THEN f[input.encl[n]] ELSE n) ELSE f[t]]
  <2>5. ASSUME NEW t \in 1..n
        PROVE  g[t] = IF IsNested(t) THEN g[input.encl[t]] ELSE t
    <3>1. t \in Type /\ t \in Nat
      BY <2>2
    <3>2. CASE ~IsNested(t)
      <4>1. CASE t = n
        BY <3>2, <4>1
      <4>2. CASE t # n
        <5>1. t \in 1..(n - 1)
          BY <2>2, <3>1, <4>2
        <5>2. f[t] = t
          BY <2>4, <3>2, <5>1 DEF Outer
        <5>3. QED
          BY <3>2, <4>2, <5>2
      <4>3. QED
        BY <4>1, <4>2
    <3>3. CASE IsNested(t)
      <4>1. input.encl[t] \in 1..n /\ input.encl[t] # n
        BY <2>2, <3>1, <3>3, Enclosing DEF Type
      <4>2. g[input.encl[t]] = f[input.encl[t]]
        BY <4>1
      <4>3. g[t] = f[input.encl[t]]
        <5>1. CASE t = n
          BY <3>3, <5>1
        <5>2. CASE t # n
          <6>1. t \in 1..(n - 1)
            BY <2>2, <3>1, <5>2
          <6>2. QED
            BY <2>4, <3>3, <5>2, <6>1 DEF Outer
        <5>3. QED
          BY <5>1, <5>2
      <4>4. QED
        BY <3>3, <4>2, <4>3
    <3>4. QED
      BY <3>2, <3>3
  <2>6. g = [t \in 1..n |-> IF IsNested(t) THEN g[input.encl[t]] ELSE t]
    BY <2>5
  <2>7. \E h : Outer(h, n)
    <3> HIDE DEF g
    <3>1. QED
      BY <2>6 DEF Outer
  <2>8. QED
    BY <2>1, <2>7
<1>4. QED
  BY <1>2, <1>3

\* What the recursion says of each type.
LEMMA OutermostDef ==
    ASSUME input \in Inputs
    PROVE  \A t \in Type :
             outermost[t] = IF IsNested(t) THEN outermost[input.encl[t]] ELSE t
<1> DEFINE Is(f) == f = [t \in Type |-> IF IsNested(t) THEN f[input.encl[t]] ELSE t]
<1>1. \E f : Is(f)
  BY OuterExists DEF Outer, Type
<1>2. outermost = CHOOSE f : Is(f)
  BY DEF outermost
<1>3. Is(outermost)
  BY <1>1, <1>2
<1>4. QED
  BY <1>3

\* A type with a nested one is a struct, and so is the outermost.
LEMMA OutermostIsStruct ==
    ASSUME input \in Inputs
    PROVE  \A t \in Type : IsNested(t) => input.category[outermost[t]] = "struct"
<1> DEFINE B == {t \in Type : IsNested(t) /\ input.category[outermost[t]] # "struct"}
<1> SUFFICES ASSUME B # {} PROVE FALSE
  OBVIOUS
<1>1. PICK t \in B : \A u \in B : t <= u
  BY FirstType
<1>2. t \in Type /\ IsNested(t) /\ t \in Nat
  BY NAssumption DEF Type
<1> DEFINE e == input.encl[t]
<1>3. e \in Type /\ e < t /\ input.category[e] = "struct" /\ e \in Nat
  BY <1>2, Enclosing DEF Type
<1>4. outermost[t] = outermost[e]
  BY <1>2, OutermostDef
<1>5. CASE IsNested(e)
  <2>1. e \in B
    BY <1>3, <1>4, <1>5
  <2>2. QED
    BY <1>1, <1>2, <1>3, <2>1
<1>6. CASE ~IsNested(e)
  BY <1>3, <1>4, <1>6, OutermostDef
<1>7. QED
  BY <1>5, <1>6

\* What the text of t depends on is found from t: a set that holds t and the dependencies
\* of each of its types holds t's nested structs, each the member of the one around it.
LEMMA NestedReached ==
    ASSUME input \in Inputs, input.kind = "struct", WellNested,
           NEW t \in Type, NEW S, t \in S, \A u \in S : Deps(u) \subseteq S
    PROVE  \A v \in Type : outermost[v] = t /\ (v = t \/ input.category[v] = "struct") => v \in S
<1> DEFINE B == {v \in Type : /\ outermost[v] = t /\ v \notin S
                              /\ v = t \/ input.category[v] = "struct"}
<1> SUFFICES ASSUME B # {} PROVE FALSE
  OBVIOUS
<1>1. PICK v \in B : \A u \in B : v <= u
  BY FirstType
<1>2. /\ v \in Type /\ v \in Nat /\ outermost[v] = t /\ v \notin S /\ v # t
      /\ input.category[v] = "struct"
  BY NAssumption DEF Type
<1>3. IsNested(v)
  BY <1>2, OutermostDef
<1> DEFINE e == input.encl[v]
<1>4. e \in Type /\ e < v /\ input.category[e] = "struct" /\ e \in Nat
  BY <1>2, <1>3, Enclosing DEF Type
<1>5. outermost[e] = t
  BY <1>2, <1>3, OutermostDef
<1>6. e \in S
  <2>1. e \notin B
    BY <1>1, <1>2, <1>4
  <2>2. QED
    BY <1>4, <1>5, <2>1
<1>7. v \in Deps(e)
  <2>1. PICK r \in Elems(input.refs[e]) : r.to = v
    BY <1>2, <1>3 DEF WellNested
  <2>2. BecomesEdge(r)
    BY <1>2, <1>3, <2>1 DEF BecomesEdge, StructEdge, NoType, Type
  <2>3. QED
    BY <2>1, <2>2 DEF Elems, Deps
<1>8. QED
  BY <1>2, <1>6, <1>7

\* Only interfaces are added to a graph of interfaces.
LEMMA EmittedAreInterfaces ==
    ASSUME IInv, input \in Inputs, input.kind = "interface"
    PROVE  \A t \in Elems(emitted) : input.category[t] = "interface"
<1> DEFINE S == {t \in Type : input.category[t] = "interface"}
<1>1. Elems(input.roots) \subseteq S
  <2>1. \A i \in 1..Len(input.roots) : input.roots[i] \in Type
    BY InputTypes DEF IInv
  <2>2. QED
    BY <2>1, BasesAssumption DEF Elems
<1>2. ASSUME NEW t \in S, NEW d \in Deps(t) PROVE d \in S
  <2>1. PICK j \in 1..Len(input.refs[t]) :
             BecomesEdge(input.refs[t][j]) /\ d = input.refs[t][j].to
    BY <1>2 DEF Deps
  <2>2. d \in Type
    BY <2>1, InputTypes DEF IInv
  <2>3. d # NoType
    BY <2>2, NAssumption DEF Type, NoType
  <2>4. QED
    BY <2>1, <2>2, <2>3, BasesAssumption
<1>3. Abstract!Closed(S)
  BY <1>1, <1>2 DEF Abstract!Closed, DepsOf
<1>4. nodes \subseteq S
  BY <1>3 DEF IInv, NodesOK
<1>5. QED
  BY <1>4 DEF IInv, EmittedOK

LEMMA RequiredFirst ==
    ASSUME IInv, input \in Inputs, Job!DependenciesFirst
    PROVE  StructsAndBasesFirst
<1> SUFFICES ASSUME input.kind # "delegate", WellNested,
                    NEW i \in 1..Len(emitted), ~IsNested(emitted[i]),
                    NEW s \in RequiredBy(emitted[i])
             PROVE  s \in {emitted[j] : j \in 1..(i - 1)}
  BY DEF StructsAndBasesFirst, RequiredDefinitionsFirst
<1> DEFINE t == emitted[i]
           Before(k) == {emitted[j] : j \in 1..(k - 1)}
           S == {emitted[j] : j \in 1..i}
<1>1. /\ emitted \in Seq(Type) /\ Len(emitted) \in Nat /\ i \in Nat \ {0}
      /\ input.kind \in {"struct", "interface"}
      /\ \A v \in Type : input.refs[v] \in Seq(Reference)
      /\ \A j \in 1..i : emitted[j] \in Type
  <2>1. emitted \in Seq(Type) /\ input \in Metadata
    BY DEF IInv, TypeOK
  <2>2. Len(emitted) \in Nat
    BY <2>1
  <2>3. \A v \in Type : input.refs[v] \in Seq(Reference)
    BY InputTypes DEF IInv
  <2>4. input.kind \in {"struct", "interface"}
    BY <2>1 DEF Metadata
  <2>5. i \in Nat \ {0} /\ \A j \in 1..i : j \in 1..Len(emitted)
    BY <2>2
  <2>6. QED
    BY <2>1, <2>2, <2>3, <2>4, <2>5
<1>2. t \in Type /\ t \in S
  BY <1>1
<1>3. ASSUME NEW u \in S PROVE Deps(u) \subseteq Before(i)
  <2>1. PICK j \in 1..i : u = emitted[j]
    OBVIOUS
  <2>2. DepsOf[emitted[j]] \subseteq {emitted[k] : k \in 1..(j - 1)}
    <3>1. j \in 1..Len(emitted)
      BY <1>1
    <3>2. QED
      BY <3>1 DEF Job!DependenciesFirst
  <2>3. Deps(u) \subseteq {emitted[k] : k \in 1..(j - 1)}
    BY <1>1, <2>1, <2>2 DEF DepsOf
  <2>4. {emitted[k] : k \in 1..(j - 1)} \subseteq Before(i)
    BY <1>1
  <2>5. QED
    BY <2>3, <2>4
<1>4. Before(i) \subseteq S
  <2>1. \A j \in 1..(i - 1) : j \in 1..i
    BY <1>1
  <2>2. QED
    BY <2>1
<1>5. PICK u \in Type : outermost[u] = t /\ \E r \in Elems(input.refs[u]) :
                                                Requires(t, r) /\ s = outermost[r.to]
  BY DEF RequiredBy
<1>6. PICK r \in Elems(input.refs[u]) : Requires(t, r) /\ s = outermost[r.to]
  BY <1>5
<1>7. PICK k \in 1..Len(input.refs[u]) : r = input.refs[u][k]
  BY DEF Elems
<1>8. r.to \in Type
  <2>1. r \in Reference
    BY <1>1, <1>7
  <2>2. QED
    BY <1>6, <2>1 DEF Reference, Requires
<1>9. ~IsNested(u) => u = t
  BY <1>5, OutermostDef
<1>10. IsNested(r.to) => outermost[r.to] = t
  BY <1>5, <1>8 DEF WellNested
<1>11. ~IsNested(r.to) => s = r.to
  BY <1>6, <1>8, OutermostDef
<1>12. CASE input.kind = "struct"
  <2>1. /\ r.to # NoType /\ r.byValue /\ input.category[r.to] = "struct"
        /\ outermost[r.to] # t
    BY <1>6, <1>12 DEF Requires
  <2>2. s = r.to
    BY <1>10, <1>11, <2>1
  <2>3. u = t \/ input.category[u] = "struct"
    <3>1. CASE IsNested(u)
      BY <1>7, <1>12, <2>1, <3>1, NestedMembersAssumption DEF IsNested
    <3>2. QED
      BY <1>9, <3>1
  <2>4. u \in S
    <3>1. \A v \in S : Deps(v) \subseteq S
      BY <1>3, <1>4
    <3> HIDE DEF S, t
    <3>2. QED
      BY <1>2, <1>5, <1>12, <2>3, <3>1, NestedReached
  <2>5. BecomesEdge(r)
    BY <1>12, <2>1 DEF BecomesEdge, StructEdge
  <2>6. s \in Deps(u)
    BY <1>7, <2>2, <2>5 DEF Deps
  <2>7. QED
    BY <1>3, <2>4, <2>6
<1>13. CASE input.kind = "interface"
  <2>1. r.to # NoType /\ InScope(r.to)
    BY <1>6, <1>13 DEF Requires
  <2>2. input.category[t] = "interface"
    BY <1>1, <1>13, EmittedAreInterfaces DEF Elems
  <2>3. u = t
    <3>1. IsNested(u) => input.category[t] = "struct"
      BY <1>5, OutermostIsStruct
    <3>2. QED
      BY <1>9, <2>2, <3>1
  <2>4. s = r.to
    <3>1. IsNested(r.to) => input.category[t] = "struct"
      BY <1>8, <1>10, OutermostIsStruct
    <3>2. QED
      BY <1>11, <2>2, <3>1
  <2>5. BecomesEdge(r)
    BY <1>13, <2>1 DEF BecomesEdge, InterfaceEdge, InScope
  <2>6. s \in Deps(u)
    BY <1>7, <2>4, <2>5 DEF Deps
  <2>7. QED
    BY <1>2, <1>3, <2>3, <2>6
<1>14. QED
  BY <1>1, <1>12, <1>13

\* When a struct is written, every struct that it, or a struct nested in it, holds by value is
\* already written, and so is the base of an interface.
THEOREM RequiredComeFirst == Spec => []StructsAndBasesFirst
<1>1. Spec => [](input \in Inputs)
  <2>1. Init => input \in Inputs
    BY DEF Init
  <2>2. input \in Inputs /\ [Next]_vars => (input \in Inputs)'
    BY DEF Next, vars, AddRoot, AddReference, AddReturn, BeginWalk,
           WalkNext, VisitEdge, VisitReturn, EndWalk
  <2>3. QED
    BY <2>1, <2>2, PTL DEF Spec
<1>2. Spec => []Job!DependenciesFirst
  <2>1. Init => Job!Init
    BY InitRefines DEF Abstract!Init, Job!Init
  <2>2. [Abstract!Next]_(Abstract!vars) => [Job!Next]_(Job!vars)
    BY DEF Abstract!Next, Abstract!vars, Abstract!Write, Abstract!Finish, Abstract!Refuse,
           Abstract!GiveUp, Abstract!Needed, Abstract!Written, Abstract!Closed, Abstract!Cyclic,
           Job!Next, Job!vars, Job!Write, Job!Finish, Job!Refuse,
           Job!GiveUp, Job!Needed, Job!Written, Job!Closed, Job!Cyclic
  <2>3. Spec => Job!Spec
    BY <2>1, <2>2, StepRefines, Invariance, PTL DEF Spec, Job!Spec
  <2>4. QED
    BY <2>3, Job!OrderIsSound, PTL
<1>3. QED
  BY Invariance, <1>1, <1>2, RequiredFirst, PTL
=============================================================================
