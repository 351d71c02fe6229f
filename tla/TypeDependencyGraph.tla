------------------------ MODULE TypeDependencyGraph ------------------------
(***************************************************************************)
(* type_dependency_graph: the graph of "hard" dependencies between types    *)
(* and its depth-first walk, which hands every type to the writer after the *)
(* types whose definition it requires.  Building the graph and walking it   *)
(* are recursive functions; their activations are the explicit stack.       *)
(***************************************************************************)
EXTENDS Naturals, Sequences

CONSTANTS N,        \* number of TypeDef rows
          Inputs    \* the metadata the graph may be built from

Type == 1..N        \* a TypeDef, numbered in the order std::map keeps them
NoType == 0         \* what find() returns for a type it cannot resolve

Names == STRING

\* A field, parameter or base: the type it names, and whether it holds that
\* type by value (ptr_count() == 0).
Reference == [to : Type \cup {NoType}, byValue : BOOLEAN]

Metadata ==
    [kind      : {"struct", "delegate", "interface"},  \* which add_... is called
     scope     : Names,                     \* the graph's type_namespace
     category  : [Type -> {"struct", "delegate", "interface", "enum", "class"}],
     namespace : [Type -> Names],
     name      : [Type -> Names],
     encl      : [Type -> Type \cup {NoType}],  \* the enclosing type, if nested
     refs      : [Type -> Seq(Reference)],
     roots     : Seq(Type)]                 \* the types the caller adds, in order

ASSUME NAssumption == N \in Nat
ASSUME InputsAssumption == Inputs \subseteq Metadata

\* Types are nested in structs, and the row of a type is behind that of the type
\* it is nested in (ECMA-335 asks this of the TypeDef table).
ASSUME NestingAssumption ==
    \A m \in Inputs : \A t \in Type :
        m.encl[t] # NoType => m.encl[t] < t /\ m.category[m.encl[t]] = "struct"

\* Among nested types only structs hold structs by value.
ASSUME NestedMembersAssumption ==
    \A m \in Inputs : m.kind = "struct" =>
        \A t \in Type : m.encl[t] # NoType /\ m.category[t] # "struct" =>
            \A i \in 1..Len(m.refs[t]) : m.refs[t][i].to # NoType /\ m.refs[t][i].byValue
                => m.category[m.refs[t][i].to] # "struct"

\* write_complex_interfaces_h adds interfaces, whose bases are interfaces.
ASSUME BasesAssumption ==
    \A m \in Inputs : m.kind = "interface" =>
        /\ \A i \in 1..Len(m.roots) : m.category[m.roots[i]] = "interface"
        /\ \A t \in Type : m.category[t] = "interface" =>
             \A i \in 1..Len(m.refs[t]) : m.refs[t][i].to # NoType
                => m.category[m.refs[t][i].to] = "interface"

VARIABLES
    input,      \* the metadata of this execution; never changes
    phase,      \* "adding", "walking", then "done", "cyclic" or "threw"
    added,      \* how many roots have been added
    nodes,      \* the keys of graph
    edges,      \* node::edges
    state,      \* node::state
    stack,      \* the types whose add_... or visit is active, outermost first
    next,       \* the loop position of the activation of each type
    emitted     \* the types the walk handed to its callback

vars == <<input, phase, added, nodes, edges, state, stack, next, emitted>>

Top == stack[Len(stack)]
Elems(s) == {s[i] : i \in 1..Len(s)}

-----------------------------------------------------------------------------
(* Which references become edges *)

IsNested(t) == t \in Type /\ input.encl[t] # NoType

\* Fault: a pointer to a nested type is not followed.
FaultyStructEdge(r) ==
    r.byValue /\ r.to # NoType /\ input.category[r.to] = "struct"

\* add_struct's condition on a field.
StructEdge(r) ==
    /\ r.byValue \/ IsNested(r.to)
    /\ r.to # NoType
    /\ input.category[r.to] = "struct"

\* add_delegate's condition on the return type and on a parameter: the
\* namespace of the graph is compared with the parameter type's own name.
DelegateEdge(r) ==
    /\ r.to # NoType
    /\ input.category[r.to] = "delegate"
    /\ input.scope = "" \/ input.scope = input.name[r.to]

\* add_interface's condition on the base.
InterfaceEdge(r) ==
    /\ r.to # NoType
    /\ input.scope = "" \/ input.scope = input.namespace[r.to]

BecomesEdge(r) ==
    \/ input.kind = "struct" /\ StructEdge(r)
    \/ input.kind = "delegate" /\ DelegateEdge(r)
    \/ input.kind = "interface" /\ InterfaceEdge(r)

AddEdge(s, t) == IF t \in Elems(s) THEN s ELSE Append(s, t)

-----------------------------------------------------------------------------
(* Activations *)

Call(t) ==
    /\ stack' = Append(stack, t)
    /\ next' = [next EXCEPT ![t] = 1]

\* The loop of the activation on top moves on.
Advance ==
    /\ next' = [next EXCEPT ![Top] = @ + 1]
    /\ UNCHANGED stack

\* The activation on top returns and the loop it was called from moves on.
Return ==
    /\ stack' = SubSeq(stack, 1, Len(stack) - 1)
    /\ next' = IF Len(stack) > 1
               THEN [next EXCEPT ![stack[Len(stack) - 1]] = @ + 1]
               ELSE next

-----------------------------------------------------------------------------
(* Building the graph *)

AddRoot ==
    /\ phase = "adding" /\ stack = <<>>
    /\ added < Len(input.roots)
    /\ added' = added + 1
    /\ LET t == input.roots[added + 1] IN
       IF t \in nodes
       THEN UNCHANGED <<nodes, stack, next>>
       ELSE nodes' = nodes \cup {t} /\ Call(t)
    /\ UNCHANGED <<input, phase, edges, state, emitted>>

\* Fault: the type at the other end is not added itself.
FaultyAddReference ==
    /\ phase = "adding" /\ stack # <<>>
    /\ next[Top] <= Len(input.refs[Top])
    /\ LET r == input.refs[Top][next[Top]] IN
       edges' = IF BecomesEdge(r)
                THEN [edges EXCEPT ![Top] = AddEdge(@, r.to)] ELSE edges
    /\ Advance
    /\ UNCHANGED <<input, phase, added, nodes, state, emitted>>

\* Fault: the edge is added before it is known whether find() found anything.
FaultyLookup ==
    /\ phase = "adding" /\ stack # <<>>
    /\ next[Top] <= Len(input.refs[Top])
    /\ LET r == input.refs[Top][next[Top]] IN
       IF BecomesEdge(r) \/ r.to = NoType
       THEN /\ edges' = [edges EXCEPT ![Top] = AddEdge(@, r.to)]
            /\ nodes' = nodes \cup {r.to}
            /\ IF r.to \in nodes THEN Advance ELSE Call(r.to)
       ELSE Advance /\ UNCHANGED <<nodes, edges>>
    /\ UNCHANGED <<input, phase, added, state, emitted>>

AddReference ==
    /\ phase = "adding" /\ stack # <<>>
    /\ next[Top] <= Len(input.refs[Top])
    /\ LET r == input.refs[Top][next[Top]] IN
       IF BecomesEdge(r)
       THEN /\ edges' = [edges EXCEPT ![Top] = AddEdge(@, r.to)]
            /\ nodes' = nodes \cup {r.to}
            /\ IF r.to \in nodes THEN Advance ELSE Call(r.to)
       ELSE Advance /\ UNCHANGED <<nodes, edges>>
    /\ UNCHANGED <<input, phase, added, state, emitted>>

AddReturn ==
    /\ phase = "adding" /\ stack # <<>>
    /\ next[Top] > Len(input.refs[Top])
    /\ Return
    /\ UNCHANGED <<input, phase, added, nodes, edges, state, emitted>>

BeginWalk ==
    /\ phase = "adding" /\ stack = <<>>
    /\ added = Len(input.roots)
    /\ phase' = "walking"
    /\ UNCHANGED <<input, added, nodes, edges, state, stack, next, emitted>>

-----------------------------------------------------------------------------
(* Walking it *)

Eligible == {t \in nodes : state[t] = "not_started"}

\* std::find_if over the map: the least eligible key.
WalkNext ==
    /\ phase = "walking" /\ stack = <<>>
    /\ \E t \in Eligible :
       /\ \A u \in Eligible : t <= u
       /\ state' = [state EXCEPT ![t] = "walking"]
       /\ Call(t)
    /\ UNCHANGED <<input, phase, added, nodes, edges, emitted>>

\* Fault: a node that is being walked counts as visited.
FaultyVisitEdge ==
    /\ phase = "walking" /\ stack # <<>>
    /\ next[Top] <= Len(edges[Top])
    /\ LET e == edges[Top][next[Top]] IN
       IF state[e] = "not_started"
       THEN state' = [state EXCEPT ![e] = "walking"] /\ Call(e)
       ELSE Advance /\ UNCHANGED state
    /\ UNCHANGED <<input, phase, added, nodes, edges, emitted>>

\* Fault: the loop does not get past a node visited before.
StuckVisitEdge ==
    /\ phase = "walking" /\ stack # <<>>
    /\ next[Top] <= Len(edges[Top])
    /\ LET e == edges[Top][next[Top]] IN
       /\ state[e] = "not_started"
       /\ state' = [state EXCEPT ![e] = "walking"]
       /\ Call(e)
    /\ UNCHANGED <<input, phase, added, nodes, edges, emitted>>

VisitEdge ==
    /\ phase = "walking" /\ stack # <<>>
    /\ next[Top] <= Len(edges[Top])
    /\ LET e == edges[Top][next[Top]] IN
       \/ /\ state[e] = "complete"
          /\ Advance
          /\ UNCHANGED <<phase, state>>
       \/ /\ state[e] = "not_started"
          /\ state' = [state EXCEPT ![e] = "walking"]
          /\ Call(e)
          /\ UNCHANGED phase
       \/ /\ state[e] = "walking"
          /\ phase' = "cyclic"
          /\ UNCHANGED <<state, stack, next>>
    /\ UNCHANGED <<input, added, nodes, edges, emitted>>

\* The node is complete before the callback runs, and the callback may throw.
VisitReturn ==
    /\ phase = "walking" /\ stack # <<>>
    /\ next[Top] > Len(edges[Top])
    /\ state' = [state EXCEPT ![Top] = "complete"]
    /\ \/ emitted' = Append(emitted, Top) /\ Return /\ UNCHANGED phase
       \/ phase' = "threw" /\ UNCHANGED <<emitted, stack, next>>
    /\ UNCHANGED <<input, added, nodes, edges>>

\* Fault: only what the first eligible type leads to is visited.
FaultyEndWalk ==
    /\ phase = "walking" /\ stack = <<>>
    /\ Eligible = {} \/ emitted # <<>>
    /\ phase' = "done"
    /\ UNCHANGED <<input, added, nodes, edges, state, stack, next, emitted>>

EndWalk ==
    /\ phase = "walking" /\ stack = <<>>
    /\ Eligible = {}
    /\ phase' = "done"
    /\ UNCHANGED <<input, added, nodes, edges, state, stack, next, emitted>>

-----------------------------------------------------------------------------
Init ==
    /\ input \in Inputs
    /\ phase = "adding"
    /\ added = 0
    /\ nodes = {}
    /\ edges = [t \in Type |-> <<>>]
    /\ state = [t \in Type |-> "not_started"]
    /\ stack = <<>>
    /\ next = [t \in Type |-> 1]
    /\ emitted = <<>>

Next ==
    \/ AddRoot \/ AddReference \/ AddReturn \/ BeginWalk
    \/ WalkNext \/ VisitEdge \/ VisitReturn \/ EndWalk

Spec == Init /\ [][Next]_vars

\* The functions are straight-line recursion on one thread: a step that can be
\* taken is taken.
FairSpec == Spec /\ WF_vars(Next)

Ended == phase \in {"done", "cyclic", "threw"}

-----------------------------------------------------------------------------
(* Properties *)

\* Every variable keeps its C++ type.
TypeOK ==
    /\ input \in Metadata
    /\ phase \in {"adding", "walking", "done", "cyclic", "threw"}
    /\ added \in 0..Len(input.roots)
    /\ nodes \subseteq Type
    /\ edges \in [Type -> Seq(Type)]
    /\ state \in [Type -> {"not_started", "walking", "complete"}]
    /\ stack \in Seq(Type)
    /\ next \in [Type -> Nat \ {0}]
    /\ emitted \in Seq(Type)

\* visit() looks every edge up in the map and asserts that it is there
\* (XLANG_ASSERT(it != graph.end())): no edge leads to a type that was not added.
EdgesClosed == \A t \in Type : Elems(edges[t]) \subseteq nodes

\* The types t depends on, read from the metadata.
Deps(t) == {input.refs[t][i].to : i \in
              {j \in 1..Len(input.refs[t]) : BecomesEdge(input.refs[t][j])}}

DepsOf == [t \in Type |-> Deps(t)]

\* The graph and its walk implement the abstract promise: each needed type is
\* handed over exactly once and after its dependencies, "Cyclic dependency" is
\* thrown only when there is a cycle.
Abstract == INSTANCE DefinitionOrder WITH
    deps <- DepsOf,
    roots <- Elems(input.roots),
    order <- emitted,
    outcome <- IF Ended THEN phase ELSE "open"

ImplementsDefinitionOrder == Abstract!Spec

\* A walk that ends normally has seen no cycle, and one that throws "Cyclic
\* dependency graph" has: the exception is neither spurious nor missed.
CycleReportedExactly ==
    /\ phase = "done" => ~Abstract!Cyclic
    /\ phase = "cyclic" => Abstract!Cyclic

-----------------------------------------------------------------------------
(* What C++ requires of the order, stated on the metadata and not on edges *)

\* The outermost type whose body holds the definition of t.
outermost[t \in Type] ==
    IF IsNested(t) THEN outermost[input.encl[t]] ELSE t

InScope(t) == input.scope = "" \/ input.scope = input.namespace[t]

\* The types whose complete definition (declared alias, for a delegate) the
\* text written for t needs: by-value members of it and of the types nested in
\* it, delegates of its own signature, or the base.
Requires(t, r) ==
    /\ r.to # NoType
    /\ CASE input.kind = "struct" ->
              r.byValue /\ input.category[r.to] = "struct" /\ outermost[r.to] # t
         [] input.kind = "delegate" ->
              input.category[r.to] = "delegate" /\ InScope(r.to)
         [] input.kind = "interface" -> InScope(r.to)

RequiredBy(t) ==
    {outermost[r.to] : r \in {q \in UNION {Elems(input.refs[u]) :
        u \in {v \in Type : outermost[v] = t}} : Requires(t, q)}}

\* Metadata as the Windows metadata is laid out: a nested type is the type of a
\* member of its enclosing type, and is named only inside its outermost type.
WellNested ==
    \A t \in {u \in Type : IsNested(u)} :
       /\ \E r \in Elems(input.refs[input.encl[t]]) : r.to = t
       /\ \A u \in Type : (\E r \in Elems(input.refs[u]) : r.to = t)
                              => outermost[u] = outermost[t]

\* The header compiles from top to bottom: when a type is written, every
\* definition its text needs is already written ("hard" dependencies between
\* types that require a definition, type_dependency_graph.h:6).
RequiredDefinitionsFirst ==
    WellNested =>
        \A i \in 1..Len(emitted) : ~IsNested(emitted[i]) =>
            RequiredBy(emitted[i]) \subseteq {emitted[j] : j \in 1..(i - 1)}

\* The same for structs and interfaces, the two kinds whose graphs follow every
\* such dependency.
StructsAndBasesFirst == input.kind # "delegate" => RequiredDefinitionsFirst

\* walk_graph returns or throws, whatever the shape of the graph.
Termination == <>Ended
=============================================================================
