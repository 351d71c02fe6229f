----------------------------- MODULE HeaderSet -----------------------------
(***************************************************************************)
(* The headers as text: what each of them includes, declares, defines and   *)
(* names, in which order.  A writer composes the body of a header first and *)
(* collects what it depends on, then swaps its buffers and writes the front *)
(* of the header from what was collected.                                   *)
(***************************************************************************)
EXTENDS Naturals, Sequences, SequencesExt, FiniteSets

CONSTANTS K,        \* number of namespaces
          N,        \* number of TypeDefs
          Inputs    \* the metadata the headers may be written from

Namespace == 1..K   \* in the order of their names
Type == 1..N        \* in the order of their names
Unresolved == N + 1 \* a TypeRef that find() does not resolve, of no namespace above

\* How a signature or a member names a type.
Reference == [to : Type \cup {Unresolved}, how : {"value", "pointer", "base"}]

Metadata ==
    [category  : [Type -> {"enum", "struct", "interface", "delegate", "class"}],
     namespace : [Type -> Namespace],
     row       : [Type -> Nat],             \* the order of the TypeDef table
     refs      : [Type -> Seq(Reference)]]  \* fields, parameters, results, base

ASSUME SizesAssumption == K \in Nat /\ N \in Nat
ASSUME InputsAssumption == Inputs \subseteq Metadata

\* Interfaces alone have a base, an interface; and no type names the class that
\* holds the functions and constants of a namespace.
Sensible(m) ==
    \A t \in Type : \A i \in 1..Len(m.refs[t]) :
        LET r == m.refs[t][i] IN
        /\ (r.to = Unresolved \/ m.category[r.to] # "class")
        /\ (r.how = "base" => m.category[t] = "interface")
        /\ (r.how = "base" => r.to = Unresolved \/ m.category[r.to] = "interface")

ASSUME ReferencesAssumption == \A m \in Inputs : Sensible(m)

\* The header of namespace n and level l; those that span namespaces are of none.
Level == {"0", "1", "2", "h"}
Structs == <<0, "structs">>
Interfaces == <<0, "interfaces">>
Header == (Namespace \X Level) \cup {Structs, Interfaces}

\* The writers of different headers share nothing, so that one order of writing
\* them stands for all.
Headers ==
    [i \in 1..(4 * K + 2) |->
       IF i <= 4 * K THEN <<(i - 1) \div 4 + 1, <<"0", "1", "2", "h">>[((i - 1) % 4) + 1]>>
       ELSE IF i = 4 * K + 1 THEN Structs ELSE Interfaces]

VARIABLES
    input,      \* the metadata of this execution; never changes
    written,    \* how many headers have been saved
    stage,      \* "body" or "front" of the header being written
    jobs,       \* what is still to be written of the body
    first, second,      \* m_first and m_second
    depends, extern,    \* the types collected by the writer
    forwarded,          \* the type the loop over depends has come to
    files               \* the text of the headers that have been saved

writer == <<stage, jobs, first, second, depends, extern, forwarded>>
writerVars == <<input, written, files, writer>>

None == 0

-----------------------------------------------------------------------------
(* What a declaration says *)

Category(t) == input.category[t]
All(c) == {t \in Type : Category(t) = c}
Of(n, c) == {t \in All(c) : input.namespace[t] = n}
Named(t) == {input.refs[t][i].to : i \in 1..Len(input.refs[t])}

\* A member, a base, and a parameter or result of a function with a body need
\* a complete type, a parameter of a function that is only declared does not.
\* Enums and the aliases of delegates are complete once they are declared.
Needs(kind, r) ==
    IF \/ r.how = "base"
       \/ /\ r.how = "value" /\ kind \in {"struct", "class"}
          /\ r.to = Unresolved \/ Category(r.to) = "struct"
    THEN "require" ELSE "use"

Signature(kind, t) ==
    [i \in 1..Len(input.refs[t]) |-> <<Needs(kind, input.refs[t][i]), input.refs[t][i].to, t>>]

\* Fault: the whole enum is written where its declaration is meant.
FaultyForward(t) ==
    IF Category(t) \in {"delegate", "enum"}
    THEN Append(Signature("delegate", t), <<"define", t, None>>)
    ELSE << <<"declare", t, None>> >>

\* write_forward: the alias of a delegate is its definition.
Forward(t) ==
    IF Category(t) = "delegate"
    THEN Append(Signature("delegate", t), <<"define", t, None>>)
    ELSE << <<"declare", t, None>> >>

\* What the writers of code_writers.h write of a type, in one of these kinds.
Text(kind, t) ==
    CASE kind = "enum" -> << <<"define", t, None>> >>
      [] kind = "forward" -> Forward(t)
      [] kind = "guid" -> << <<"use", t, t>> >>
      [] kind \in {"delegate", "struct", "interface"} ->
            Append(Signature(kind, t), <<"define", t, None>>)
      [] kind \in {"abi", "class"} -> Signature(kind, t)

\* The types the writer is given while it writes that.
Mentioned(kind, t) ==
    CASE kind \in {"delegate", "struct", "interface", "abi", "class"} -> Named(t)
      [] kind = "guid" -> {t}
      [] kind = "forward" -> IF Category(t) = "delegate" THEN Named(t) ELSE {}
      [] kind = "enum" -> {}

-----------------------------------------------------------------------------
(* The body of a header *)

Job(kind, T) == {<<kind, t>> : t \in T}

Body(h) ==
    CASE h[2] = "0" -> Job("enum", Of(h[1], "enum"))
                       \cup Job("forward", Of(h[1], "struct") \cup Of(h[1], "interface"))
                       \cup Job("delegate", Of(h[1], "delegate"))
                       \cup Job("guid", Of(h[1], "interface"))
      [] h[2] = "1" -> {}
      [] h[2] = "2" -> Job("abi", Of(h[1], "class"))
      [] h[2] = "h" -> Job("class", Of(h[1], "class"))
      [] h = Structs -> Job("struct", All("struct"))
      [] h = Interfaces -> Job("interface", All("interface"))

Region(j) ==
    CASE j[1] = "enum" -> 1
      [] j[1] = "forward" -> IF Category(j[2]) = "struct" THEN 2 ELSE 3
      [] j[1] = "delegate" -> 4
      [] OTHER -> 5

\* The order within a body.  The spanning headers take theirs from the walk of
\* a type_dependency_graph, of which no more is used than DefinitionOrder
\* promises.  The graph of write_delegates has no edges (see DelegateEdge in
\* TypeDependencyGraph), so that it keeps the rows as they are.
Before(j, k) ==
    IF j[1] \in {"struct", "interface"}
    THEN \E i \in 1..Len(input.refs[k[2]]) :
            LET r == input.refs[k[2]][i] IN
            /\ r.to = j[2]
            /\ r.how = (IF k[1] = "struct" THEN "value" ELSE "base")
    ELSE \/ Region(j) < Region(k)
         \/ Region(j) = Region(k)
              /\ IF j[1] = "delegate" THEN input.row[j[2]] < input.row[k[2]] ELSE j[2] < k[2]

Inclusion(h) == << <<"include", h, None>> >>

\* Fault: the structs are included where they are declared.
FaultyPrologue(h) ==
    CASE h[2] = "0" -> Inclusion(Structs)
      [] h[2] = "2" -> Inclusion(Interfaces)
      [] OTHER -> <<>>

\* What the body includes before anything else.
Prologue(h) ==
    CASE h[2] = "1" -> Inclusion(Structs)
      [] h[2] = "2" -> Inclusion(Interfaces)
      [] OTHER -> <<>>

\* The header being written; add_depends leaves out its own namespace.
Current == Headers[written + 1]

Foreign(T) == {t \in T \ {Unresolved} : input.namespace[t] # Current[1]}

Collect(kind, t) ==
    /\ depends' = depends \cup Foreign(Mentioned(kind, t))
    /\ extern' = extern \cup (Mentioned(kind, t) \cap {Unresolved})

WriteBody ==
    /\ written < Len(Headers) /\ stage = "body"
    /\ \E j \in jobs :
       /\ \A k \in jobs : ~Before(k, j)
       /\ jobs' = jobs \ {j}
       /\ first' = first \o Text(j[1], j[2])
       /\ Collect(j[1], j[2])
    /\ UNCHANGED <<input, written, stage, second, forwarded, files>>

-----------------------------------------------------------------------------
(* The front of a header *)

Depended == {input.namespace[t] : t \in depends}

\* The namespaces in order: there is one such sequence.
Sorted(S) ==
    {s \in [1..Cardinality(S) -> S] : \A i, j \in 1..Cardinality(S) : i < j => s[i] < s[j]}

\* Fault: the namespaces are one off.
FaultyDependsOn(order, level) ==
    [i \in 1..Len(order) |-> <<"include", <<order[i] + 1, level>>, None>>]

\* write_depends for each namespace in depends.
DependsOn(order, level) ==
    [i \in 1..Len(order) |-> <<"include", <<order[i], level>>, None>>]

\* extern_depends, declared as structs.
Externs == IF extern = {} THEN <<>> ELSE << <<"declare", Unresolved, None>> >>

\* Fault: unresolved types are not declared.
FaultyOpening(h, order) ==
    CASE h[2] = "0" -> <<>>
      [] h[2] = "1" -> DependsOn(order, "0") \o Inclusion(<<h[1], "0">>)
      [] h[2] = "2" -> Inclusion(<<h[1], "1">>)
      [] h[2] = "h" -> Inclusion(<<h[1], "2">>)
      [] h = Structs -> DependsOn(order, "0")
      [] h = Interfaces -> DependsOn(order, "1")

\* Fault: what complex_interfaces.h depends on is not included.
FaultyOpeningIncludes(h, order) ==
    CASE h[2] = "0" -> <<>>
      [] h[2] = "1" -> DependsOn(order, "0") \o Inclusion(<<h[1], "0">>)
      [] h[2] = "2" -> Inclusion(<<h[1], "1">>) \o Externs
      [] h[2] = "h" -> Externs
      [] h = Structs -> DependsOn(order, "0")
      [] h = Interfaces -> DependsOn(order, "1") \o Externs

\* What the front says at once; that of a .0.h is written by ForwardNext.
Opening(h, order) ==
    CASE h[2] = "0" -> <<>>
      [] h[2] = "1" -> DependsOn(order, "0") \o Inclusion(<<h[1], "0">>)
      [] h[2] = "2" -> Inclusion(<<h[1], "1">>) \o Externs
      [] h[2] = "h" -> Inclusion(<<h[1], "2">>) \o Externs
      [] h = Structs -> DependsOn(order, "0")
      [] h = Interfaces -> DependsOn(order, "1") \o Externs

Swap ==
    /\ written < Len(Headers) /\ stage = "body" /\ jobs = {}
    /\ stage' = "front"
    /\ second' = Prologue(Current) \o first
    /\ \E order \in Sorted(Depended) : first' = Opening(Current, order)
    /\ UNCHANGED <<input, written, jobs, depends, extern, forwarded, files>>

\* The map depends is ordered by namespace, then by type name.
Precedes(t, u) ==
    \/ input.namespace[t] < input.namespace[u]
    \/ input.namespace[t] = input.namespace[u] /\ t < u

Ahead == {t \in depends : forwarded = None \/ Precedes(forwarded, t)}

\* One turn of the loop over depends in write_namespace_0_h.  Writing a delegate
\* may add to depends; what it adds is met later if it is ahead of the loop.
ForwardNext ==
    /\ stage = "front" /\ Current[2] = "0"
    /\ \E t \in Ahead :
       /\ \A u \in Ahead : t = u \/ Precedes(t, u)
       /\ forwarded' = t
       /\ first' = first \o Forward(t)
       /\ Collect("forward", t)
    /\ UNCHANGED <<input, written, stage, jobs, second, files>>

Start(h) ==
    /\ stage' = "body"
    /\ jobs' = Body(h)
    /\ first' = <<>> /\ second' = <<>>
    /\ depends' = {} /\ extern' = {}
    /\ forwarded' = None

\* Fault: the loop runs while there is anything in depends.
StuckSave ==
    /\ stage = "front"
    /\ Current[2] = "0" => depends = {}
    /\ files' = [files EXCEPT ![Current] = first \o second]
    /\ written' = written + 1
    /\ IF written' < Len(Headers)
       THEN Start(Headers[written' + 1])
       ELSE stage' = "done" /\ UNCHANGED <<jobs, first, second, depends, extern, forwarded>>
    /\ UNCHANGED input

\* save_header, and a new writer for the next header.
Save ==
    /\ stage = "front"
    /\ Current[2] = "0" => Ahead = {}
    /\ files' = [files EXCEPT ![Current] = first \o second]
    /\ written' = written + 1
    /\ IF written' < Len(Headers)
       THEN Start(Headers[written' + 1])
       ELSE stage' = "done" /\ UNCHANGED <<jobs, first, second, depends, extern, forwarded>>
    /\ UNCHANGED input

WriterInit ==
    /\ input \in Inputs
    /\ written = 0
    /\ stage = "body"
    /\ jobs = Body(Headers[1])
    /\ first = <<>> /\ second = <<>>
    /\ depends = {} /\ extern = {}
    /\ forwarded = None
    /\ files = [h \in Header |-> <<>>]

WriterNext == WriteBody \/ Swap \/ ForwardNext \/ Save
=============================================================================
