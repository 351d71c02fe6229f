----------------------- MODULE MCTypeDependencyGraph -----------------------
(***************************************************************************)
(* Metadata of three types for TypeDependencyGraph: every way in which they *)
(* can hold each other, and layouts with nested, unresolved and other types.*)
(***************************************************************************)
EXTENDS TypeDependencyGraph, SequencesExt

MCN == 3

ByValue(t) == [to |-> t, byValue |-> TRUE]
Pointer(t) == [to |-> t, byValue |-> FALSE]

Ascending(S) == SetToSortSeq({ByValue(t) : t \in S}, LAMBDA a, b : a.to < b.to)
Descending(S) == SetToSortSeq({ByValue(t) : t \in S}, LAMBDA a, b : a.to > b.to)

Plain(kind, scope) ==
    [kind |-> kind, scope |-> scope,
     category |-> [t \in 1..3 |-> kind],
     namespace |-> [t \in 1..3 |-> IF t = 3 THEN "B" ELSE "A"],
     name |-> <<"X", "Y", "A">>,
     encl |-> <<0, 0, 0>>,
     refs |-> <<<<>>, <<>>, <<>>>>,
     roots |-> <<1, 2, 3>>]

\* Every digraph over three types, members in either order.
Digraphs(kind, scope) ==
    {[Plain(kind, scope) EXCEPT !.refs = [t \in 1..3 |-> Ascending(g[t])]] :
        g \in [1..3 -> SUBSET (1..3)]}

\* At most one base, which may be unresolved.
Bases(scope) ==
    {[Plain("interface", scope) EXCEPT
        !.refs = [t \in 1..3 |-> IF g[t] = 4 THEN <<>> ELSE <<ByValue(g[t])>>],
        !.roots = r] :
        g \in [1..3 -> 0..4], r \in {<<1, 2, 3>>, <<2>>}}

\* Type 2 is nested in 1, type 3 in 1 or in 2 or nowhere; members are pointers or values,
\* some twice, some unresolved; types of another category are skipped.
Layouts ==
    {[Plain("struct", "") EXCEPT
        !.encl = <<0, e2, e3>>,
        !.category[3] = k,
        !.refs = <<r1, r2, r3>>,
        !.roots = IF e2 = 0 THEN <<2, 1>> ELSE <<1, 3>>] :
        e2 \in {0, 1}, e3 \in {0, 1, 2}, k \in {"struct", "enum"},
        r1 \in {<<ByValue(2)>>, <<Pointer(2)>>, <<Pointer(2), ByValue(3)>>,
                <<ByValue(0), ByValue(2), ByValue(2)>>},
        r2 \in {<<>>, <<ByValue(3)>>, <<Pointer(2)>>, <<Pointer(1), ByValue(3)>>},
        r3 \in {<<>>, <<Pointer(1)>>, <<Pointer(2), Pointer(3)>>}}

\* Delegates as write_delegates adds them: those of namespace "A", the graph's
\* own; type 3, of namespace "B", is called "A".
Delegates ==
    {[m EXCEPT !.roots = <<1, 2>>] : m \in Digraphs("delegate", "A")}

SmallInputs ==
    Digraphs("struct", "") \cup Layouts \cup Bases("") \cup Bases("A") \cup Delegates
    \cup {[m EXCEPT !.roots = <<3, 2>>] : m \in Digraphs("struct", "")}

\* Delegates that use only delegates of later rows, so that a good order exists.
AcyclicDelegates ==
    {m \in Delegates : \A t \in 1..3 : \A r \in Elems(m.refs[t]) : r.to > t}
=============================================================================
