----------------------------- MODULE MCRowLists -----------------------------
EXTENDS Naturals

\* Parent tables of up to MaxParents rows and target tables of up to MaxMembers.
MaxParents == 4
MaxMembers == 3

Starts(n, size) ==
    {s \in [1..n -> 1..(size + 1)] :
       /\ n = 0 => size = 0
       /\ n > 0 => s[1] = 1
       /\ \A i \in 2..n : s[i - 1] <= s[i]}

Direct ==
    UNION {{[list |-> l, types |-> n, starts |-> s, owners |-> <<>>, size |-> size] :
              s \in Starts(n, size), l \in {"FieldList", "MethodList", "ParamList"}} : n \in 0..MaxParents, size \in 0..MaxMembers}

ByMap ==
    UNION {{[list |-> l, types |-> 3, starts |-> s, owners |-> o, size |-> size] :
              s \in Starts(n, size), l \in {"PropertyList", "EventList"},
              o \in {p \in [1..n -> 1..3] : \A i, j \in 1..n : p[i] = p[j] => i = j}} :
           n \in 0..3, size \in 0..MaxMembers}

SomeDatabases == Direct \cup ByMap
=============================================================================
