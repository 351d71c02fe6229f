------------------------------ MODULE MCCache -------------------------------
EXTENDS Naturals, Sequences

T(s, n, base) == [space |-> s, name |-> n, flags |-> TRUE, nested |-> FALSE,
                  interface |-> FALSE, guid |-> FALSE, contract |-> FALSE, base |-> base]

\* One definition of each sort, some of the same name; <Module> has no flags.
SomeRows ==
    {T(1, 1, "ValueType"), [T(1, 1, "ValueType") EXCEPT !.guid = TRUE],
     [T(1, 1, "none") EXCEPT !.interface = TRUE], T(1, 2, "Enum"),
     [T(1, 2, "ValueType") EXCEPT !.contract = TRUE], T(2, 1, "Attribute"),
     T(2, 1, "MulticastDelegate"), T(1, 2, "none"), T(2, 2, "Object"),
     [T(1, 1, "none") EXCEPT !.flags = FALSE]}

\* A third row of a database may be nested in the first, with a name of its own.
Nested(n) == [T(1, n, "ValueType") EXCEPT !.nested = TRUE]
SmallDatabases ==
    {[types |-> s, nested |-> <<>>] : s \in UNION {[1..n -> SomeRows] : n \in 0..2}}
    \cup {[types |-> <<r, q, Nested(1), Nested(2)>>, nested |-> << <<3, 1>>, <<4, 3>> >>] :
            r, q \in {T(1, 1, "ValueType"), T(1, 2, "ValueType")}}
    \cup {[types |-> <<r, Nested(n)>>, nested |-> << <<2, 1>> >>] :
            r \in {T(1, 1, "ValueType"), T(1, 2, "Enum")}, n \in {1, 2}}
SomeInputs == UNION {[1..n -> SmallDatabases] : n \in 0..2}
SomeRemovals == {<<1, 1>>, <<2, 1>>}
=============================================================================
