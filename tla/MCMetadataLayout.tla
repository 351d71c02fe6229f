-------------------------- MODULE MCMetadataLayout --------------------------
EXTENDS MetadataLayout, TLC

\* The row counts on both sides of where an index becomes wider: 16 bits less
\* the 5, 3, 2, 1 or 0 bits of the tag.
Boundaries == {2^11 - 1, 2^11, 2^13 - 1, 2^13, 2^14 - 1, 2^14, 2^15 - 1, 2^15, 2^16 - 1, 2^16}

File(heaps, rows) ==
    [string |-> heaps[1], guid |-> heaps[2], blob |-> heaps[3], rows |-> rows]

\* One table is large and each other has one row; few tables, each with two
\* rows; and a table that is not known.
SomeFiles ==
    {File(h, [t \in Table |-> IF t = u THEN n ELSE 1]) :
        h \in {<<FALSE, FALSE, FALSE>>, <<TRUE, FALSE, TRUE>>}, u \in Table, n \in Boundaries}
    \cup {File(h, [t \in ts |-> 2]) :
            h \in [1..3 -> BOOLEAN],
            ts \in {{"Module", "TypeDef", "Field"}, {"Module", "TypeRef", "CustomAttribute"},
                    {"AssemblyOS", "AssemblyProcessor"}, {}}}
    \cup {File(<<FALSE, FALSE, FALSE>>, [t \in {"Module", "other"} |-> 1])}
=============================================================================
