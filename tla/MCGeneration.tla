---------------------------- MODULE MCGeneration ---------------------------
EXTENDS Generation

OneNamespace == <<"A">>
TwoNamespaces == <<"A", "B">>

\* The output folder is empty, of an older version, up to date, or holds what
\* an execution left that was killed while it wrote two headers.
Empty == [f \in File |-> "absent"]
Older == [f \in File |-> "old"]
Current == [f \in File |-> "fresh"]
Torn == [Current EXCEPT ![<<"A", 2>>] = "torn", ![<<"complex_structs", 1>>] = "torn"]

AnyDisk == {Empty, Older, Current, Torn}
EmptyDisk == {Empty}
=============================================================================
