------------------------------ MODULE MCFilter ------------------------------
EXTENDS Naturals

a == "a"
b == "b"
dot == "dot"

\* Two namespaces, one of whose names begins with the other's, with and
\* without a dot in between.
SomeTypes == {[space |-> s, name |-> n] :
                s \in {<<a>>, <<a, b>>, <<a, dot, b>>}, n \in {<<a>>, <<b>>, <<b, a>>}}

SomeTexts == {<<a>>, <<b>>, <<a, b>>, <<a, dot>>, <<a, dot, b>>, <<a, b, a>>,
                 <<a, dot, b, a>>, <<a, dot, b, dot, b>>}
=============================================================================
