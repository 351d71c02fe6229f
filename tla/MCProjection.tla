---------------------------- MODULE MCProjection ---------------------------
(***************************************************************************)
(* Metadata of four types in two namespaces for Projection.                 *)
(***************************************************************************)
EXTENDS Projection

Value(t) == [to |-> t, how |-> "value"]
Pointer(t) == [to |-> t, how |-> "pointer"]
BaseOf(t) == [to |-> t, how |-> "base"]

\* Rows run against the order of the names.
Metadatum(category, namespace, refs) ==
    [category |-> category, namespace |-> namespace, row |-> <<4, 3, 2, 1>>, refs |-> refs]

\* What a type of some category may name: at most one type of its own accord.
\* No member and no parameter is of the class that holds the functions.
Uses(c, t, targets, bases) ==
    LET others == targets \ {t} IN
    CASE c = "enum" -> {<<>>}
      [] c = "delegate" -> {<<>>} \cup {<<Value(u)>> : u \in others}
      [] c = "struct" -> {<<Pointer(u)>> : u \in others}
                           \cup {<<Value(u)>> : u \in {v \in others : v > t}}
      [] c = "interface" -> {<<Pointer(u)>> : u \in others}
                              \cup {<<BaseOf(u), Value(1)>> : u \in {v \in bases : v > t}}

Over(category, targets, uses4) ==
    LET bases == {t \in 1..3 : category[t] = "interface"} IN
    {<<r1, r2, r3, r4>> : r1 \in Uses(category[1], 1, targets, bases),
                          r2 \in Uses(category[2], 2, targets, bases),
                          r3 \in Uses(category[3], 3, targets, bases),
                          r4 \in uses4}

\* Delegates that use the types of their own and of the other namespace; the
\* fourth uses two.
Callbacks ==
    UNION {{Metadatum(c \o <<"delegate">>, ns, r) :
              r \in Over(c, 1..5, {<<Value(1), Value(2)>>, <<Pointer(5), Value(3)>>})} :
           c \in {"enum"} \X {"struct", "delegate"} \X {"delegate"},
           ns \in {<<1, 1, 2, 2>>, <<1, 2, 2, 1>>, <<2, 1, 1, 2>>}}

\* Structs, interfaces and enums, and functions that use them.
Objects ==
    UNION {{Metadatum(c \o <<"class">>, ns, r) :
              r \in Over(c, {1, 2, 3, 5}, {<<Value(1), Value(2)>>, <<Pointer(3), Value(5)>>})} :
           c \in {"enum", "struct"} \X {"struct", "interface"} \X {"struct", "interface"},
           ns \in {<<1, 1, 2, 2>>, <<2, 1, 1, 1>>}}

SmallInputs == Callbacks \cup Objects

\* As in Windows.Win32.winmd: PWLX_DIALOG_BOX of Security (4) uses HWND (3) and
\* DLGPROC (2) of WindowsAndMessaging, and DLGPROC uses HWND.
SecurityInputs ==
    {Metadatum(<<"enum", "delegate", "struct", "delegate">>, <<1, 2, 2, 1>>,
               <<<<>>, <<Value(3)>>, <<>>, <<Value(3), Pointer(2)>>>>)}
=============================================================================
