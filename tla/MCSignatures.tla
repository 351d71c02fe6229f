---------------------------- MODULE MCSignatures ----------------------------
EXTENDS ElementTypes, Sequences, TLC

T(prefix, base, index, args) == [prefix |-> prefix, base |-> base, index |-> index, args |-> args]
P(cmods, byref, type) == [cmods |-> cmods, byref |-> byref, type |-> type]
I4 == T(<<>>, 8, 0, <<>>)
VoidRet == P(0, FALSE, T(<<>>, Void, 0, <<>>))
SomePrefixes == UNION {[1..n -> {"szarray", "array", "ptr", "cmod"}] : n \in 0..3}

\* Indexes that take 1, 2 and 4 bytes.
SomeBases ==
    {I4, T(<<>>, Class, 5, <<>>), T(<<>>, Class, 200, <<>>), T(<<>>, Class, 2^17 + 515, <<>>),
     T(<<>>, Var, 1, <<>>), T(<<>>, FnPtr, 0, <<>>), T(<<>>, GenericInst, 6, <<I4>>),
     T(<<>>, GenericInst, 6, <<T(<<"ptr">>, 8, 0, <<>>), T(<<>>, GenericInst, 300, <<I4, I4>>)>>),
     T(<<>>, GenericInst, 6, <<T(<<"cmod", "ptr">>, 8, 0, <<>>)>>)}
SomeTypes == {[base EXCEPT !.prefix = p] : p \in SomePrefixes, base \in SomeBases}
SomeSpecs == {t \in SomeTypes : Len(t.prefix) <= 1}
SomeParams ==
    {P(c, r, t) : c \in {0, 2}, r \in BOOLEAN,
                  t \in {I4, T(<<"ptr", "ptr">>, Class, 5, <<>>), T(<<"array">>, 8, 0, <<>>),
                         T(<<"cmod", "ptr">>, Void, 0, <<>>), T(<<>>, GenericInst, 6, <<I4>>)}}

M(generic, ret, params) == [kind |-> "method", generic |-> generic, ret |-> ret, params |-> params]
F(kind, ret, params) == [kind |-> kind, generic |-> 0, ret |-> ret, params |-> params]

\* Every type as that of a field, those with at most one prefix as specifications, the
\* format's arrays and pointers among them; parameters in pairs, and a method whose blob is
\* longer than one byte can say.
SomeInputs ==
    {F("field", P(c, FALSE, t), <<>>) : c \in {0, 1}, t \in SomeTypes}
    \cup {M(g, r, <<p>>) : g \in {0, 2}, r \in SomeParams \cup {VoidRet}, p \in SomeParams}
    \cup {M(0, VoidRet, <<p, q>>) : p, q \in SomeParams}
    \cup {F("property", P(0, FALSE, t), ps) : t \in SomeBases, ps \in {<<>>, <<P(0, FALSE, I4)>>}}
    \cup {F("typespec", P(0, FALSE, t), <<>>) : t \in SomeSpecs}
    \cup {M(0, VoidRet, <<>>), M(0, VoidRet, [i \in 1..130 |-> P(0, FALSE, I4)])}
=============================================================================
