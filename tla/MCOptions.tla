----------------------------- MODULE MCOptions ------------------------------
(* Lines and versions for TLC, beside the command lines of MCCommandLine.     *)
EXTENDS MCCommandLine, OptionReaders

\* Every line of at most five characters; every argument of at most three, and
\* every pair of arguments of at most two.
SomeLetters == {"x", "y"}
SomeCharacters == SomeLetters \cup {"blank", "quote", "backslash"}
SomeLines == UpTo(5, SomeCharacters)
SomeWanted ==
    {<<a>> : a \in UpTo(3, SomeCharacters)} \cup {<<a, b>> : a, b \in UpTo(2, SomeCharacters)}

\* Up to three versions of three numbers, in any order.
SomeVersions == [1..3 -> {0, 1}]
SomeKeys == {s \in UpTo(3, SomeVersions) : \A j, k \in DOMAIN s : j # k => s[j] # s[k]}
=============================================================================
