-------------------------- MODULE ProjectionProofs --------------------------
(***************************************************************************)
(* Proofs about Projection, for any number of namespaces and types and any   *)
(* metadata. The lemmas about texts are facts of one state, with the header, *)
(* the jobs left and the text as parameters; the invariant says that the     *)
(* variables are such texts, and that the compiler has noted what it is past. *)
(***************************************************************************)
EXTENDS Projection, FiniteSetTheorems, SequenceTheorems, TLAPS

\* The headers in the order in which they include each other.
Rank(h) ==
    CASE h[2] = "0" -> 0
      [] h[2] = "structs" -> 1
      [] h[2] = "1" -> 2
      [] h[2] = "interfaces" -> 3
      [] h[2] = "2" -> 4
      [] h[2] = "h" -> 5

LEMMA HeaderCases ==
    ASSUME NEW h \in Header
    PROVE \/ h = Structs \/ h = Interfaces
          \/ \E n \in Namespace : \/ h = <<n, "0">> \/ h = <<n, "1">>
                                  \/ h = <<n, "2">> \/ h = <<n, "h">>
BY DEF Header, Level

LEMMA NamedHeaders ==
    /\ Structs \in Header /\ Interfaces \in Header
    /\ \A n \in Namespace, l \in {"0", "1", "2", "h"} : <<n, l>> \in Header
BY DEF Header, Level

LEMMA HeadersFacts ==
    /\ Len(Headers) = 4 * K + 2
    /\ \A i \in 1..Len(Headers) : Headers[i] \in Header
    /\ \A h \in Header : \E i \in 1..Len(Headers) : h = Headers[i]
<1>1. K \in Nat BY SizesAssumption
<1>2. Len(Headers) = 4 * K + 2 BY <1>1 DEF Headers
<1>7. \A i \in 1..(4 * K) :
         Headers[i] = <<(i - 1) \div 4 + 1, <<"0", "1", "2", "h">>[((i - 1) % 4) + 1]>>
  BY <1>1 DEF Headers
<1>8. Headers[4 * K + 1] = Structs /\ Headers[4 * K + 2] = Interfaces
  BY <1>1 DEF Headers
<1>3. ASSUME NEW i \in 1..Len(Headers) PROVE Headers[i] \in Header
  <2>1. CASE i <= 4 * K
    <3>1. (i - 1) \div 4 \in 0..(K - 1) /\ (i - 1) % 4 \in 0..3 BY <1>1, <1>2, <2>1
    <3>2. <<"0", "1", "2", "h">>[((i - 1) % 4) + 1] \in Level BY <3>1 DEF Level
    <3>3. (i - 1) \div 4 + 1 \in Namespace BY <1>1, <3>1 DEF Namespace
    <3>4. Headers[i] = <<(i - 1) \div 4 + 1, <<"0", "1", "2", "h">>[((i - 1) % 4) + 1]>>
      BY <1>2, <1>7, <2>1
    <3> QED BY <3>2, <3>3, <3>4 DEF Header
  <2>2. CASE i > 4 * K 
    <3>1. i = 4 * K + 1 \/ i = 4 * K + 2 BY <1>1, <1>2, <2>2
    <3> QED BY <3>1, <1>8, NamedHeaders
  <2> QED BY <1>1, <1>2, <2>1, <2>2
<1>4. ASSUME NEW n \in Namespace, NEW m \in 1..4
      PROVE Headers[4 * (n - 1) + m] = <<n, <<"0", "1", "2", "h">>[m]>>
  <2> DEFINE i == 4 * (n - 1) + m
  <2>1. n \in Nat /\ n >= 1 /\ n <= K BY <1>1 DEF Namespace
  <2>2. i \in 1..(4 * K) BY <1>1, <2>1
  <2>3. (i - 1) \div 4 = n - 1 /\ (i - 1) % 4 = m - 1 BY <2>1
  <2>4. Headers[i] = <<(i - 1) \div 4 + 1, <<"0", "1", "2", "h">>[((i - 1) % 4) + 1]>>
    BY <2>2, <1>7
  <2> QED BY <2>1, <2>3, <2>4
<1>5. ASSUME NEW n \in Namespace, NEW m \in 1..4
      PROVE 4 * (n - 1) + m \in 1..Len(Headers)
  BY <1>1, <1>2 DEF Namespace
<1>6. ASSUME NEW h \in Header PROVE \E i \in 1..Len(Headers) : h = Headers[i]
  <2>1. CASE h = Structs BY <1>1, <1>2, <1>8, <2>1
  <2>2. CASE h = Interfaces BY <1>1, <1>2, <1>8, <2>2
  <2>3. ASSUME NEW n \in Namespace,
               h = <<n, "0">> \/ h = <<n, "1">> \/ h = <<n, "2">> \/ h = <<n, "h">>
        PROVE \E i \in 1..Len(Headers) : h = Headers[i]
    <3>1. \E m \in 1..4 : h = <<n, <<"0", "1", "2", "h">>[m]>>
      <4>1. /\ <<"0", "1", "2", "h">>[1] = "0" /\ <<"0", "1", "2", "h">>[2] = "1"
            /\ <<"0", "1", "2", "h">>[3] = "2" /\ <<"0", "1", "2", "h">>[4] = "h"
        OBVIOUS
      <4> QED BY <2>3, <4>1
    <3> QED BY <3>1, <1>4, <1>5
  <2> QED BY <2>1, <2>2, <2>3, HeaderCases
<1> QED BY <1>2, <1>3, <1>6

-----------------------------------------------------------------------------
(* The lines of a text *)

Name == Type \cup {Unresolved}
Define(x) == <<"define", x, None>>
IncludeOf(g) == <<"include", g, None>>

\* What is said of a type; an include of a header only names one of lower rank.
TypeLine ==
    {<<"declare", x, None>> : x \in Name} \cup {<<"define", x, None>> : x \in Type}
    \cup {<<"use", x, t>> : x \in Name, t \in Type}
    \cup {<<"require", x, t>> : x \in Name, t \in Type}
Lower(h) == {g \in Header : Rank(g) < Rank(h)}
Line(h) == {<<"include", g, None>> : g \in Lower(h)} \cup TypeLine

Has(s, l) == \E k \in 1..Len(s) : s[k] = l
OnceIn(s, l) == \A k, m \in 1..Len(s) : s[k] = l /\ s[m] = l => k = m

LEMMA Concatenated ==
    ASSUME NEW S, NEW s \in Seq(S), NEW t \in Seq(S), NEW l
    PROVE /\ s \o t \in Seq(S)
          /\ Has(s \o t, l) <=> (Has(s, l) \/ Has(t, l))
          /\ (OnceIn(s, l) /\ ~Has(t, l)) \/ (OnceIn(t, l) /\ ~Has(s, l)) => OnceIn(s \o t, l)
<1>1. /\ s \o t \in Seq(S) /\ Len(s \o t) = Len(s) + Len(t) /\ Len(s) \in Nat /\ Len(t) \in Nat
      /\ \A k \in 1..Len(s) : (s \o t)[k] = s[k]
      /\ \A k \in 1..Len(t) : (s \o t)[Len(s) + k] = t[k]
  OBVIOUS
<1>2. ASSUME NEW k \in 1..Len(s \o t)
      PROVE \/ k \in 1..Len(s) /\ (s \o t)[k] = s[k]
            \/ \E m \in 1..Len(t) : k = Len(s) + m /\ (s \o t)[k] = t[m]
  <2>1. CASE k <= Len(s) BY <1>1, <2>1
  <2>2. CASE k > Len(s)
    <3>1. k - Len(s) \in 1..Len(t) /\ k = Len(s) + (k - Len(s)) BY <1>1, <2>2
    <3> QED BY <3>1, <1>1
  <2> QED BY <2>1, <2>2, <1>1
<1>3. Has(s, l) \/ Has(t, l) => Has(s \o t, l)
  <2>1. ASSUME NEW m \in 1..Len(t), t[m] = l PROVE Has(s \o t, l)
    <3>1. Len(s) + m \in 1..Len(s \o t) BY <1>1
    <3> QED BY <1>1, <2>1, <3>1 DEF Has
  <2>2. ASSUME NEW m \in 1..Len(s), s[m] = l PROVE Has(s \o t, l)
    <3>1. m \in 1..Len(s \o t) BY <1>1
    <3> QED BY <1>1, <2>2, <3>1 DEF Has
  <2> QED BY <2>1, <2>2 DEF Has
<1>4. Has(s \o t, l) => Has(s, l) \/ Has(t, l) BY <1>2 DEF Has
<1>5. ASSUME OnceIn(s, l), ~Has(t, l) PROVE OnceIn(s \o t, l)
  BY SMTT(20), <1>1, <1>2, <1>5 DEF OnceIn, Has
<1>6. ASSUME OnceIn(t, l), ~Has(s, l) PROVE OnceIn(s \o t, l)
  <2> SUFFICES ASSUME NEW k \in 1..Len(s \o t), NEW m \in 1..Len(s \o t),
                      (s \o t)[k] = l, (s \o t)[m] = l
               PROVE k = m
    BY DEF OnceIn
  <2>1. PICK i \in 1..Len(t) : k = Len(s) + i /\ t[i] = l BY <1>2, <1>6 DEF Has
  <2>2. PICK j \in 1..Len(t) : m = Len(s) + j /\ t[j] = l BY <1>2, <1>6 DEF Has
  <2>3. i = j BY <1>6, <2>1, <2>2 DEF OnceIn
  <2> QED BY <2>1, <2>2, <2>3
<1> QED BY <1>1, <1>3, <1>4, <1>5, <1>6

\* What the metadata says is typed.
LEMMA OfTypes ==
    ASSUME input \in Metadata, NEW t \in Type
    PROVE /\ input.refs[t] \in Seq(Reference)
          /\ \A i \in 1..Len(input.refs[t]) : input.refs[t][i].to \in Name
          /\ Named(t) \subseteq Name
          /\ Category(t) \in {"enum", "struct", "interface", "delegate", "class"}
          /\ input.namespace[t] \in Namespace
          /\ Unresolved \notin Type
<1>1. input.refs[t] \in Seq(Reference) BY DEF Metadata
<1>2. ASSUME NEW i \in 1..Len(input.refs[t]) PROVE input.refs[t][i].to \in Name
  <2>1. input.refs[t][i] \in Reference BY <1>1
  <2> QED BY <2>1 DEF Reference, Name
<1>3. Category(t) \in {"enum", "struct", "interface", "delegate", "class"}
      /\ input.namespace[t] \in Namespace
  BY DEF Metadata, Category
<1>4. Unresolved \notin Type BY SizesAssumption DEF Unresolved, Type
<1> QED BY <1>1, <1>2, <1>3, <1>4 DEF Named

\* A signature defines nothing.
LEMMA SignatureLines ==
    ASSUME input \in Metadata, NEW t \in Type, NEW kind
    PROVE /\ Signature(kind, t) \in Seq(TypeLine)
          /\ \A x : ~Has(Signature(kind, t), Define(x))
<1> DEFINE s == Signature(kind, t)
           n == Len(input.refs[t])
<1>1. n \in Nat BY OfTypes
<1>2. DOMAIN s = 1..n /\ Len(s) = n BY <1>1 DEF Signature
<1>3. ASSUME NEW i \in 1..n
      PROVE \E x \in Name : s[i] = <<"use", x, t>> \/ s[i] = <<"require", x, t>>
  <2>1. s[i] = <<Needs(kind, input.refs[t][i]), input.refs[t][i].to, t>> BY DEF Signature
  <2>2. Needs(kind, input.refs[t][i]) \in {"require", "use"} BY DEF Needs
  <2>3. input.refs[t][i].to \in Name BY OfTypes
  <2> QED BY <2>1, <2>2, <2>3
<1>4. \A i \in 1..n : s[i] \in TypeLine /\ s[i][1] # "define"
  <2> HIDE DEF s, n
  <2> QED BY <1>3 DEF TypeLine
<1>5. s \in Seq(TypeLine)
  <2>1. s = [i \in 1..n |-> s[i]] BY <1>2 DEF Signature
  <2> HIDE DEF s, n
  <2> QED BY <2>1, <1>1, <1>4
<1>6. ASSUME NEW x PROVE ~Has(s, Define(x))
  <2> HIDE DEF s, n
  <2> QED BY <1>2, <1>4 DEF Has, Define
<1> QED BY <1>5, <1>6

\* What is added last is the only definition.
LEMMA DefinedLast ==
    ASSUME NEW s \in Seq(TypeLine), \A x : ~Has(s, Define(x)), NEW t \in Type
    PROVE /\ Append(s, Define(t)) \in Seq(TypeLine)
          /\ Has(Append(s, Define(t)), Define(t))
          /\ \A x : Has(Append(s, Define(t)), Define(x)) => x = t
          /\ \A x : OnceIn(Append(s, Define(t)), Define(x))
<1> DEFINE a == Append(s, Define(t))
<1>1. Define(t) \in TypeLine BY DEF Define, TypeLine
<1>2. /\ a \in Seq(TypeLine) /\ Len(a) = Len(s) + 1 /\ Len(s) \in Nat
      /\ a[Len(s) + 1] = Define(t) /\ \A k \in 1..Len(s) : a[k] = s[k]
  BY <1>1
<1>3. ASSUME NEW x, NEW k \in 1..Len(a), a[k] = Define(x) PROVE k = Len(a) /\ x = t
  <2>1. ~(k \in 1..Len(s)) BY <1>2, <1>3 DEF Has
  <2>2. k = Len(a) BY <1>2, <2>1
  <2>3. Define(x) = Define(t) BY <1>2, <1>3, <2>2
  <2> QED BY <2>2, <2>3 DEF Define
<1>4. Len(a) \in 1..Len(a) BY <1>2
<1> HIDE DEF a
<1>5. Has(a, Define(t)) BY <1>2, <1>4 DEF Has
<1>6. \A x : Has(a, Define(x)) => x = t BY <1>3 DEF Has
<1>7. \A x : OnceIn(a, Define(x)) BY <1>3 DEF OnceIn
<1> QED BY <1>2, <1>5, <1>6, <1>7 DEF a

\* A text of one line.
LEMMA OneLine ==
    ASSUME NEW S, NEW l \in S
    PROVE <<l>> \in Seq(S) /\ (\A y : Has(<<l>>, y) <=> y = l) /\ (\A y : OnceIn(<<l>>, y))
<1>1. Len(<<l>>) = 1 /\ <<l>>[1] = l /\ <<l>> \in Seq(S) OBVIOUS
<1>2. \A k \in 1..Len(<<l>>) : k = 1 BY <1>1
<1>3. 1 \in 1..Len(<<l>>) BY <1>1
<1> QED BY <1>1, <1>2, <1>3 DEF Has, OnceIn

LEMMA NoLine == \A S : << >> \in Seq(S) /\ (\A y : ~Has(<< >>, y) /\ OnceIn(<< >>, y))
BY DEF Has, OnceIn

-----------------------------------------------------------------------------
(* What a header is made of *)

\* The kinds of text that define the type.
Defining == {"enum", "delegate", "struct", "interface"}

\* The headers that each header names whatever the metadata is.
Fixed(h, g) ==
    \/ h[2] = "h" /\ g = <<h[1], "2">>
    \/ h[2] = "2" /\ (g = <<h[1], "1">> \/ g = Interfaces)
    \/ h[2] = "1" /\ (g = <<h[1], "0">> \/ g = Structs)

LEMMA Bodies ==
    /\ \A n \in Namespace :
          /\ Body(<<n, "0">>) = Job("enum", Of(n, "enum"))
                                \cup Job("forward", Of(n, "struct") \cup Of(n, "interface"))
                                \cup Job("delegate", Of(n, "delegate"))
                                \cup Job("guid", Of(n, "interface"))
          /\ Body(<<n, "1">>) = {}
          /\ Body(<<n, "2">>) = Job("abi", Of(n, "class"))
          /\ Body(<<n, "h">>) = Job("class", Of(n, "class"))
    /\ Body(Structs) = Job("struct", All("struct"))
    /\ Body(Interfaces) = Job("interface", All("interface"))
<1>1. ASSUME NEW h, NEW n \in Namespace, h = <<n, "0">>
      PROVE Body(h) = Job("enum", Of(n, "enum"))
                      \cup Job("forward", Of(n, "struct") \cup Of(n, "interface"))
                      \cup Job("delegate", Of(n, "delegate"))
                      \cup Job("guid", Of(n, "interface"))
  <2>1. h[2] = "0" /\ h[1] = n BY <1>1
  <2>2. h # Structs /\ h # Interfaces BY <2>1 DEF Structs, Interfaces
  <2> QED BY <2>1, <2>2 DEF Body
<1>2. ASSUME NEW h, NEW n \in Namespace, h = <<n, "1">> PROVE Body(h) = {}
  <2>1. h[2] = "1" /\ h[1] = n BY <1>2
  <2>2. h # Structs /\ h # Interfaces BY <2>1 DEF Structs, Interfaces
  <2> QED BY <2>1, <2>2 DEF Body
<1>3. ASSUME NEW h, NEW n \in Namespace, h = <<n, "2">> PROVE Body(h) = Job("abi", Of(n, "class"))
  <2>1. h[2] = "2" /\ h[1] = n BY <1>3
  <2>2. h # Structs /\ h # Interfaces BY <2>1 DEF Structs, Interfaces
  <2> QED BY <2>1, <2>2 DEF Body
<1>4. ASSUME NEW h, NEW n \in Namespace, h = <<n, "h">> PROVE Body(h) = Job("class", Of(n, "class"))
  <2>1. h[2] = "h" /\ h[1] = n BY <1>4
  <2>2. h # Structs /\ h # Interfaces BY <2>1 DEF Structs, Interfaces
  <2> QED BY <2>1, <2>2 DEF Body
<1>5. ASSUME NEW h, h = Structs PROVE Body(h) = Job("struct", All("struct"))
  <2>1. h[2] = "structs" /\ h # Interfaces BY <1>5 DEF Structs, Interfaces
  <2> QED BY <1>5, <2>1 DEF Body
<1>6. ASSUME NEW h, h = Interfaces
      PROVE Body(h) = Job("interface", All("interface"))
  <2>1. h[2] = "interfaces" /\ h # Structs BY <1>6 DEF Interfaces, Structs
  <2> QED BY <1>6, <2>1 DEF Body
<1> QED BY <1>1, <1>2, <1>3, <1>4, <1>5, <1>6

\* Where a job is found tells what it is.
LEMMA JobCases ==
    ASSUME input \in Metadata, NEW h \in Header, NEW j \in Body(h)
    PROVE \E t \in Type :
             \/ j = <<"enum", t>> /\ Category(t) = "enum" /\ h = <<input.namespace[t], "0">>
             \/ j = <<"delegate", t>> /\ Category(t) = "delegate" /\ h = <<input.namespace[t], "0">>
             \/ j = <<"struct", t>> /\ Category(t) = "struct" /\ h = Structs
             \/ j = <<"interface", t>> /\ Category(t) = "interface" /\ h = Interfaces
             \/ j = <<"forward", t>> /\ Category(t) \in {"struct", "interface"}
             \/ j = <<"guid", t>> \/ j = <<"abi", t>> \/ j = <<"class", t>>
<1>1. ASSUME NEW n \in Namespace, h = <<n, "0">>
      PROVE \E t \in Type : \/ j = <<"enum", t>> /\ Category(t) = "enum" /\ input.namespace[t] = n
                            \/ j = <<"delegate", t>> /\ Category(t) = "delegate" /\ input.namespace[t] = n
                            \/ j = <<"forward", t>> /\ Category(t) \in {"struct", "interface"}
                            \/ j = <<"guid", t>>
  <2>1. \/ j \in Job("enum", Of(n, "enum")) \/ j \in Job("forward", Of(n, "struct") \cup Of(n, "interface"))
        \/ j \in Job("delegate", Of(n, "delegate")) \/ j \in Job("guid", Of(n, "interface"))
    BY <1>1, Bodies
  <2> QED BY <2>1 DEF Job, Of, All
<1>2. ASSUME NEW n \in Namespace, h = <<n, "1">> PROVE FALSE
  BY <1>2, Bodies
<1>3. ASSUME NEW n \in Namespace, h = <<n, "2">> \/ h = <<n, "h">>
      PROVE \E t \in Type : j = <<"abi", t>> \/ j = <<"class", t>>
  <2>1. j \in Job("abi", Of(n, "class")) \/ j \in Job("class", Of(n, "class"))
    BY <1>3, Bodies
  <2> QED BY <2>1 DEF Job, Of, All
<1>4. ASSUME h = Structs PROVE \E t \in Type : j = <<"struct", t>> /\ Category(t) = "struct"
  BY <1>4, Bodies DEF Job, All
<1>5. ASSUME h = Interfaces PROVE \E t \in Type : j = <<"interface", t>> /\ Category(t) = "interface"
  BY <1>5, Bodies DEF Job, All
<1>6. CASE h = Structs BY <1>4, <1>6
<1>7. CASE h = Interfaces BY <1>5, <1>7
<1>8. CASE \E n \in Namespace : h = <<n, "0">> BY <1>1, <1>8
<1>9. CASE \E n \in Namespace : h = <<n, "2">> \/ h = <<n, "h">> BY <1>3, <1>9
<1> QED BY <1>2, <1>6, <1>7, <1>8, <1>9, HeaderCases

\* The header in which a type is defined; delegates are also repeated elsewhere.
Home(x) ==
    CASE Category(x) = "struct" -> Structs
      [] Category(x) = "interface" -> Interfaces
      [] OTHER -> <<input.namespace[x], "0">>

LEMMA DefinedAtHome ==
    ASSUME input \in Metadata, NEW x \in Type, Category(x) # "class"
    PROVE /\ Home(x) \in Header /\ Category(x) \in Defining
          /\ <<Category(x), x>> \in Body(Home(x))
          /\ \A h \in Header : <<Category(x), x>> \in Body(h) => h = Home(x)
<1>1. Category(x) \in Defining BY OfTypes DEF Defining
<1>2. input.namespace[x] \in Namespace BY OfTypes
<1>3. Home(x) \in Header BY <1>1, <1>2, NamedHeaders DEF Home
<1>4. <<Category(x), x>> \in Body(Home(x))
  <2>1. CASE Category(x) = "struct" BY <2>1, Bodies DEF Home, Job, All
  <2>2. CASE Category(x) = "interface" BY <2>2, Bodies DEF Home, Job, All
  <2>3. CASE Category(x) = "enum"
    <3>1. Home(x) = <<input.namespace[x], "0">> BY <2>3 DEF Home
    <3>2. <<"enum", x>> \in Job("enum", Of(input.namespace[x], "enum")) BY <2>3 DEF Job, Of, All
    <3> QED BY <1>2, <2>3, <3>1, <3>2, Bodies
  <2>4. CASE Category(x) = "delegate"
    <3>1. Home(x) = <<input.namespace[x], "0">> BY <2>4 DEF Home
    <3>2. <<"delegate", x>> \in Job("delegate", Of(input.namespace[x], "delegate")) BY <2>4 DEF Job, Of, All
    <3> QED BY <1>2, <2>4, <3>1, <3>2, Bodies
  <2> QED BY <1>1, <2>1, <2>2, <2>3, <2>4 DEF Defining
<1>5. ASSUME NEW h \in Header, <<Category(x), x>> \in Body(h) PROVE h = Home(x)
  <2> DEFINE j == <<Category(x), x>>
  <2>1. j[1] \in Defining /\ j[2] = x /\ j[1] = Category(x) BY <1>1
  <2>2. \E t \in Type :
             \/ j = <<"enum", t>> /\ Category(t) = "enum" /\ h = <<input.namespace[t], "0">>
             \/ j = <<"delegate", t>> /\ Category(t) = "delegate" /\ h = <<input.namespace[t], "0">>
             \/ j = <<"struct", t>> /\ Category(t) = "struct" /\ h = Structs
             \/ j = <<"interface", t>> /\ Category(t) = "interface" /\ h = Interfaces
             \/ j = <<"forward", t>> /\ Category(t) \in {"struct", "interface"}
             \/ j = <<"guid", t>> \/ j = <<"abi", t>> \/ j = <<"class", t>>
    BY <1>5, JobCases
  <2> HIDE DEF j
  <2>3. \/ Category(x) = "enum" /\ h = <<input.namespace[x], "0">>
        \/ Category(x) = "delegate" /\ h = <<input.namespace[x], "0">>
        \/ Category(x) = "struct" /\ h = Structs
        \/ Category(x) = "interface" /\ h = Interfaces
    BY <2>1, <2>2 DEF Defining
  <2> QED BY <2>3 DEF Home
<1> QED BY <1>1, <1>3, <1>4, <1>5

-----------------------------------------------------------------------------
(* The texts that are put together *)

LEMMA ForwardLines ==
    ASSUME input \in Metadata, NEW t \in Type
    PROVE /\ Forward(t) \in Seq(TypeLine)
          /\ \A x : Has(Forward(t), Define(x)) => x = t /\ Category(t) = "delegate"
<1>1. CASE Category(t) = "delegate"
  <2>1. Forward(t) = Append(Signature("delegate", t), Define(t)) BY <1>1 DEF Forward, Define
  <2> QED BY <1>1, <2>1, SignatureLines, DefinedLast
<1>2. CASE Category(t) # "delegate"
  <2>1. Forward(t) = << <<"declare", t, None>> >> BY <1>2 DEF Forward
  <2>2. <<"declare", t, None>> \in TypeLine BY DEF TypeLine, Name
  <2>3. \A x : Define(x) # <<"declare", t, None>> BY DEF Define
  <2> QED BY <2>1, <2>2, <2>3, OneLine
<1> QED BY <1>1, <1>2

\* A job writes the definition of its type once, if that is its kind, and no other.
LEMMA TextLines ==
    ASSUME input \in Metadata, NEW h \in Header, NEW j \in Body(h)
    PROVE /\ j[2] \in Type /\ j = <<j[1], j[2]>>
          /\ Text(j[1], j[2]) \in Seq(TypeLine)
          /\ \A x : Has(Text(j[1], j[2]), Define(x)) => j = <<Category(x), x>> /\ Category(x) \in Defining
          /\ \A x : OnceIn(Text(j[1], j[2]), Define(x))
          /\ j[1] \in Defining => Has(Text(j[1], j[2]), Define(j[2]))
<1>1. PICK t \in Type :
             \/ j = <<"enum", t>> /\ Category(t) = "enum"
             \/ j = <<"delegate", t>> /\ Category(t) = "delegate"
             \/ j = <<"struct", t>> /\ Category(t) = "struct"
             \/ j = <<"interface", t>> /\ Category(t) = "interface"
             \/ j = <<"forward", t>> /\ Category(t) \in {"struct", "interface"}
             \/ j = <<"guid", t>> \/ j = <<"abi", t>> \/ j = <<"class", t>>
  BY JobCases
<1>2. j[2] = t /\ j = <<j[1], t>> BY <1>1
<1> DEFINE s == Text(j[1], t)
<1>3. CASE j[1] = "enum" /\ Category(t) = "enum"
  <2>1. s = << Define(t) >> BY <1>3 DEF Text, Define
  <2>2. Define(t) \in TypeLine BY DEF Define, TypeLine
  <2>3. \A x : Define(x) = Define(t) => x = t BY DEF Define
  <2>4. s \in Seq(TypeLine) /\ (\A y : Has(s, y) <=> y = Define(t)) /\ (\A y : OnceIn(s, y))
    BY <2>1, <2>2, OneLine
  <2>5. "enum" \in Defining BY DEF Defining
  <2> QED BY <1>2, <1>3, <2>3, <2>4, <2>5
<1>4. CASE j[1] \in {"delegate", "struct", "interface"} /\ Category(t) = j[1]
  <2>1. s = Append(Signature(j[1], t), Define(t)) BY <1>4 DEF Text, Define
  <2>2. /\ s \in Seq(TypeLine) /\ Has(s, Define(t))
        /\ (\A x : Has(s, Define(x)) => x = t) /\ (\A x : OnceIn(s, Define(x)))
    BY <2>1, SignatureLines, DefinedLast
  <2>3. j[1] \in Defining BY <1>4 DEF Defining
  <2> QED BY <1>2, <1>4, <2>2, <2>3
<1>5. CASE j[1] = "forward" /\ Category(t) \in {"struct", "interface"}
  <2>1. s = << <<"declare", t, None>> >> BY <1>5 DEF Text, Forward
  <2>2. <<"declare", t, None>> \in TypeLine BY DEF TypeLine, Name
  <2>3. \A x : Define(x) # <<"declare", t, None>> BY DEF Define
  <2>4. s \in Seq(TypeLine) /\ (\A x : ~Has(s, Define(x))) /\ (\A x : OnceIn(s, Define(x)))
    BY <2>1, <2>2, <2>3, OneLine
  <2>5. j[1] \notin Defining BY <1>5 DEF Defining
  <2> QED BY <1>2, <2>4, <2>5
<1>6. CASE j[1] = "guid"
  <2>1. s = << <<"use", t, t>> >> BY <1>6 DEF Text
  <2>2. <<"use", t, t>> \in TypeLine BY DEF TypeLine, Name
  <2>3. \A x : Define(x) # <<"use", t, t>> BY DEF Define
  <2>4. s \in Seq(TypeLine) /\ (\A x : ~Has(s, Define(x))) /\ (\A x : OnceIn(s, Define(x)))
    BY <2>1, <2>2, <2>3, OneLine
  <2>5. j[1] \notin Defining BY <1>6 DEF Defining
  <2> QED BY <1>2, <2>4, <2>5
<1>7. CASE j[1] \in {"abi", "class"}
  <2>1. s = Signature(j[1], t) BY <1>7 DEF Text
  <2>2. s \in Seq(TypeLine) /\ (\A x : ~Has(s, Define(x))) BY <2>1, SignatureLines
  <2>3. \A x : OnceIn(s, Define(x))
    <3> HIDE DEF s
    <3> QED BY <2>2 DEF OnceIn, Has
  <2>4. j[1] \notin Defining BY <1>7 DEF Defining
  <2> QED BY <1>2, <2>2, <2>3, <2>4
<1>8. \/ j[1] = "enum" /\ Category(t) = "enum"
      \/ j[1] \in {"delegate", "struct", "interface"} /\ Category(t) = j[1]
      \/ j[1] = "forward" /\ Category(t) \in {"struct", "interface"}
      \/ j[1] = "guid" \/ j[1] \in {"abi", "class"}
  BY <1>1
<1> QED BY <1>3, <1>4, <1>5, <1>6, <1>7, <1>8

\* The types a text is about are types.
LEMMA MentionedNames ==
    ASSUME input \in Metadata, NEW t \in Type, NEW kind \in Defining \cup {"forward", "guid", "abi", "class"}
    PROVE Mentioned(kind, t) \subseteq Name
<1>1. Named(t) \subseteq Name /\ t \in Name BY OfTypes DEF Name
<1>2. CASE kind \in {"delegate", "struct", "interface", "abi", "class"} BY <1>1, <1>2 DEF Mentioned
<1>3. CASE kind = "guid" BY <1>1, <1>3 DEF Mentioned
<1>4. CASE kind = "forward" BY <1>1, <1>4 DEF Mentioned
<1>5. CASE kind = "enum" BY <1>5 DEF Mentioned
<1> QED BY <1>2, <1>3, <1>4, <1>5 DEF Defining

\* What a front has in common with a prologue: it defines nothing.
Preamble(s, h) == s \in Seq(Line(h)) /\ \A x : ~Has(s, Define(x))

LEMMA Ranks ==
    /\ Rank(Structs) = 1 /\ Rank(Interfaces) = 3
    /\ \A n : /\ Rank(<<n, "0">>) = 0 /\ Rank(<<n, "1">>) = 2
              /\ Rank(<<n, "2">>) = 4 /\ Rank(<<n, "h">>) = 5
BY DEF Rank, Structs, Interfaces

LEMMA RankIsNat == ASSUME NEW h \in Header PROVE Rank(h) \in Nat
BY Ranks, HeaderCases

LEMMA InclusionLine ==
    ASSUME NEW h \in Header, NEW g \in Lower(h)
    PROVE Preamble(Inclusion(g), h) /\ Has(Inclusion(g), IncludeOf(g))
<1>1. IncludeOf(g) \in Line(h) BY DEF IncludeOf, Line
<1>2. \A x : Define(x) # IncludeOf(g) BY DEF Define, IncludeOf
<1>3. Inclusion(g) = << IncludeOf(g) >> BY DEF Inclusion, IncludeOf
<1> QED BY <1>1, <1>2, <1>3, OneLine DEF Preamble

LEMMA DependsOnLines ==
    ASSUME NEW h \in Header, NEW order \in Seq(Namespace), NEW l \in {"0", "1"},
           \A n \in Namespace : <<n, l>> \in Lower(h)
    PROVE Preamble(DependsOn(order, l), h)
<1> DEFINE s == DependsOn(order, l)
<1>1. Len(order) \in Nat /\ \A i \in 1..Len(order) : order[i] \in Namespace OBVIOUS
<1>2. DOMAIN s = 1..Len(order) /\ Len(s) = Len(order) BY <1>1 DEF DependsOn
<1>3. \A i \in 1..Len(order) : s[i] = <<"include", <<order[i], l>>, None>> BY DEF DependsOn
<1>4. ASSUME NEW i \in 1..Len(order) PROVE s[i] \in Line(h) /\ s[i][1] = "include"
  <2>1. <<order[i], l>> \in Lower(h) BY <1>1
  <2>2. s[i] = <<"include", <<order[i], l>>, None>> BY <1>3
  <2> HIDE DEF s
  <2>3. s[i] \in Line(h) BY <2>1, <2>2 DEF Line
  <2> QED BY <2>2, <2>3
<1>5. s \in Seq(Line(h))
  <2>1. s = [i \in 1..Len(order) |-> s[i]] BY <1>2 DEF DependsOn
  <2> HIDE DEF s
  <2> QED BY <2>1, <1>1, <1>4
<1>6. ASSUME NEW x PROVE ~Has(s, Define(x))
  <2> HIDE DEF s
  <2> QED BY <1>2, <1>4 DEF Has, Define
<1> QED BY <1>5, <1>6 DEF Preamble

LEMMA ExternsLines ==
    ASSUME NEW h \in Header PROVE Preamble(Externs, h)
<1>1. CASE extern = {} BY <1>1, NoLine DEF Externs, Preamble
<1>2. CASE extern # {}
  <2>1. Externs = << <<"declare", Unresolved, None>> >> BY <1>2 DEF Externs
  <2>2. <<"declare", Unresolved, None>> \in Line(h) BY DEF Line, TypeLine, Name
  <2>3. \A x : Define(x) # <<"declare", Unresolved, None>> BY DEF Define
  <2> QED BY <2>1, <2>2, <2>3, OneLine DEF Preamble
<1> QED BY <1>1, <1>2

LEMMA Preambles ==
    ASSUME NEW h \in Header, NEW s, NEW t, Preamble(s, h), Preamble(t, h)
    PROVE Preamble(s \o t, h) /\ \A l : Has(s \o t, l) <=> (Has(s, l) \/ Has(t, l))
BY Concatenated DEF Preamble

\* Which headers a header may include.
LEMMA LowerHeaders ==
    ASSUME NEW n \in Namespace
    PROVE /\ <<n, "0">> \in Lower(Structs) /\ <<n, "1">> \in Lower(Interfaces)
          /\ \A m \in Namespace : <<m, "0">> \in Lower(<<n, "1">>)
          /\ <<n, "1">> \in Lower(<<n, "2">>) /\ <<n, "2">> \in Lower(<<n, "h">>)
          /\ Structs \in Lower(<<n, "1">>) /\ Interfaces \in Lower(<<n, "2">>)
<1>1. /\ \A m \in Namespace : <<m, "0">> \in Header /\ Rank(<<m, "0">>) = 0
      /\ <<n, "1">> \in Header /\ Rank(<<n, "1">>) = 2
      /\ <<n, "2">> \in Header /\ Rank(<<n, "2">>) = 4
      /\ Rank(<<n, "h">>) = 5
  BY NamedHeaders, Ranks
<1>2. /\ Structs \in Header /\ Rank(Structs) = 1
      /\ Interfaces \in Header /\ Rank(Interfaces) = 3
  BY NamedHeaders, Ranks
<1>3. ASSUME NEW g \in Header, NEW h, Rank(g) < Rank(h) PROVE g \in Lower(h)
  BY <1>3 DEF Lower
<1>4. <<n, "0">> \in Lower(Structs) BY <1>1, <1>2, <1>3
<1>5. <<n, "1">> \in Lower(Interfaces) BY <1>1, <1>2, <1>3
<1>6. ASSUME NEW m \in Namespace PROVE <<m, "0">> \in Lower(<<n, "1">>) BY <1>1, <1>3
<1>7. <<n, "1">> \in Lower(<<n, "2">>) BY <1>1, <1>3
<1>8. <<n, "2">> \in Lower(<<n, "h">>) BY <1>1, <1>3
<1>9. Structs \in Lower(<<n, "1">>) /\ Interfaces \in Lower(<<n, "2">>) BY <1>1, <1>2, <1>3
<1> QED BY <1>4, <1>5, <1>6, <1>7, <1>8, <1>9

\* The front and the prologue of a header, and what they include for certain.
LEMMA FrontLines ==
    ASSUME NEW h \in Header, NEW order \in Seq(Namespace)
    PROVE /\ Preamble(Prologue(h), h) /\ Preamble(Opening(h, order), h)
          /\ \A g \in Header : Fixed(h, g) =>
                Has(Prologue(h), IncludeOf(g)) \/ Has(Opening(h, order), IncludeOf(g))
<1> DEFINE p == Prologue(h)
           o == Opening(h, order)
<1>1. Preamble(<< >>, h) BY NoLine DEF Preamble
<1>2. ASSUME NEW n \in Namespace, h = <<n, "0">>
      PROVE /\ Preamble(p, h) /\ Preamble(o, h) /\ \A g : ~Fixed(h, g)
  <2>1. h[2] = "0" /\ h[1] = n BY <1>2
  <2>2. h # Structs /\ h # Interfaces BY <2>1 DEF Structs, Interfaces
  <2>3. p = << >> BY <2>1, <2>2 DEF Prologue
  <2>4. o = << >> BY <2>1, <2>2 DEF Opening
  <2>5. \A g : ~Fixed(h, g) BY <2>1 DEF Fixed
  <2> QED BY <1>1, <2>3, <2>4, <2>5
<1>3. ASSUME NEW n \in Namespace, h = <<n, "1">>
      PROVE /\ Preamble(p, h) /\ Preamble(o, h)
            /\ \A g : Fixed(h, g) => Has(p, IncludeOf(g)) \/ Has(o, IncludeOf(g))
  <2>1. h[2] = "1" /\ h[1] = n BY <1>3
  <2>2. h # Structs /\ h # Interfaces BY <2>1 DEF Structs, Interfaces
  <2>3. p = Inclusion(Structs) BY <2>1, <2>2 DEF Prologue
  <2>4. o = DependsOn(order, "0") \o Inclusion(<<n, "0">>) BY <2>1, <2>2 DEF Opening
  <2>5. Structs \in Lower(h) /\ <<n, "0">> \in Lower(h) /\ \A m \in Namespace : <<m, "0">> \in Lower(h)
    BY <1>3, LowerHeaders
  <2>6. Preamble(p, h) /\ Has(p, IncludeOf(Structs)) BY <2>3, <2>5, InclusionLine
  <2>7. Preamble(DependsOn(order, "0"), h) BY <2>5, DependsOnLines
  <2>8. /\ Preamble(Inclusion(<<n, "0">>), h)
        /\ Has(Inclusion(<<n, "0">>), IncludeOf(<<n, "0">>))
    BY <2>5, InclusionLine
  <2>9. Preamble(o, h) /\ Has(o, IncludeOf(<<n, "0">>)) BY <2>4, <2>7, <2>8, Preambles
  <2>10. \A g : Fixed(h, g) => g = <<n, "0">> \/ g = Structs BY <2>1 DEF Fixed
  <2> QED BY <2>6, <2>9, <2>10
<1>4. ASSUME NEW n \in Namespace, h = <<n, "2">>
      PROVE /\ Preamble(p, h) /\ Preamble(o, h)
            /\ \A g : Fixed(h, g) => Has(p, IncludeOf(g)) \/ Has(o, IncludeOf(g))
  <2>1. h[2] = "2" /\ h[1] = n BY <1>4
  <2>2. h # Structs /\ h # Interfaces BY <2>1 DEF Structs, Interfaces
  <2>3. p = Inclusion(Interfaces) BY <2>1, <2>2 DEF Prologue
  <2>4. o = Inclusion(<<n, "1">>) \o Externs BY <2>1, <2>2 DEF Opening
  <2>5. Interfaces \in Lower(h) /\ <<n, "1">> \in Lower(h) BY <1>4, LowerHeaders
  <2>6. Preamble(p, h) /\ Has(p, IncludeOf(Interfaces)) BY <2>3, <2>5, InclusionLine
  <2>7. Preamble(Externs, h) BY ExternsLines
  <2>8. /\ Preamble(Inclusion(<<n, "1">>), h)
        /\ Has(Inclusion(<<n, "1">>), IncludeOf(<<n, "1">>))
    BY <2>5, InclusionLine
  <2>9. Preamble(o, h) /\ Has(o, IncludeOf(<<n, "1">>)) BY <2>4, <2>7, <2>8, Preambles
  <2>10. \A g : Fixed(h, g) => g = <<n, "1">> \/ g = Interfaces BY <2>1 DEF Fixed
  <2> QED BY <2>6, <2>9, <2>10
<1>5. ASSUME NEW n \in Namespace, h = <<n, "h">>
      PROVE /\ Preamble(p, h) /\ Preamble(o, h)
            /\ \A g : Fixed(h, g) => Has(p, IncludeOf(g)) \/ Has(o, IncludeOf(g))
  <2>1. h[2] = "h" /\ h[1] = n BY <1>5
  <2>2. h # Structs /\ h # Interfaces BY <2>1 DEF Structs, Interfaces
  <2>3. p = << >> BY <2>1, <2>2 DEF Prologue
  <2>4. o = Inclusion(<<n, "2">>) \o Externs BY <2>1, <2>2 DEF Opening
  <2>5. <<n, "2">> \in Lower(h) BY <1>5, LowerHeaders
  <2>6. Preamble(Externs, h) BY ExternsLines
  <2>7. /\ Preamble(Inclusion(<<n, "2">>), h)
        /\ Has(Inclusion(<<n, "2">>), IncludeOf(<<n, "2">>))
    BY <2>5, InclusionLine
  <2>8. Preamble(o, h) /\ Has(o, IncludeOf(<<n, "2">>)) BY <2>4, <2>6, <2>7, Preambles
  <2>9. \A g : Fixed(h, g) => g = <<n, "2">> BY <2>1 DEF Fixed
  <2> QED BY <1>1, <2>3, <2>8, <2>9
<1>6. ASSUME h = Structs
      PROVE /\ Preamble(p, h) /\ Preamble(o, h) /\ \A g : ~Fixed(h, g)
  <2>1. h[2] = "structs" /\ h # Interfaces BY <1>6 DEF Structs, Interfaces
  <2>2. p = << >> BY <2>1 DEF Prologue
  <2>3. o = DependsOn(order, "0") BY <1>6, <2>1 DEF Opening
  <2>4. \A m \in Namespace : <<m, "0">> \in Lower(h) BY <1>6, LowerHeaders
  <2>5. Preamble(o, h) BY <2>3, <2>4, DependsOnLines
  <2>6. \A g : ~Fixed(h, g) BY <2>1 DEF Fixed
  <2> QED BY <1>1, <2>2, <2>5, <2>6
<1>7. ASSUME h = Interfaces
      PROVE /\ Preamble(p, h) /\ Preamble(o, h) /\ \A g : ~Fixed(h, g)
  <2>1. h[2] = "interfaces" /\ h # Structs BY <1>7 DEF Structs, Interfaces
  <2>2. p = << >> BY <2>1 DEF Prologue
  <2>3. o = DependsOn(order, "1") \o Externs BY <1>7, <2>1 DEF Opening
  <2>4. \A m \in Namespace : <<m, "1">> \in Lower(h) BY <1>7, LowerHeaders
  <2>5. Preamble(DependsOn(order, "1"), h) /\ Preamble(Externs, h)
    BY <2>4, DependsOnLines, ExternsLines
  <2>6. Preamble(o, h) BY <2>3, <2>5, Preambles
  <2>7. \A g : ~Fixed(h, g) BY <2>1 DEF Fixed
  <2> QED BY <1>1, <2>2, <2>6, <2>7
<1> HIDE DEF p, o
<1> QED BY <1>2, <1>3, <1>4, <1>5, <1>6, <1>7, HeaderCases DEF p, o

-----------------------------------------------------------------------------
(* The texts as they grow.  The header, the jobs left and the text are       *)
(* parameters, so that these lemmas speak of one state only.                 *)

\* The body so far: the jobs that are done have defined their types, once.
BodyText(h, js, s) ==
    /\ js \subseteq Body(h) /\ s \in Seq(TypeLine)
    /\ \A x \in Type : /\ Has(s, Define(x)) => <<Category(x), x>> \in Body(h) \ js /\ Category(x) \in Defining
                       /\ OnceIn(s, Define(x))
    /\ \A j \in Body(h) \ js : j[1] \in Defining => Has(s, Define(j[2]))

\* The front s so far, and the body t behind it: the front defines delegates only.
FrontText(h, s, t) ==
    /\ s \in Seq(Line(h)) /\ t \in Seq(Line(h))
    /\ \A x \in Type : /\ Has(s, Define(x)) => Category(x) = "delegate"
                       /\ Has(t, Define(x)) => <<Category(x), x>> \in Body(h) /\ Category(x) \in Defining
                       /\ OnceIn(t, Define(x))
    /\ \A j \in Body(h) : j[1] \in Defining => Has(t, Define(j[2]))
    /\ \A g \in Header : Fixed(h, g) => Has(s, IncludeOf(g)) \/ Has(t, IncludeOf(g))

\* A file, whether it has been written or not, and one that has.
FileText(h, s) ==
    /\ s \in Seq(Line(h))
    /\ \A x \in Type : Category(x) # "delegate" =>
          /\ Has(s, Define(x)) => <<Category(x), x>> \in Body(h) /\ Category(x) \in Defining
          /\ OnceIn(s, Define(x))
Complete(h, s) ==
    /\ \A j \in Body(h) : j[1] \in Defining => Has(s, Define(j[2]))
    /\ \A g \in Header : Fixed(h, g) => Has(s, IncludeOf(g))

LEMMA BeginBody == ASSUME NEW h PROVE BodyText(h, Body(h), << >>)
BY NoLine DEF BodyText

LEMMA AddJob ==
    ASSUME input \in Metadata, NEW h \in Header, NEW js, NEW s, BodyText(h, js, s), NEW j \in js
    PROVE BodyText(h, js \ {j}, s \o Text(j[1], j[2]))
<1> DEFINE w == Text(j[1], j[2])
<1>1. j \in Body(h) BY DEF BodyText
<1>2. /\ w \in Seq(TypeLine)
      /\ \A x : Has(w, Define(x)) => j = <<Category(x), x>> /\ Category(x) \in Defining
      /\ \A x : OnceIn(w, Define(x))
      /\ j[1] \in Defining => Has(w, Define(j[2]))
  BY <1>1, TextLines
<1> HIDE DEF w
<1>3. \A l : /\ s \o w \in Seq(TypeLine)
             /\ Has(s \o w, l) <=> (Has(s, l) \/ Has(w, l))
             /\ (OnceIn(s, l) /\ ~Has(w, l)) \/ (OnceIn(w, l) /\ ~Has(s, l)) => OnceIn(s \o w, l)
  BY <1>2, Concatenated DEF BodyText
<1>4. ASSUME NEW x \in Type
      PROVE /\ Has(s \o w, Define(x)) =>
                  <<Category(x), x>> \in Body(h) \ (js \ {j}) /\ Category(x) \in Defining
            /\ OnceIn(s \o w, Define(x))
  <2>1. Has(s, Define(x)) => <<Category(x), x>> \in Body(h) \ js /\ Category(x) \in Defining BY DEF BodyText
  <2>2. Has(w, Define(x)) => j = <<Category(x), x>> /\ Category(x) \in Defining BY <1>2
  <2>3. OnceIn(s, Define(x)) BY DEF BodyText
  <2>4. ~(Has(s, Define(x)) /\ Has(w, Define(x))) BY <2>1, <2>2
  <2>5. OnceIn(s \o w, Define(x)) BY <1>2, <1>3, <2>3, <2>4
  <2> QED BY <1>1, <1>3, <2>1, <2>2, <2>5
<1>5. ASSUME NEW k \in Body(h) \ (js \ {j}), k[1] \in Defining PROVE Has(s \o w, Define(k[2]))
  <2>1. CASE k = j BY <1>2, <1>3, <1>5, <2>1
  <2>2. CASE k # j BY <1>3, <1>5, <2>2 DEF BodyText
  <2> QED BY <2>1, <2>2
<1>6. js \ {j} \subseteq Body(h) BY DEF BodyText
<1> QED BY <1>3, <1>4, <1>5, <1>6 DEF BodyText, w

LEMMA LinesOfTypes == ASSUME NEW h, NEW s \in Seq(TypeLine) PROVE s \in Seq(Line(h))
<1>1. TypeLine \subseteq Line(h) BY DEF Line
<1> QED BY <1>1

LEMMA SwapTexts ==
    ASSUME NEW h \in Header, NEW s, BodyText(h, {}, s), NEW order \in Seq(Namespace)
    PROVE FrontText(h, Opening(h, order), Prologue(h) \o s)
<1> DEFINE p == Prologue(h)
           o == Opening(h, order)
<1>1. /\ Preamble(p, h) /\ Preamble(o, h)
      /\ \A g \in Header : Fixed(h, g) => Has(p, IncludeOf(g)) \/ Has(o, IncludeOf(g))
  BY FrontLines
<1> HIDE DEF p, o
<1>2. s \in Seq(Line(h)) BY LinesOfTypes DEF BodyText
<1>3. \A l : /\ p \o s \in Seq(Line(h))
             /\ Has(p \o s, l) <=> (Has(p, l) \/ Has(s, l))
             /\ (OnceIn(p, l) /\ ~Has(s, l)) \/ (OnceIn(s, l) /\ ~Has(p, l)) => OnceIn(p \o s, l)
  BY <1>1, <1>2, Concatenated DEF Preamble
<1>4. ASSUME NEW x \in Type
      PROVE /\ ~Has(o, Define(x))
            /\ Has(p \o s, Define(x)) => <<Category(x), x>> \in Body(h) /\ Category(x) \in Defining
            /\ OnceIn(p \o s, Define(x))
  BY <1>1, <1>3 DEF Preamble, BodyText
<1>5. \A j \in Body(h) : j[1] \in Defining => Has(p \o s, Define(j[2]))
  BY <1>3 DEF BodyText
<1> QED BY <1>1, <1>3, <1>4, <1>5 DEF FrontText, Preamble, p, o

LEMMA AddForward ==
    ASSUME input \in Metadata, NEW h \in Header, NEW s, NEW t, FrontText(h, s, t), NEW u \in Type
    PROVE FrontText(h, s \o Forward(u), t)
<1> DEFINE w == Forward(u)
<1>1. w \in Seq(Line(h)) /\ \A x : Has(w, Define(x)) => x = u /\ Category(u) = "delegate"
  BY ForwardLines, LinesOfTypes
<1> HIDE DEF w
<1>2. \A l : s \o w \in Seq(Line(h)) /\ (Has(s \o w, l) <=> (Has(s, l) \/ Has(w, l)))
  BY <1>1, Concatenated DEF FrontText
<1>3. \A x \in Type : Has(s \o w, Define(x)) => Category(x) = "delegate"
  BY <1>1, <1>2 DEF FrontText
<1>4. \A g \in Header : Fixed(h, g) => Has(s \o w, IncludeOf(g)) \/ Has(t, IncludeOf(g))
  BY <1>2 DEF FrontText
<1> QED BY <1>2, <1>3, <1>4 DEF FrontText, w

LEMMA SaveTexts ==
    ASSUME NEW h \in Header, NEW s, NEW t, FrontText(h, s, t)
    PROVE FileText(h, s \o t) /\ Complete(h, s \o t)
<1>1. \A l : /\ s \o t \in Seq(Line(h))
             /\ Has(s \o t, l) <=> (Has(s, l) \/ Has(t, l))
             /\ (OnceIn(s, l) /\ ~Has(t, l)) \/ (OnceIn(t, l) /\ ~Has(s, l)) => OnceIn(s \o t, l)
  BY Concatenated DEF FrontText
<1>2. ASSUME NEW x \in Type, Category(x) # "delegate"
      PROVE /\ Has(s \o t, Define(x)) => <<Category(x), x>> \in Body(h) /\ Category(x) \in Defining
            /\ OnceIn(s \o t, Define(x))
  BY <1>1, <1>2 DEF FrontText
<1> QED BY <1>1, <1>2 DEF FileText, Complete, FrontText

-----------------------------------------------------------------------------
(* The writer *)

WriterTypes ==
    /\ input \in Metadata
    /\ written \in 0..Len(Headers)
    /\ stage \in {"body", "front", "done"}
    /\ stage # "done" => written < Len(Headers)
    /\ stage = "done" => written = Len(Headers)
    /\ depends \subseteq Type /\ extern \subseteq {Unresolved}
    /\ forwarded \in Type \cup {None}
    /\ DOMAIN files = Header

BodyOK == stage = "body" =>
    \E h \in Header : \E js, s : h = Current /\ js = jobs /\ s = first /\ BodyText(h, js, s)
FrontOK == stage = "front" =>
    \E h \in Header : \E s, t : h = Current /\ s = first /\ t = second /\ FrontText(h, s, t)
FilesOK == \A h \in Header : \E s : s = files[h] /\ FileText(h, s)
Finished == \A i \in 1..written : \E h \in Header : \E s :
    h = Headers[i] /\ s = files[h] /\ Complete(h, s)

WriterOK == WriterTypes /\ BodyOK /\ FrontOK /\ FilesOK /\ Finished

\* What is said of a text depends on the metadata only.
LEMMA SameInput ==
    ASSUME input' = input, NEW h, NEW js, NEW s, NEW t
    PROVE /\ BodyText(h, js, s)' <=> BodyText(h, js, s)
          /\ FrontText(h, s, t)' <=> FrontText(h, s, t)
          /\ FileText(h, s)' <=> FileText(h, s)
          /\ Complete(h, s)' <=> Complete(h, s)
<1>1. \A x : Category(x)' = Category(x) BY DEF Category
<1>2. \A c : All(c)' = All(c) BY <1>1 DEF All
<1>3. \A n, c : Of(n, c)' = Of(n, c) BY <1>2 DEF Of
<1>4. Body(h)' = Body(h) BY <1>2, <1>3 DEF Body
<1> QED BY <1>1, <1>4 DEF BodyText, FrontText, FileText, Complete

LEMMA CollectTypes ==
    ASSUME WriterTypes, NEW t \in Type, NEW kind, Mentioned(kind, t) \subseteq Name, Collect(kind, t)
    PROVE depends' \subseteq Type /\ extern' \subseteq {Unresolved}
BY DEF WriterTypes, Collect, Foreign, Name

\* While a header is written, the files stay as they are.
LEMMA KeepsFiles ==
    ASSUME FilesOK, Finished, UNCHANGED <<input, written, files>>
    PROVE FilesOK' /\ Finished'
<1>1. FilesOK'
  <2> SUFFICES ASSUME NEW h \in Header PROVE \E s : s = files'[h] /\ FileText(h, s)'
    BY DEF FilesOK
  <2>1. PICK s : s = files[h] /\ FileText(h, s) BY DEF FilesOK
  <2>2. FileText(h, s)' BY <2>1, SameInput
  <2> QED BY <2>1, <2>2
<1>2. Finished'
  <2> SUFFICES ASSUME NEW i \in 1..written
               PROVE \E h \in Header : \E s : h = Headers[i] /\ s = files'[h] /\ Complete(h, s)'
    BY DEF Finished
  <2>1. PICK h \in Header : \E s : h = Headers[i] /\ s = files[h] /\ Complete(h, s)
    BY DEF Finished
  <2>2. PICK s : h = Headers[i] /\ s = files[h] /\ Complete(h, s) BY <2>1
  <2>3. Complete(h, s)' BY <2>2, SameInput
  <2> QED BY <2>2, <2>3
<1> QED BY <1>1, <1>2

LEMMA WriteBodyOK == ASSUME WriterOK, WriteBody PROVE WriterOK'
<1>1. PICK j \in jobs : /\ jobs' = jobs \ {j}
                        /\ first' = first \o Text(j[1], j[2])
                        /\ Collect(j[1], j[2])
  BY DEF WriteBody
<1>2. stage = "body" /\ UNCHANGED <<input, written, stage, second, forwarded, files>>
  BY DEF WriteBody
<1>3. PICK h \in Header : \E js, s : h = Current /\ js = jobs /\ s = first /\ BodyText(h, js, s)
  BY <1>2 DEF WriterOK, BodyOK
<1>4. PICK js, s : h = Current /\ js = jobs /\ s = first /\ BodyText(h, js, s) BY <1>3
<1>5. input \in Metadata BY DEF WriterOK, WriterTypes
<1>6. PICK js2, s2 : js2 = jobs' /\ s2 = first' OBVIOUS
<1>7. BodyText(h, js2, s2) BY <1>1, <1>4, <1>5, <1>6, AddJob
<1>8. BodyText(h, js2, s2)' BY <1>2, <1>7, SameInput
<1>9. BodyOK' BY <1>2, <1>4, <1>6, <1>8 DEF BodyOK, Current
<1>10. FrontOK' BY <1>2 DEF FrontOK
<1>11. j \in Body(h) BY <1>1, <1>4 DEF BodyText
<1>12. PICK t \in Type : j[2] = t /\ j[1] \in Defining \cup {"forward", "guid", "abi", "class"}
  <2>1. \A u : <<"enum", u>>[1] \in Defining /\ <<"delegate", u>>[1] \in Defining
               /\ <<"struct", u>>[1] \in Defining /\ <<"interface", u>>[1] \in Defining
    BY DEF Defining
  <2> QED BY <1>5, <1>11, <2>1, JobCases
<1>13. depends' \subseteq Type /\ extern' \subseteq {Unresolved}
  BY <1>1, <1>5, <1>12, MentionedNames, CollectTypes DEF WriterOK
<1>14. WriterTypes' BY <1>2, <1>13 DEF WriterOK, WriterTypes
<1>15. FilesOK' /\ Finished' BY <1>2, KeepsFiles DEF WriterOK
<1> QED BY <1>9, <1>10, <1>14, <1>15 DEF WriterOK

LEMMA SortedSequences ==
    ASSUME WriterTypes, NEW order \in Sorted(Depended) PROVE order \in Seq(Namespace)
<1>1. Depended \subseteq Namespace
  <2>1. \A t \in depends : input.namespace[t] \in Namespace BY OfTypes DEF WriterTypes
  <2> QED BY <2>1 DEF Depended
<1>2. IsFiniteSet(Namespace) BY SizesAssumption, FS_Interval DEF Namespace
<1>3. Cardinality(Depended) \in Nat BY <1>1, <1>2, FS_Subset, FS_CardinalityType
<1>4. order \in [1..Cardinality(Depended) -> Depended] BY DEF Sorted
<1>5. order \in [1..Cardinality(Depended) -> Namespace] BY <1>1, <1>4
<1> QED BY <1>3, <1>5

LEMMA SwapOK == ASSUME WriterOK, Swap PROVE WriterOK'
<1>1. /\ stage = "body" /\ jobs = {} /\ stage' = "front"
      /\ second' = Prologue(Current) \o first
      /\ UNCHANGED <<input, written, jobs, depends, extern, forwarded, files>>
      /\ written < Len(Headers)
  BY DEF Swap
<1>2. PICK order \in Sorted(Depended) : first' = Opening(Current, order) BY DEF Swap
<1>3. order \in Seq(Namespace) BY SortedSequences DEF WriterOK
<1>4. PICK h \in Header : \E js, s : h = Current /\ js = jobs /\ s = first /\ BodyText(h, js, s)
  BY <1>1 DEF WriterOK, BodyOK
<1>5. PICK s : h = Current /\ s = first /\ BodyText(h, {}, s) BY <1>1, <1>4
<1>6. PICK s2, t2 : s2 = first' /\ t2 = second' OBVIOUS
<1>7. s2 = Opening(h, order) /\ t2 = Prologue(h) \o s BY <1>1, <1>2, <1>5, <1>6
<1>8. FrontText(h, s2, t2) BY <1>3, <1>5, <1>7, SwapTexts
<1>9. FrontText(h, s2, t2)' BY <1>1, <1>8, SameInput
<1>10. FrontOK' BY <1>1, <1>5, <1>6, <1>9 DEF FrontOK, Current
<1>11. BodyOK' BY <1>1 DEF BodyOK
<1>12. WriterTypes' BY <1>1 DEF WriterOK, WriterTypes
<1>13. FilesOK' /\ Finished' BY <1>1, KeepsFiles DEF WriterOK
<1> QED BY <1>10, <1>11, <1>12, <1>13 DEF WriterOK

LEMMA ForwardNextOK == ASSUME WriterOK, ForwardNext PROVE WriterOK'
<1>1. PICK u \in Ahead : /\ forwarded' = u /\ first' = first \o Forward(u)
                         /\ Collect("forward", u)
  BY DEF ForwardNext
<1>2. stage = "front" /\ UNCHANGED <<input, written, stage, jobs, second, files>>
  BY DEF ForwardNext
<1>3. u \in Type BY <1>1 DEF Ahead, WriterOK, WriterTypes
<1>4. PICK h \in Header : \E s, t : h = Current /\ s = first /\ t = second /\ FrontText(h, s, t)
  BY <1>2 DEF WriterOK, FrontOK
<1>5. PICK s, t : h = Current /\ s = first /\ t = second /\ FrontText(h, s, t) BY <1>4
<1>6. input \in Metadata BY DEF WriterOK, WriterTypes
<1>7. PICK s2 : s2 = first' OBVIOUS
<1>8. FrontText(h, s2, t) BY <1>1, <1>3, <1>5, <1>6, <1>7, AddForward
<1>9. FrontText(h, s2, t)' BY <1>2, <1>8, SameInput
<1>10. FrontOK' BY <1>2, <1>5, <1>7, <1>9 DEF FrontOK, Current
<1>11. BodyOK' BY <1>2 DEF BodyOK
<1>12. Mentioned("forward", u) \subseteq Name BY <1>3, <1>6, MentionedNames
<1>13. depends' \subseteq Type /\ extern' \subseteq {Unresolved}
  BY <1>1, <1>3, <1>12, CollectTypes DEF WriterOK
<1>14. WriterTypes' BY <1>1, <1>2, <1>3, <1>13 DEF WriterOK, WriterTypes
<1>15. FilesOK' /\ Finished' BY <1>2, KeepsFiles DEF WriterOK
<1> QED BY <1>10, <1>11, <1>14, <1>15 DEF WriterOK

LEMMA SaveOK == ASSUME WriterOK, Save PROVE WriterOK'
<1>1. /\ stage = "front" /\ written' = written + 1 /\ UNCHANGED input
      /\ files' = [files EXCEPT ![Current] = first \o second]
  BY DEF Save
<1>2. written < Len(Headers) /\ written \in Nat /\ Len(Headers) \in Nat /\ DOMAIN files = Header
  BY <1>1, HeadersFacts, SizesAssumption DEF WriterOK, WriterTypes
<1>3. PICK h \in Header : \E s, t : h = Current /\ s = first /\ t = second /\ FrontText(h, s, t)
  BY <1>1 DEF WriterOK, FrontOK
<1>4. PICK s, t : h = Current /\ s = first /\ t = second /\ FrontText(h, s, t) BY <1>3
<1>5. FileText(h, s \o t) /\ Complete(h, s \o t) BY <1>4, SaveTexts
<1>6. files' = [files EXCEPT ![h] = s \o t] BY <1>1, <1>4
<1>7. FilesOK'
  <2> SUFFICES ASSUME NEW g \in Header PROVE \E w : w = files'[g] /\ FileText(g, w)'
    BY DEF FilesOK
  <2>1. PICK w : w = files'[g] OBVIOUS
  <2>2. CASE g = h BY <1>1, <1>2, <1>5, <1>6, <2>1, <2>2, SameInput
  <2>3. CASE g # h
    <3>1. w = files[g] BY <1>2, <1>6, <2>1, <2>3
    <3>2. FileText(g, w) BY <3>1 DEF WriterOK, FilesOK
    <3> QED BY <1>1, <2>1, <3>2, SameInput
  <2> QED BY <2>2, <2>3
<1>8. Finished'
  <2> SUFFICES ASSUME NEW i \in 1..(written + 1)
               PROVE \E g \in Header : \E w : g = Headers[i] /\ w = files'[g] /\ Complete(g, w)'
    BY <1>1 DEF Finished
  <2>1. PICK g : g = Headers[i] OBVIOUS
  <2>2. g \in Header BY <1>2, <2>1, HeadersFacts
  <2>3. PICK w : w = files'[g] OBVIOUS
  <2>4. CASE g = h
    <3>1. w = s \o t BY <1>2, <1>6, <2>2, <2>3, <2>4
    <3> QED BY <1>1, <1>5, <2>1, <2>2, <2>3, <2>4, <3>1, SameInput
  <2>5. CASE g # h
    <3>1. i # written + 1 BY <1>4, <2>1, <2>5 DEF Current
    <3>2. i \in 1..written BY <1>2, <3>1
    <3>3. w = files[g] BY <1>2, <1>6, <2>2, <2>3, <2>5
    <3>4. Complete(g, w) BY <2>1, <3>2, <3>3 DEF WriterOK, Finished
    <3> QED BY <1>1, <2>1, <2>2, <2>3, <3>4, SameInput
  <2> QED BY <2>4, <2>5
<1>9. CASE written' < Len(Headers)
  <2>1. /\ stage' = "body" /\ jobs' = Body(Headers[written' + 1]) /\ first' = << >>
        /\ depends' = {} /\ extern' = {} /\ forwarded' = None
    BY <1>9 DEF Save, Start
  <2>2. PICK g : g = Headers[written' + 1] OBVIOUS
  <2>3. g \in Header BY <1>1, <1>2, <1>9, <2>2, HeadersFacts
  <2>4. PICK js, w : js = jobs' /\ w = first' OBVIOUS
  <2>5. BodyText(g, js, w) BY <2>1, <2>2, <2>4, BeginBody
  <2>6. BodyText(g, js, w)' BY <1>1, <2>5, SameInput
  <2>7. BodyOK' BY <2>2, <2>3, <2>4, <2>6 DEF BodyOK, Current
  <2>8. FrontOK' BY <2>1 DEF FrontOK
  <2>9. WriterTypes' BY <1>1, <1>2, <1>6, <1>9, <2>1 DEF WriterOK, WriterTypes
  <2> QED BY <1>7, <1>8, <2>7, <2>8, <2>9 DEF WriterOK
<1>10. CASE ~(written' < Len(Headers))
  <2>1. stage' = "done" /\ UNCHANGED <<depends, extern, forwarded>> BY <1>10 DEF Save
  <2>2. written' = Len(Headers) BY <1>1, <1>2, <1>10
  <2>3. BodyOK' /\ FrontOK' BY <2>1 DEF BodyOK, FrontOK
  <2>4. WriterTypes' BY <1>1, <1>2, <1>6, <2>1, <2>2 DEF WriterOK, WriterTypes
  <2> QED BY <1>7, <1>8, <2>3, <2>4 DEF WriterOK
<1> QED BY <1>9, <1>10

LEMMA InitOK == ASSUME WriterInit PROVE WriterOK
<1>1. /\ input \in Inputs /\ written = 0 /\ stage = "body" /\ jobs = Body(Headers[1])
      /\ first = << >> /\ depends = {} /\ extern = {} /\ forwarded = None
      /\ files = [h \in Header |-> << >>]
  BY DEF WriterInit
<1>2. Len(Headers) \in Nat /\ Len(Headers) > 0 BY HeadersFacts, SizesAssumption
<1>3. PICK h : h = Headers[1] OBVIOUS
<1>4. h \in Header /\ Current = h BY <1>1, <1>2, <1>3, HeadersFacts DEF Current
<1>5. BodyText(h, jobs, first) BY <1>1, <1>3, BeginBody
<1>6. BodyOK BY <1>1, <1>4, <1>5 DEF BodyOK
<1>7. FrontOK BY <1>1 DEF FrontOK
<1>8. FilesOK
  <2> SUFFICES ASSUME NEW g \in Header PROVE FileText(g, files[g]) BY DEF FilesOK
  <2> QED BY <1>1, NoLine DEF FileText
<1>9. Finished BY <1>1 DEF Finished
<1>10. WriterTypes BY <1>1, <1>2, InputsAssumption DEF WriterTypes
<1> QED BY <1>6, <1>7, <1>8, <1>9, <1>10 DEF WriterOK

-----------------------------------------------------------------------------
(* The reader *)

Frame == [file : Header, at : Nat \ {0}]

\* Nothing is read before all is written; the files being read have been seen,
\* and an inner one is of lower rank than an outer one.
ReaderTypes ==
    /\ reading \in Seq(Frame)
    /\ seen \subseteq Header /\ declared \subseteq Name
    /\ defined \subseteq declared /\ defined \subseteq Type /\ redefined \subseteq Type
    /\ stage # "done" => reading = << >> /\ seen = {} /\ defined = {} /\ redefined = {}
Nested ==
    /\ \A i \in 1..Len(reading) : reading[i].file \in seen
    /\ \A i, j \in 1..Len(reading) : i < j => Rank(reading[j].file) < Rank(reading[i].file)

\* What a header says has been noted if the compiler is past it.
Past(h, k) == \A i \in 1..Len(reading) : reading[i].file = h => k < reading[i].at
Noted ==
    \A h \in seen : \A k \in 1..Len(files[h]) : Past(h, k) =>
        /\ \A x \in Type : files[h][k] = Define(x) => x \in defined
        /\ \A g \in Header : files[h][k] = IncludeOf(g) => g \in seen

\* Where a type other than a delegate was defined, the compiler is past that line.
FromHome ==
    \A x \in defined : Category(x) # "delegate" =>
        \E h \in seen : \E k \in 1..Len(files[h]) :
            /\ files[h][k] = Define(x) /\ Past(h, k)

ReaderOK == ReaderTypes /\ Nested /\ Noted /\ FromHome /\ DefinedOnce

LEMMA AdvancedFacts ==
    ASSUME reading \in Seq(Frame), reading # << >>
    PROVE /\ Len(reading) \in 1..Len(reading) /\ Top \in Frame
          /\ Advanced \in Seq(Frame) /\ Len(Advanced) = Len(reading)
          /\ \A i \in 1..Len(reading) :
                /\ Advanced[i].file = reading[i].file
                /\ Advanced[i].at = IF i = Len(reading) THEN reading[i].at + 1 ELSE reading[i].at
<1>1. Len(reading) \in Nat /\ Len(reading) > 0 OBVIOUS
<1>2. Top \in Frame BY <1>1 DEF Top
<1>3. PICK r : r = [Top EXCEPT !.at = Top.at + 1] OBVIOUS
<1>4. r \in Frame /\ r.file = Top.file /\ r.at = Top.at + 1 BY <1>2, <1>3 DEF Frame
<1>5. Advanced = [reading EXCEPT ![Len(reading)] = r] BY <1>1, <1>3 DEF Advanced, Top
<1>6. Advanced \in Seq(Frame) /\ Len(Advanced) = Len(reading) BY <1>1, <1>4, <1>5
<1>7. \A i \in 1..Len(reading) : Advanced[i] = IF i = Len(reading) THEN r ELSE reading[i]
  BY <1>1, <1>5
<1> QED BY <1>1, <1>2, <1>4, <1>6, <1>7 DEF Top

\* A line that is read and says l: what happens to all but the positions.
Notes(l) ==
    \/ \E g \in seen : l = IncludeOf(g) /\ UNCHANGED <<declared, defined, redefined>>
    \/ /\ \A x : l # Define(x) /\ l # IncludeOf(x)
       /\ declared \subseteq declared' /\ declared' \subseteq Name
       /\ UNCHANGED <<defined, redefined>>
    \/ \E x \in Type : /\ l = Define(x) /\ declared' = declared \cup {x}
                       /\ defined' = defined \cup {x}
                       /\ redefined' = redefined \cup (defined \cap {x})

LEMMA LineCases ==
    ASSUME NEW h \in Header, NEW l \in Line(h)
    PROVE \/ \E g \in Lower(h) : l = IncludeOf(g) /\ l[1] = "include" /\ l[2] = g
          \/ \E x \in Name : l[1] \in {"declare", "use", "require"} /\ l[2] = x
          \/ \E x \in Type : l = Define(x) /\ l[1] = "define" /\ l[2] = x
<1>1. \/ \E g \in Lower(h) : l = <<"include", g, None>>
      \/ \E x \in Name : l = <<"declare", x, None>>
      \/ \E x \in Type : l = <<"define", x, None>>
      \/ \E x \in Name, t \in Type : l = <<"use", x, t>> \/ l = <<"require", x, t>>
  BY DEF Line, TypeLine
<1>2. CASE \E g \in Lower(h) : l = <<"include", g, None>> BY <1>2 DEF IncludeOf
<1>3. CASE \E x \in Type : l = <<"define", x, None>> BY <1>3 DEF Define
<1>4. CASE \E x \in Name : l = <<"declare", x, None>> BY <1>4
<1>5. CASE \E x \in Name, t \in Type : l = <<"use", x, t>> \/ l = <<"require", x, t>> BY <1>5
<1> QED BY <1>1, <1>2, <1>3, <1>4, <1>5

LEMMA ReadCases ==
    ASSUME WriterOK, ReaderOK, Read
    PROVE /\ UNCHANGED writerVars /\ reading # << >> /\ Top.file \in seen
          /\ \E l : /\ Top.at \in 1..Len(files[Top.file]) /\ l = files[Top.file][Top.at]
                    /\ \/ \E g \in Lower(Top.file) :
                             /\ g \notin seen /\ l = IncludeOf(g)
                             /\ reading' = Append(Advanced, [file |-> g, at |-> 1])
                             /\ seen' = seen \cup {g}
                             /\ UNCHANGED <<declared, defined, redefined>>
                       \/ reading' = Advanced /\ seen' = seen /\ Notes(l)
<1>1. reading # << >> /\ Top.at <= Len(files[Top.file]) /\ UNCHANGED writerVars BY DEF Read
<1>2. Top \in Frame /\ Len(reading) \in 1..Len(reading)
  BY <1>1, AdvancedFacts DEF ReaderOK, ReaderTypes
<1>3. Top.file \in seen BY <1>2 DEF ReaderOK, Nested, Top
<1>4. Top.file \in Header /\ Top.at \in 1..Len(files[Top.file]) /\ stage = "done"
      /\ files[Top.file] \in Seq(Line(Top.file))
  <2>1. Top.file \in Header /\ Top.at \in Nat \ {0} BY <1>2 DEF Frame
  <2>2. stage = "done" BY <1>1 DEF ReaderOK, ReaderTypes
  <2>3. files[Top.file] \in Seq(Line(Top.file)) BY <2>1 DEF WriterOK, FilesOK, FileText
  <2>4. Len(files[Top.file]) \in Nat BY <2>3
  <2> QED BY <1>1, <2>1, <2>2, <2>3, <2>4
<1>5. PICK l : l = files[Top.file][Top.at] OBVIOUS
<1>6. l \in Line(Top.file) BY <1>4, <1>5
<1>7. declared \subseteq Name BY DEF ReaderOK, ReaderTypes
<1>8. \/ \E g \in Lower(Top.file) :
            /\ g \notin seen /\ l = IncludeOf(g)
            /\ reading' = Append(Advanced, [file |-> g, at |-> 1])
            /\ seen' = seen \cup {g}
            /\ UNCHANGED <<declared, defined, redefined>>
      \/ reading' = Advanced /\ seen' = seen /\ Notes(l)
  <2>1. ASSUME NEW g \in Lower(Top.file), l = IncludeOf(g), l[1] = "include", l[2] = g, g \notin seen
        PROVE /\ reading' = Append(Advanced, [file |-> g, at |-> 1])
              /\ seen' = seen \cup {g} /\ UNCHANGED <<declared, defined, redefined>>
    BY <1>5, <2>1 DEF Read
  <2>2. ASSUME NEW g \in Lower(Top.file), l = IncludeOf(g), l[1] = "include", l[2] = g, g \in seen
        PROVE reading' = Advanced /\ seen' = seen /\ UNCHANGED <<declared, defined, redefined>>
    BY <1>5, <2>2 DEF Read
  <2>3. ASSUME NEW x \in Name, l[1] \in {"declare", "use", "require"}, l[2] = x
        PROVE reading' = Advanced /\ seen' = seen /\ Notes(l)
    <3>1. /\ reading' = Advanced /\ seen' = seen /\ UNCHANGED <<defined, redefined>>
          /\ declared' = declared \/ declared' = declared \cup {x}
      BY <1>5, <2>3 DEF Read
    <3>2. \A y : l # Define(y) /\ l # IncludeOf(y) BY <2>3 DEF Define, IncludeOf
    <3> QED BY <1>7, <2>3, <3>1, <3>2 DEF Notes
  <2>4. ASSUME NEW x \in Type, l = Define(x), l[1] = "define", l[2] = x
        PROVE reading' = Advanced /\ seen' = seen /\ Notes(l)
    <3>1. /\ reading' = Advanced /\ seen' = seen
          /\ declared' = declared \cup {x} /\ defined' = defined \cup {x}
          /\ redefined' = redefined \cup (defined \cap {x})
      BY <1>5, <2>4 DEF Read
    <3> QED BY <2>4, <3>1 DEF Notes
  <2> QED BY <1>4, <1>6, <2>1, <2>2, <2>3, <2>4, LineCases DEF Notes
<1> QED BY <1>1, <1>3, <1>4, <1>5, <1>8

\* Reading on takes the innermost file past a line and nothing else.
LEMMA ReadMoves ==
    ASSUME ReaderOK, reading # << >>, NEW f, NEW a, f = Top.file, a = Top.at,
           \/ reading' = Advanced
           \/ \E g \in Lower(Top.file) :
                 g \notin seen /\ reading' = Append(Advanced, [file |-> g, at |-> 1])
    PROVE /\ reading' \in Seq(Frame)
          /\ \A i, j \in 1..Len(reading') : i < j => Rank(reading'[j].file) < Rank(reading'[i].file)
          /\ \A h \in seen, k \in Nat :
                /\ Past(h, k) => Past(h, k)'
                /\ Past(h, k)' => Past(h, k) \/ (h = f /\ k = a)
          /\ Past(f, a)'
<1> DEFINE n == Len(reading)
<1>1. /\ n \in 1..n /\ Top \in Frame /\ Top = reading[n] /\ n \in Nat
      /\ Advanced \in Seq(Frame) /\ Len(Advanced) = n
      /\ \A i \in 1..n : /\ Advanced[i].file = reading[i].file
                         /\ Advanced[i].at = IF i = n THEN reading[i].at + 1 ELSE reading[i].at
  BY AdvancedFacts DEF ReaderOK, ReaderTypes, Top
<1>2. \A i \in 1..n : reading[i].at \in Nat /\ reading[i].file \in seen /\ reading[i].file \in Header
  <2>1. \A i \in 1..n : reading[i] \in Frame BY DEF ReaderOK, ReaderTypes
  <2> QED BY <2>1 DEF ReaderOK, Nested, Frame
<1>3. \A i, j \in 1..n : i < j => Rank(reading[j].file) < Rank(reading[i].file)
  BY DEF ReaderOK, Nested
<1>4. \A i \in 1..n : Rank(reading[i].file) \in Nat BY <1>2, RankIsNat
<1>5. \A i \in 1..n : reading[i].file = Top.file => i = n BY <1>1, <1>3, <1>4
<1>6. ASSUME NEW r, \A i \in 1..n : r[i] = Advanced[i],
             \/ Len(r) = n
             \/ Len(r) = n + 1 /\ r[n + 1].file \notin seen /\ r[n + 1].at = 1
                               /\ Rank(r[n + 1].file) < Rank(Top.file)
                               /\ Rank(r[n + 1].file) \in Nat
      PROVE /\ \A i, j \in 1..Len(r) : i < j => Rank(r[j].file) < Rank(r[i].file)
            /\ \A h \in seen, k \in Nat :
                /\ Past(h, k) => \A i \in 1..Len(r) : r[i].file = h => k < r[i].at
                /\ (\A i \in 1..Len(r) : r[i].file = h => k < r[i].at)
                      => Past(h, k) \/ (h = f /\ k = a)
            /\ \A i \in 1..Len(r) : r[i].file = f => a < r[i].at
  <2>1. \A i \in 1..n : r[i].file = reading[i].file /\ r[i].at >= reading[i].at /\ r[i].at \in Nat
    BY <1>1, <1>2, <1>6
  <2>2. \A i \in 1..Len(r) : i \in 1..n \/ (i = n + 1 /\ Len(r) = n + 1) BY <1>1, <1>6
  <2>3. ASSUME NEW i \in 1..n PROVE i = n \/ Rank(Top.file) < Rank(reading[i].file)
    BY <1>1, <1>3
  <2>4. \A i, j \in 1..Len(r) : i < j => Rank(r[j].file) < Rank(r[i].file)
    <3> SUFFICES ASSUME NEW i \in 1..Len(r), NEW j \in 1..Len(r), i < j
                 PROVE Rank(r[j].file) < Rank(r[i].file)
      OBVIOUS
    <3>1. i \in 1..n BY <1>1, <1>6
    <3>2. CASE j \in 1..n BY <1>3, <2>1, <3>1, <3>2
    <3>3. CASE j = n + 1 /\ Len(r) = n + 1
      <4>1. Rank(r[j].file) < Rank(Top.file) BY <1>1, <1>6, <3>3
      <4>2. i = n \/ Rank(Top.file) < Rank(reading[i].file) BY <2>3, <3>1
      <4>3. Rank(r[j].file) \in Nat /\ Rank(Top.file) \in Nat /\ Rank(reading[i].file) \in Nat
        BY <1>1, <1>4, <1>6, <3>1, <3>3
      <4>4. r[i].file = reading[i].file /\ (i = n => reading[i] = Top) BY <1>1, <2>1, <3>1
      <4> QED BY <4>1, <4>2, <4>3, <4>4
    <3> QED BY <2>2, <3>2, <3>3
  <2>5. ASSUME NEW h \in seen, NEW k \in Nat, Past(h, k), NEW i \in 1..Len(r), r[i].file = h
        PROVE k < r[i].at
    <3>1. i \in 1..n BY <1>1, <1>6, <2>2, <2>5
    <3>2. k < reading[i].at BY <2>1, <2>5, <3>1 DEF Past
    <3> QED BY <1>2, <2>1, <3>1, <3>2
  <2>6. ASSUME NEW h \in seen, NEW k \in Nat, \A i \in 1..Len(r) : r[i].file = h => k < r[i].at,
               ~Past(h, k)
        PROVE h = f /\ k = a
    <3>1. PICK i \in 1..n : reading[i].file = h /\ ~(k < reading[i].at) BY <2>6 DEF Past
    <3>2. i \in 1..Len(r) BY <1>1, <1>6, <3>1
    <3>3. k < r[i].at BY <2>1, <2>6, <3>1, <3>2
    <3>4. i = n BY <1>1, <1>6, <3>1, <3>3
    <3>5. r[n].at = Top.at + 1 BY <1>1, <1>6
    <3>6. k \in Nat /\ a \in Nat /\ reading[n].at = a /\ reading[n].file = f BY <1>1, <1>2
    <3> QED BY <3>1, <3>3, <3>4, <3>5, <3>6
  <2>7. ASSUME NEW i \in 1..Len(r), r[i].file = f PROVE a < r[i].at
    <3>1. i \in 1..n BY <1>1, <1>2, <1>6, <2>2, <2>7
    <3>2. i = n BY <1>5, <2>1, <2>7, <3>1
    <3> QED BY <1>1, <1>2, <1>6, <3>2
  <2> QED BY <2>4, <2>5, <2>6, <2>7
<1>7. PICK r : r = reading' OBVIOUS
<1>8. \A h, k : Past(h, k)' <=> \A i \in 1..Len(r) : r[i].file = h => k < r[i].at
  BY <1>7 DEF Past
<1>9. /\ r \in Seq(Frame) /\ \A i \in 1..n : r[i] = Advanced[i]
      /\ \/ Len(r) = n
         \/ Len(r) = n + 1 /\ r[n + 1].file \notin seen /\ r[n + 1].at = 1
                           /\ Rank(r[n + 1].file) < Rank(Top.file)
                           /\ Rank(r[n + 1].file) \in Nat
  <2>1. CASE reading' = Advanced BY <1>1, <1>7, <2>1
  <2>2. ASSUME NEW g \in Lower(Top.file), g \notin seen, NEW fr, fr = [file |-> g, at |-> 1],
               r = Append(Advanced, fr)
        PROVE /\ r \in Seq(Frame) /\ \A i \in 1..n : r[i] = Advanced[i]
              /\ Len(r) = n + 1 /\ r[n + 1].file = g /\ r[n + 1].at = 1
              /\ Rank(g) < Rank(Top.file) /\ Rank(g) \in Nat
    <3>1. fr \in Frame /\ fr.file = g /\ fr.at = 1 /\ Rank(g) < Rank(Top.file) /\ Rank(g) \in Nat
      BY <2>2, RankIsNat DEF Frame, Lower
    <3>2. /\ r \in Seq(Frame) /\ Len(r) = n + 1 /\ r[n + 1] = fr
          /\ \A i \in 1..n : r[i] = Advanced[i]
      BY <1>1, <2>2, <3>1
    <3> QED BY <3>1, <3>2
  <2> QED BY <1>7, <2>1, <2>2
<1> HIDE DEF n
<1>10. /\ \A i, j \in 1..Len(r) : i < j => Rank(r[j].file) < Rank(r[i].file)
       /\ \A h \in seen, k \in Nat :
             /\ Past(h, k) => \A i \in 1..Len(r) : r[i].file = h => k < r[i].at
             /\ (\A i \in 1..Len(r) : r[i].file = h => k < r[i].at)
                   => Past(h, k) \/ (h = f /\ k = a)
       /\ \A i \in 1..Len(r) : r[i].file = f => a < r[i].at
  BY <1>6, <1>9
<1> QED BY <1>7, <1>8, <1>9, <1>10

\* After a line nothing is forgotten, and what the line says is known.
Learned(l) ==
    /\ seen \subseteq seen' /\ seen' \subseteq Header /\ defined \subseteq defined'
    /\ \A x \in Type : l = Define(x) => x \in defined'
    /\ \A g \in Header : l = IncludeOf(g) => g \in seen'
    /\ declared' \subseteq Name /\ defined' \subseteq declared' /\ defined' \subseteq Type
    /\ redefined' \subseteq Type

LEMMA ReadOK == ASSUME WriterOK, ReaderOK, Read PROVE ReaderOK'
<1>1. UNCHANGED writerVars /\ reading # << >> /\ Top.file \in seen BY ReadCases
<1>2. PICK l : /\ Top.at \in 1..Len(files[Top.file]) /\ l = files[Top.file][Top.at]
               /\ \/ \E g \in Lower(Top.file) :
                        /\ g \notin seen /\ l = IncludeOf(g)
                        /\ reading' = Append(Advanced, [file |-> g, at |-> 1])
                        /\ seen' = seen \cup {g}
                        /\ UNCHANGED <<declared, defined, redefined>>
                  \/ reading' = Advanced /\ seen' = seen /\ Notes(l)
  BY ReadCases
<1>3. PICK f, a : f = Top.file /\ a = Top.at OBVIOUS
<1>4. /\ reading' \in Seq(Frame)
      /\ \A i, j \in 1..Len(reading') : i < j => Rank(reading'[j].file) < Rank(reading'[i].file)
      /\ \A h \in seen, k \in Nat :
            /\ Past(h, k) => Past(h, k)'
            /\ Past(h, k)' => Past(h, k) \/ (h = f /\ k = a)
      /\ Past(f, a)'
  BY <1>1, <1>2, <1>3, ReadMoves
<1>5. /\ f \in seen /\ a \in 1..Len(files[f]) /\ l = files[f][a]
      /\ files' = files /\ stage' = stage /\ input' = input /\ stage = "done"
      /\ a \in Nat
  <2>1. stage = "done" BY <1>1 DEF ReaderOK, ReaderTypes
  <2> QED BY <1>1, <1>2, <1>3, <2>1 DEF writerVars, writer
<1>6. \A x : Category(x)' = Category(x) BY <1>5 DEF Category
<1>7. seen \subseteq Header /\ \A h \in seen : files[h] \in Seq(Line(h)) /\ Len(files[h]) \in Nat
  BY DEF ReaderOK, ReaderTypes, WriterOK, FilesOK, FileText
<1>8. Learned(l)
  <2>1. /\ \A x, y : Define(x) = Define(y) => x = y
        /\ \A x, y : IncludeOf(x) = IncludeOf(y) => x = y
        /\ \A x, y : IncludeOf(x) # Define(y)
    BY DEF Define, IncludeOf
  <2>2. /\ declared \subseteq Name /\ defined \subseteq declared /\ defined \subseteq Type
        /\ redefined \subseteq Type
    BY DEF ReaderOK, ReaderTypes
  <2>3. ASSUME NEW g \in Lower(Top.file), l = IncludeOf(g), seen' = seen \cup {g},
               UNCHANGED <<declared, defined, redefined>>
        PROVE Learned(l)
    <3>1. g \in Header BY DEF Lower
    <3> QED BY <1>7, <2>1, <2>2, <2>3, <3>1 DEF Learned
  <2>4. ASSUME seen' = seen, Notes(l) PROVE Learned(l)
    <3>1. ASSUME NEW g \in seen, l = IncludeOf(g), UNCHANGED <<declared, defined, redefined>>
          PROVE Learned(l)
      BY <1>7, <2>1, <2>2, <2>4, <3>1 DEF Learned
    <3>2. ASSUME \A x : l # Define(x) /\ l # IncludeOf(x), declared \subseteq declared',
                 declared' \subseteq Name, UNCHANGED <<defined, redefined>>
          PROVE Learned(l)
      BY <1>7, <2>2, <2>4, <3>2 DEF Learned
    <3>3. ASSUME NEW x \in Type, l = Define(x), declared' = declared \cup {x},
                 defined' = defined \cup {x}, redefined' = redefined \cup (defined \cap {x})
          PROVE Learned(l)
      BY <1>7, <2>1, <2>2, <2>4, <3>3 DEF Name, Learned
    <3> QED BY <2>4, <3>1, <3>2, <3>3 DEF Notes
  <2> QED BY <1>2, <2>3, <2>4
<1>9. ReaderTypes' BY <1>4, <1>5, <1>8 DEF ReaderTypes, Learned
<1>10. Nested'
  <2>1. ASSUME NEW i \in 1..Len(reading') PROVE reading'[i].file \in seen'
    <3>1. /\ reading \in Seq(Frame) /\ Advanced \in Seq(Frame) /\ Len(Advanced) = Len(reading)
          /\ \A m \in 1..Len(reading) : Advanced[m].file = reading[m].file
          /\ \A m \in 1..Len(reading) : reading[m].file \in seen
      BY <1>1, AdvancedFacts DEF ReaderOK, ReaderTypes, Nested
    <3>2. CASE reading' = Advanced BY <1>8, <3>1, <3>2 DEF Learned
    <3>3. ASSUME NEW g, NEW fr, fr.file = g, reading' = Append(Advanced, fr), g \in seen'
          PROVE reading'[i].file \in seen'
      <4>1. CASE i \in 1..Len(reading)
        <5>1. reading'[i] = Advanced[i] BY <3>1, <3>3, <4>1
        <5> QED BY <1>8, <3>1, <4>1, <5>1 DEF Learned
      <4>2. CASE i \notin 1..Len(reading)
        <5>1. reading'[i] = fr BY <3>1, <3>3, <4>2
        <5> QED BY <3>3, <5>1
      <4> QED BY <4>1, <4>2
    <3> QED BY <1>2, <3>2, <3>3
  <2> QED BY <1>4, <2>1 DEF Nested
<1>11. Noted'
  <2> SUFFICES ASSUME NEW h \in seen', NEW k \in 1..Len(files'[h]), Past(h, k)'
               PROVE /\ \A x \in Type : files'[h][k] = Define(x) => x \in defined'
                     /\ \A g \in Header : files'[h][k] = IncludeOf(g) => g \in seen'
    BY DEF Noted
  <2>1. CASE h \in seen
    <3>1. k \in Nat BY <1>5, <1>7, <2>1
    <3>2. Past(h, k) \/ (h = f /\ k = a) BY <1>4, <2>1, <3>1
    <3>3. CASE h = f /\ k = a BY <1>5, <1>8, <3>3 DEF Learned
    <3>4. CASE Past(h, k) BY <1>5, <1>8, <2>1, <3>4 DEF Learned, ReaderOK, Noted
    <3> QED BY <3>2, <3>3, <3>4
  <2>2. CASE h \notin seen
    <3>1. PICK g \in Lower(Top.file) : /\ reading' = Append(Advanced, [file |-> g, at |-> 1])
                                       /\ seen' = seen \cup {g}
      BY <1>2, <2>2
    <3>2. h = g BY <2>2, <3>1
    <3>3. PICK fr : fr = [file |-> g, at |-> 1] OBVIOUS
    <3>4. Advanced \in Seq(Frame) BY <1>1, AdvancedFacts DEF ReaderOK, ReaderTypes
    <3>5. Len(reading') = Len(Advanced) + 1 /\ reading'[Len(Advanced) + 1] = fr /\ Len(Advanced) \in Nat
      BY <3>1, <3>3, <3>4
    <3>6. fr.file = h /\ fr.at = 1 BY <3>2, <3>3
    <3>7. k < 1
      <4>1. Len(Advanced) + 1 \in 1..Len(reading') BY <3>5
      <4> QED BY <3>5, <3>6, <4>1 DEF Past
    <3>8. h \in Header BY <1>8 DEF Learned
    <3> QED BY <3>7
  <2> QED BY <2>1, <2>2
<1>12. FromHome'
  <2> SUFFICES ASSUME NEW x \in defined', Category(x) # "delegate"
               PROVE \E h \in seen' : \E k \in 1..Len(files'[h]) :
                        files'[h][k] = Define(x) /\ Past(h, k)'
    BY <1>6 DEF FromHome
  <2>1. CASE x \in defined
    <3>1. PICK h \in seen : \E k \in 1..Len(files[h]) : files[h][k] = Define(x) /\ Past(h, k)
      BY <2>1 DEF ReaderOK, FromHome
    <3>2. PICK k \in 1..Len(files[h]) : files[h][k] = Define(x) /\ Past(h, k) BY <3>1
    <3>3. k \in Nat BY <1>7, <3>1
    <3> QED BY <1>4, <1>5, <1>8, <3>1, <3>2, <3>3 DEF Learned
  <2>2. CASE x \notin defined
    <3>1. l = Define(x) BY <1>2, <2>2 DEF Notes
    <3> QED BY <1>4, <1>5, <1>8, <3>1 DEF Learned
  <2> QED BY <2>1, <2>2
<1>13. DefinedOnce'
  <2> SUFFICES ASSUME NEW x \in redefined' PROVE Category(x) = "delegate"
    BY <1>6 DEF DefinedOnce
  <2>1. CASE x \in redefined BY <2>1 DEF ReaderOK, DefinedOnce
  <2>2. CASE x \notin redefined
    <3>1. l = Define(x) /\ x \in defined
      <4>1. Notes(l) /\ redefined' # redefined BY <1>2, <2>2
      <4> QED BY <2>2, <4>1 DEF Notes
    <3>2. x \in Type BY <3>1 DEF ReaderOK, ReaderTypes
    <3> SUFFICES ASSUME Category(x) # "delegate" PROVE FALSE OBVIOUS
    <3>3. PICK h \in seen : \E k \in 1..Len(files[h]) : files[h][k] = Define(x) /\ Past(h, k)
      BY <3>1 DEF ReaderOK, FromHome
    <3>4. PICK k \in 1..Len(files[h]) : files[h][k] = Define(x) /\ Past(h, k) BY <3>3
    <3>5. Has(files[h], Define(x)) /\ Has(files[f], Define(x)) BY <1>5, <3>1, <3>4 DEF Has
    <3>6. /\ <<Category(x), x>> \in Body(h) /\ <<Category(x), x>> \in Body(f)
          /\ Category(x) \in Defining
          /\ OnceIn(files[f], Define(x))
      BY <1>5, <1>7, <3>2, <3>5 DEF WriterOK, FilesOK, FileText
    <3>7. input \in Metadata BY DEF WriterOK, WriterTypes
    <3>8. Category(x) # "class" BY <3>6 DEF Defining
    <3>9. h = f BY <1>5, <1>7, <3>2, <3>6, <3>7, <3>8, DefinedAtHome
    <3>10. k = a BY <1>5, <3>1, <3>4, <3>6, <3>9 DEF OnceIn
    <3>11. Len(reading) \in 1..Len(reading) /\ reading[Len(reading)] = Top /\ Top \in Frame
      BY <1>1, AdvancedFacts DEF ReaderOK, ReaderTypes, Top
    <3>12. k < a BY <1>3, <3>4, <3>9, <3>11 DEF Past
    <3> QED BY <1>5, <3>10, <3>12
  <2> QED BY <2>1, <2>2
<1> QED BY <1>9, <1>10, <1>11, <1>12, <1>13 DEF ReaderOK

LEMMA WithoutLast ==
    ASSUME NEW S, NEW s \in Seq(S), Len(s) > 0
    PROVE /\ SubSeq(s, 1, Len(s) - 1) \in Seq(S)
          /\ Len(SubSeq(s, 1, Len(s) - 1)) = Len(s) - 1
          /\ \A i \in 1..(Len(s) - 1) : SubSeq(s, 1, Len(s) - 1)[i] = s[i]
<1>1. PICK n : n = Len(s) - 1 OBVIOUS
<1>2. n \in Int /\ n >= 0 /\ \A i \in 1..n : s[i] \in S BY <1>1
<1>3. /\ SubSeq(s, 1, n) \in Seq(S)
      /\ Len(SubSeq(s, 1, n)) = IF 1 <= n THEN n - 1 + 1 ELSE 0
      /\ \A i \in 1..(n - 1 + 1) : SubSeq(s, 1, n)[i] = s[1 + i - 1]
  BY <1>2, SubSeqProperties
<1>4. n - 1 + 1 = n /\ \A i \in 1..n : 1 + i - 1 = i BY <1>2
<1>5. SubSeq(s, 1, n) \in Seq(S) /\ Len(SubSeq(s, 1, n)) = n BY <1>2, <1>3
<1>6. \A i \in 1..n : SubSeq(s, 1, n)[i] = s[i] BY <1>3, <1>4
<1> QED BY <1>1, <1>5, <1>6

LEMMA EndOfFileOK == ASSUME WriterOK, ReaderOK, EndOfFile PROVE ReaderOK'
<1>1. /\ reading # << >> /\ Top.at > Len(files[Top.file])
      /\ reading' = SubSeq(reading, 1, Len(reading) - 1)
      /\ UNCHANGED <<writerVars, seen, declared, defined, redefined>>
  BY DEF EndOfFile
<1> DEFINE n == Len(reading)
<1>2. reading \in Seq(Frame) /\ n \in Nat /\ n > 0 /\ Top = reading[n] /\ Top \in Frame
      /\ seen \subseteq Header
  BY <1>1, AdvancedFacts DEF ReaderOK, ReaderTypes, Top
<1>3. reading' \in Seq(Frame) /\ Len(reading') = n - 1 /\ \A i \in 1..(n - 1) : reading'[i] = reading[i]
  BY <1>1, <1>2, WithoutLast
<1>4. UNCHANGED <<files, stage, input>> BY <1>1 DEF writerVars, writer
<1>5. \A x : Category(x)' = Category(x) BY <1>4 DEF Category
<1>6. ReaderTypes'
  <2>1. stage # "done" => reading' = << >> BY <1>1, <1>2 DEF ReaderOK, ReaderTypes
  <2> QED BY <1>1, <1>3, <1>4, <2>1 DEF ReaderOK, ReaderTypes
<1>7. Nested' BY SMTT(20), <1>1, <1>2, <1>3 DEF ReaderOK, Nested
<1>8. ASSUME NEW h \in seen, NEW k \in 1..Len(files[h]) PROVE Past(h, k)' <=> Past(h, k)
  <2>1. files[h] \in Seq(Line(h)) BY <1>2 DEF WriterOK, FilesOK, FileText
  <2>2. Len(files[h]) \in Nat /\ k \in Nat /\ Top.at \in Nat BY <1>2, <2>1 DEF Frame
  <2>3. h = Top.file => k < Top.at BY <1>1, <2>2
  <2>4. \A i \in 1..n : i \in 1..(n - 1) \/ reading[i] = Top BY <1>2
  <2>5. Past(h, k)' => Past(h, k) BY <1>3, <2>3, <2>4 DEF Past
  <2>6. \A i \in 1..(n - 1) : i \in 1..n BY <1>2
  <2>7. Past(h, k) => Past(h, k)' BY <1>3, <2>6 DEF Past
  <2> QED BY <2>5, <2>7
<1> HIDE DEF n
<1>9. Noted' BY <1>1, <1>4, <1>8 DEF ReaderOK, Noted
<1>10. FromHome' BY <1>1, <1>4, <1>5, <1>8 DEF ReaderOK, FromHome
<1>11. DefinedOnce' BY <1>1, <1>5 DEF ReaderOK, DefinedOnce
<1> QED BY <1>6, <1>7, <1>9, <1>10, <1>11 DEF ReaderOK

LEMMA IncludeOK == ASSUME WriterOK, ReaderOK, Include PROVE ReaderOK'
<1>1. PICK n \in Namespace : /\ <<n, "h">> \notin seen
                             /\ reading' = << [file |-> <<n, "h">>, at |-> 1] >>
                             /\ seen' = seen \cup {<<n, "h">>}
  BY DEF Include
<1>2. /\ stage = "done" /\ reading = << >>
      /\ UNCHANGED <<writerVars, declared, defined, redefined>>
  BY DEF Include
<1>3. UNCHANGED <<files, stage, input>> BY <1>2 DEF writerVars, writer
<1>4. \A x : Category(x)' = Category(x) BY <1>3 DEF Category
<1>5. PICK g : g = <<n, "h">> OBVIOUS
<1>6. PICK fr : fr = [file |-> g, at |-> 1] OBVIOUS
<1>7. g \in Header /\ fr \in Frame /\ fr.file = g /\ fr.at = 1
  <2>1. g \in Header BY <1>5, NamedHeaders
  <2> QED BY <1>6, <2>1 DEF Frame
<1>8. g \notin seen /\ reading' = <<fr>> /\ seen' = seen \cup {g} BY <1>1, <1>5, <1>6
<1>9. reading' \in Seq(Frame) /\ Len(reading') = 1 /\ reading'[1] = fr BY <1>7, <1>8
<1>10. ReaderTypes' BY <1>2, <1>3, <1>7, <1>8, <1>9 DEF ReaderOK, ReaderTypes
<1>11. Nested' BY <1>7, <1>8, <1>9 DEF Nested
<1>12. \A h, k : Past(h, k) BY <1>2 DEF Past
<1>13. \A h \in seen, k \in Nat : Past(h, k)' BY <1>7, <1>8, <1>9 DEF Past
<1>14. ASSUME NEW k \in Nat, Past(g, k)' PROVE k < 1
  <2>1. 1 \in 1..Len(reading') BY <1>9
  <2> QED BY <1>7, <1>9, <1>14, <2>1 DEF Past
<1>15. \A h \in Header : Len(files[h]) \in Nat
  <2>1. \A h \in Header : files[h] \in Seq(Line(h)) BY DEF WriterOK, FilesOK, FileText
  <2> QED BY <2>1
<1>16. Noted'
  <2> SUFFICES ASSUME NEW h \in seen', NEW k \in 1..Len(files[h]), Past(h, k)'
               PROVE /\ \A x \in Type : files[h][k] = Define(x) => x \in defined'
                     /\ \A f \in Header : files[h][k] = IncludeOf(f) => f \in seen'
    BY <1>3 DEF Noted
  <2>1. CASE h = g
    <3>1. k \in Nat /\ k > 0 BY <1>7, <1>15, <2>1
    <3> QED BY <1>14, <2>1, <3>1
  <2>2. CASE h # g BY <1>2, <1>8, <1>12, <2>2 DEF ReaderOK, Noted
  <2> QED BY <2>1, <2>2
<1>17. FromHome'
  <2> SUFFICES ASSUME NEW x \in defined, Category(x) # "delegate"
               PROVE \E h \in seen' : \E k \in 1..Len(files[h]) :
                        files[h][k] = Define(x) /\ Past(h, k)'
    BY <1>2, <1>3, <1>4 DEF FromHome
  <2>1. PICK h \in seen : \E k \in 1..Len(files[h]) : files[h][k] = Define(x)
    BY DEF ReaderOK, FromHome
  <2>2. PICK k \in 1..Len(files[h]) : files[h][k] = Define(x) BY <2>1
  <2>3. k \in Nat BY <1>15, <2>1 DEF ReaderOK, ReaderTypes
  <2> QED BY <1>8, <1>13, <2>1, <2>2, <2>3
<1>18. DefinedOnce' BY <1>2, <1>4 DEF ReaderOK, DefinedOnce
<1> QED BY <1>10, <1>11, <1>16, <1>17, <1>18 DEF ReaderOK

\* While headers are written, nothing has been read.
LEMMA WriteOK == ASSUME WriterOK, ReaderOK, Write PROVE WriterOK' /\ ReaderOK'
<1>1. WriterOK' BY WriteBodyOK, SwapOK, ForwardNextOK, SaveOK DEF Write, WriterNext
<1>2. stage # "done" BY DEF Write, WriterNext, WriteBody, Swap, ForwardNext, Save
<1>3. UNCHANGED <<reading, seen, declared, defined, redefined>> BY DEF Write, reader
<1>4. reading = << >> /\ seen = {} /\ defined = {} /\ redefined = {}
  BY <1>2 DEF ReaderOK, ReaderTypes
<1>5. ReaderTypes' BY <1>3, <1>4 DEF ReaderOK, ReaderTypes
<1>6. Nested' BY <1>3, <1>4 DEF Nested
<1>7. Noted' BY <1>3, <1>4 DEF Noted
<1>8. FromHome' BY <1>3, <1>4 DEF FromHome
<1>9. DefinedOnce' BY <1>3, <1>4 DEF DefinedOnce
<1> QED BY <1>1, <1>5, <1>6, <1>7, <1>8, <1>9 DEF ReaderOK

LEMMA WriterStays == ASSUME WriterOK, UNCHANGED writerVars PROVE WriterOK'
<1>1. UNCHANGED <<input, written, stage, jobs, first, second, depends, extern, forwarded, files>>
  BY DEF writerVars, writer
<1>2. WriterTypes' BY <1>1 DEF WriterOK, WriterTypes
<1>3. FilesOK' /\ Finished' BY <1>1, KeepsFiles DEF WriterOK
<1>4. BodyOK'
  <2> SUFFICES ASSUME stage = "body"
               PROVE \E h \in Header : \E js, s :
                        h = Current' /\ js = jobs' /\ s = first' /\ BodyText(h, js, s)'
    BY <1>1 DEF BodyOK
  <2>1. PICK h \in Header : \E js, s : h = Current /\ js = jobs /\ s = first /\ BodyText(h, js, s)
    BY DEF WriterOK, BodyOK
  <2>2. PICK js, s : h = Current /\ js = jobs /\ s = first /\ BodyText(h, js, s) BY <2>1
  <2>3. BodyText(h, js, s)' BY <1>1, <2>2, SameInput
  <2> QED BY <1>1, <2>2, <2>3 DEF Current
<1>5. FrontOK'
  <2> SUFFICES ASSUME stage = "front"
               PROVE \E h \in Header : \E s, t :
                        h = Current' /\ s = first' /\ t = second' /\ FrontText(h, s, t)'
    BY <1>1 DEF FrontOK
  <2>1. PICK h \in Header : \E s, t : h = Current /\ s = first /\ t = second /\ FrontText(h, s, t)
    BY DEF WriterOK, FrontOK
  <2>2. PICK s, t : h = Current /\ s = first /\ t = second /\ FrontText(h, s, t) BY <2>1
  <2>3. FrontText(h, s, t)' BY <1>1, <2>2, SameInput
  <2> QED BY <1>1, <2>2, <2>3 DEF Current
<1> QED BY <1>2, <1>3, <1>4, <1>5 DEF WriterOK

LEMMA ReaderStays == ASSUME ReaderOK, UNCHANGED vars PROVE ReaderOK'
<1>1. UNCHANGED <<input, stage, files, reading, seen, declared, defined, redefined>>
  BY DEF vars, writerVars, writer, reader
<1>2. \A x : Category(x)' = Category(x) BY <1>1 DEF Category
<1>3. \A h, k : Past(h, k)' <=> Past(h, k) BY <1>1 DEF Past
<1>4. ReaderTypes' /\ Nested' BY <1>1 DEF ReaderOK, ReaderTypes, Nested
<1>5. Noted' BY <1>1, <1>3 DEF ReaderOK, Noted
<1>6. FromHome' BY <1>1, <1>2, <1>3 DEF ReaderOK, FromHome
<1>7. DefinedOnce' BY <1>1, <1>2 DEF ReaderOK, DefinedOnce
<1> QED BY <1>4, <1>5, <1>6, <1>7 DEF ReaderOK

IInv == WriterOK /\ ReaderOK

LEMMA InitIInv == ASSUME Init PROVE IInv
<1>1. WriterOK BY InitOK DEF Init
<1>2. /\ reading = << >> /\ seen = {} /\ declared = {} /\ defined = {} /\ redefined = {}
  BY DEF Init
<1>3. ReaderTypes BY <1>2 DEF ReaderTypes
<1>4. Nested /\ Noted /\ FromHome /\ DefinedOnce
  BY <1>2 DEF Nested, Noted, FromHome, DefinedOnce
<1> QED BY <1>1, <1>3, <1>4 DEF IInv, ReaderOK

LEMMA NextIInv == ASSUME IInv, [Next]_vars PROVE IInv'
<1>1. CASE Write BY <1>1, WriteOK DEF IInv
<1>2. CASE Include
  <2>1. UNCHANGED writerVars BY <1>2 DEF Include
  <2> QED BY <1>2, <2>1, IncludeOK, WriterStays DEF IInv
<1>3. CASE Read
  <2>1. UNCHANGED writerVars BY <1>3 DEF Read
  <2> QED BY <1>3, <2>1, ReadOK, WriterStays DEF IInv
<1>4. CASE EndOfFile
  <2>1. UNCHANGED writerVars BY <1>4 DEF EndOfFile
  <2> QED BY <1>4, <2>1, EndOfFileOK, WriterStays DEF IInv
<1>5. CASE UNCHANGED vars
  <2>1. UNCHANGED writerVars BY <1>5 DEF vars
  <2> QED BY <1>5, <2>1, ReaderStays, WriterStays DEF IInv
<1> QED BY <1>1, <1>2, <1>3, <1>4, <1>5 DEF Next

-----------------------------------------------------------------------------
(* What is named, and what makes it known.                                  *)

Declare(x) == <<"declare", x, None>>
IsUse(l) == l[1] \in {"use", "require"}
LinesOf(s) == {s[k] : k \in 1..Len(s)}
Sofar(s, k) == {s[i] : i \in 1..(k - 1)}

\* The includes among the lines E by which header h knows type x.
Included(h, E, x, how) ==
    /\ x \in Type /\ Category(x) # "class"
    /\ \/ h = Structs /\ how = "use" /\ IncludeOf(<<input.namespace[x], "0">>) \in E
       \/ h = Interfaces /\ how = "use" /\ IncludeOf(<<input.namespace[x], "1">>) \in E
       \/ /\ h[2] \in {"2", "h"} /\ (how = "use" \/ Category(x) = "struct")
          /\ \A g \in Header : Fixed(h, g) => IncludeOf(g) \in E

\* Line l of header h, a use, comes behind lines E that make its name known, or
\* its name is among those that the front is still to make known, A, or it is one
\* of the gaps.
Explained(h, l, E, A) ==
    \/ RepeatedDelegate(h, l) \/ LaterRow(h, l) \/ UnresolvedType(h, l)
    \/ Define(l[2]) \in E
    \/ l[1] = "use" /\ Declare(l[2]) \in E
    \/ l[2] \in A /\ (l[1] = "use" \/ (h[2] = "h" /\ l[2] \in Type /\ Category(l[2]) = "struct"))
    \/ Included(h, E, l[2], l[1])

\* All uses in text s are explained, behind the lines E.
Expl(h, s, E, A) ==
    \A k \in 1..Len(s) : IsUse(s[k]) => Explained(h, s[k], E \cup Sofar(s, k), A)

\* The lines E make x known to header h wherever it is used.
Settled(h, x, E) ==
    \/ Define(x) \in E \/ (h[2] # "h" /\ Declare(x) \in E)
    \/ x = Unresolved /\ (Declare(x) \in E \/ h[2] \in {"0", "structs"})
    \/ Included(h, E, x, "use")

\* Jobs done have declared what they declare.
Forwarded(h, js, s) ==
    \A j \in Body(h) \ js : j[1] = "forward" => Has(s, Declare(j[2]))

LEMMA WeakenLine ==
    ASSUME input \in Metadata, NEW h, NEW l, NEW E, NEW A, NEW F, NEW B,
           Explained(h, l, E, A), IsUse(l), E \subseteq F,
           \A x \in A : x \in B \/ Settled(h, x, F)
    PROVE Explained(h, l, F, B)
<1>1. Included(h, E, l[2], l[1]) => Included(h, F, l[2], l[1]) BY DEF Included
<1>2. CASE l[2] \in A /\ (l[1] = "use" \/ (h[2] = "h" /\ l[2] \in Type /\ Category(l[2]) = "struct"))
  <2>1. CASE l[2] \in B BY <1>2, <2>1 DEF Explained
  <2>2. CASE Settled(h, l[2], F)
    <3>1. CASE Define(l[2]) \in F BY <3>1 DEF Explained
    <3>2. CASE h[2] # "h" /\ Declare(l[2]) \in F BY <1>2, <3>2 DEF Explained
    <3>3. CASE l[2] = Unresolved /\ (Declare(l[2]) \in F \/ h[2] \in {"0", "structs"})
      <4>1. Unresolved \notin Type BY SizesAssumption DEF Unresolved, Type
      <4>2. l[1] = "use" BY <1>2, <3>3, <4>1
      <4> QED BY <3>3, <4>2 DEF Explained, UnresolvedType
    <3>4. CASE Included(h, F, l[2], "use")
      <4>1. Included(h, F, l[2], l[1])
        <5>1. CASE l[1] = "use" BY <3>4, <5>1
        <5>2. CASE l[1] # "use" /\ h[2] = "h" /\ Category(l[2]) = "struct"
          <6>1. h # Structs /\ h # Interfaces BY <5>2 DEF Structs, Interfaces
          <6> QED BY <3>4, <5>2, <6>1 DEF Included
        <5> QED BY <1>2, <5>1, <5>2
      <4> QED BY <4>1 DEF Explained
    <3> QED BY <2>2, <3>1, <3>2, <3>3, <3>4 DEF Settled
  <2> QED BY <1>2, <2>1, <2>2
<1> QED BY <1>1, <1>2 DEF Explained

LEMMA Weaken ==
    ASSUME input \in Metadata, NEW h, NEW s, NEW E, NEW A, NEW F, NEW B,
           Expl(h, s, E, A), E \subseteq F, \A x \in A : x \in B \/ Settled(h, x, F)
    PROVE Expl(h, s, F, B)
<1> SUFFICES ASSUME NEW k \in 1..Len(s), IsUse(s[k])
             PROVE Explained(h, s[k], F \cup Sofar(s, k), B)
  BY DEF Expl
<1>1. PICK l, S : l = s[k] /\ S = Sofar(s, k) OBVIOUS
<1>2. Explained(h, l, E \cup S, A) /\ IsUse(l) BY <1>1 DEF Expl
<1>3. ASSUME NEW x \in A, Settled(h, x, F) PROVE Settled(h, x, F \cup S)
  BY <1>3 DEF Settled, Included
<1>4. \A x \in A : x \in B \/ Settled(h, x, F \cup S) BY <1>3
<1>5. Explained(h, l, F \cup S, B) BY <1>2, <1>4, WeakenLine
<1> QED BY <1>1, <1>5

LEMMA Concat ==
    ASSUME NEW S, NEW s \in Seq(S), NEW t \in Seq(S), NEW h, NEW E, NEW A,
           Expl(h, s, E, A), Expl(h, t, E \cup LinesOf(s), A)
    PROVE Expl(h, s \o t, E, A)
<1>1. /\ Len(s \o t) = Len(s) + Len(t) /\ Len(s) \in Nat /\ Len(t) \in Nat
      /\ \A k \in 1..Len(s) : (s \o t)[k] = s[k]
      /\ \A k \in 1..Len(t) : (s \o t)[Len(s) + k] = t[k]
  OBVIOUS
<1>2. PICK u : u = s \o t OBVIOUS
<1> SUFFICES ASSUME NEW k \in 1..Len(u), IsUse(u[k])
             PROVE Explained(h, u[k], E \cup Sofar(u, k), A)
  BY <1>2 DEF Expl
<1>3. CASE k <= Len(s)
  <2>1. Sofar(u, k) = Sofar(s, k) BY <1>1, <1>2, <1>3 DEF Sofar
  <2>2. u[k] = s[k] /\ k \in 1..Len(s) BY <1>1, <1>2, <1>3
  <2> QED BY <2>1, <2>2 DEF Expl
<1>4. CASE k > Len(s)
  <2>1. PICK m \in 1..Len(t) : k = Len(s) + m
    <3>1. k - Len(s) \in 1..Len(t) /\ k = Len(s) + (k - Len(s)) BY <1>1, <1>2, <1>4
    <3> QED BY <3>1
  <2>2. u[k] = t[m] BY <1>1, <1>2, <2>1
  <2>3. Sofar(u, k) = LinesOf(s) \cup Sofar(t, m)
    <3>1. ASSUME NEW i \in 1..Len(s) PROVE u[i] = s[i] /\ i \in 1..(k - 1) BY <1>1, <1>2, <1>4
    <3>2. ASSUME NEW i \in 1..(m - 1) PROVE u[Len(s) + i] = t[i] /\ Len(s) + i \in 1..(k - 1)
      BY <1>1, <1>2, <2>1
    <3>3. ASSUME NEW i \in 1..(k - 1), ~(i <= Len(s))
          PROVE i - Len(s) \in 1..(m - 1) /\ i = Len(s) + (i - Len(s))
      BY <1>1, <2>1, <3>3
    <3>4. \A i \in 1..(k - 1) : i <= Len(s) => i \in 1..Len(s) BY <1>1
    <3>5. Sofar(u, k) \subseteq LinesOf(s) \cup Sofar(t, m)
      <4> SUFFICES ASSUME NEW i \in 1..(k - 1) PROVE u[i] \in LinesOf(s) \cup Sofar(t, m) BY DEF Sofar
      <4>1. CASE i <= Len(s) BY <3>1, <3>4, <4>1 DEF LinesOf
      <4>2. CASE ~(i <= Len(s))
        <5>1. PICK n \in 1..(m - 1) : i = Len(s) + n BY <3>3, <4>2
        <5> QED BY <3>2, <5>1 DEF Sofar
      <4> QED BY <4>1, <4>2
    <3>6. LinesOf(s) \subseteq Sofar(u, k) BY <3>1 DEF LinesOf, Sofar
    <3>7. Sofar(t, m) \subseteq Sofar(u, k)
      <4> SUFFICES ASSUME NEW i \in 1..(m - 1) PROVE t[i] \in Sofar(u, k) BY DEF Sofar
      <4>1. PICK n : n = Len(s) + i OBVIOUS
      <4> QED BY <3>2, <4>1 DEF Sofar
    <3> QED BY <3>5, <3>6, <3>7
  <2>4. Explained(h, t[m], (E \cup LinesOf(s)) \cup Sofar(t, m), A) BY <2>1, <2>2 DEF Expl
  <2>5. (E \cup LinesOf(s)) \cup Sofar(t, m) = E \cup Sofar(u, k) BY <2>3
  <2> QED BY <2>2, <2>4, <2>5
<1> QED BY <1>1, <1>3, <1>4

LEMMA LinesOfConcat ==
    ASSUME NEW S, NEW s \in Seq(S), NEW t \in Seq(S)
    PROVE LinesOf(s \o t) = LinesOf(s) \cup LinesOf(t)
<1>1. \A l : Has(s \o t, l) <=> (Has(s, l) \/ Has(t, l)) BY Concatenated
<1>2. \A u, l : l \in LinesOf(u) <=> Has(u, l) BY DEF LinesOf, Has
<1> QED BY <1>1, <1>2

\* The lines of a signature.
LEMMA SignatureUses ==
    ASSUME input \in Metadata, NEW t \in Type, NEW kind
    PROVE /\ Signature(kind, t) \in Seq(TypeLine)
          /\ Len(Signature(kind, t)) = Len(input.refs[t]) /\ Len(input.refs[t]) \in Nat
          /\ \A i \in 1..Len(input.refs[t]) :
                /\ Signature(kind, t)[i] = <<Needs(kind, input.refs[t][i]), input.refs[t][i].to, t>>
                /\ input.refs[t][i].to \in Name /\ input.refs[t][i].to \in Named(t)
<1>1. Len(input.refs[t]) \in Nat BY OfTypes
<1>2. \A i \in 1..Len(input.refs[t]) :
         Signature(kind, t)[i] = <<Needs(kind, input.refs[t][i]), input.refs[t][i].to, t>>
  BY DEF Signature
<1>3. Len(Signature(kind, t)) = Len(input.refs[t]) BY <1>1 DEF Signature
<1>4. \A i \in 1..Len(input.refs[t]) : input.refs[t][i].to \in Name /\ input.refs[t][i].to \in Named(t)
  BY OfTypes DEF Named
<1> QED BY <1>1, <1>2, <1>3, <1>4, SignatureLines

\* Line l is what a text of this kind writes for reference i of type t, which
\* names x.
UseOf(l, kind, t, i, x, how) ==
    /\ l = <<IF \/ how = "base"
                \/ /\ how = "value" /\ kind \in {"struct", "class"}
                   /\ (x = Unresolved \/ Category(x) = "struct")
             THEN "require" ELSE "use", x, t>>
    /\ x = input.refs[t][i].to /\ how = input.refs[t][i].how
    /\ x \in Named(t)
    /\ x \in Type => Category(x) # "class"
    /\ how = "base" => /\ Category(t) = "interface"
                       /\ x \in Type => Category(x) = "interface"

\* The reference that a line of a signature is about, and what is known of it.
LEMMA References ==
    ASSUME input \in Metadata, Sensible(input), NEW t \in Type, NEW kind,
           NEW i \in 1..Len(input.refs[t])
    PROVE \E x \in Name : \E how \in {"value", "pointer", "base"} :
             UseOf(Signature(kind, t)[i], kind, t, i, x, how)
<1>1. PICK r : r = input.refs[t][i] OBVIOUS
<1>2. r \in Reference
  <2>1. input.refs[t] \in Seq(Reference) BY OfTypes
  <2> QED BY <1>1, <2>1
<1>3. r.to \in Name /\ r.how \in {"value", "pointer", "base"} BY <1>2 DEF Reference, Name
<1>4. Signature(kind, t)[i] = <<Needs(kind, r), r.to, t>> /\ r.to \in Named(t)
  BY <1>1, SignatureUses
<1>5. /\ (r.to = Unresolved \/ input.category[r.to] # "class")
      /\ (r.how = "base" => input.category[t] = "interface")
      /\ (r.how = "base" => r.to = Unresolved \/ input.category[r.to] = "interface")
  BY <1>1 DEF Sensible
<1>6. Unresolved \notin Type BY OfTypes
<1>7. r.to \in Type => Category(r.to) # "class" BY <1>5, <1>6 DEF Category
<1>8. r.how = "base" => Category(t) = "interface" /\ (r.to \in Type => Category(r.to) = "interface")
  BY <1>5, <1>6 DEF Category
<1>9. UseOf(Signature(kind, t)[i], kind, t, i, r.to, r.how) BY <1>1, <1>4, <1>7, <1>8 DEF Needs, UseOf
<1> QED BY <1>3, <1>9

LEMMA NamedTypes ==
    ASSUME input \in Metadata, Sensible(input), NEW t \in Type, NEW x \in Named(t)
    PROVE x \in Name /\ (x \in Type => Category(x) # "class")
<1>1. PICK i \in 1..Len(input.refs[t]) : x = input.refs[t][i].to BY DEF Named
<1>2. PICK y \in Name : \E how \in {"value", "pointer", "base"} :
         UseOf(Signature("abi", t)[i], "abi", t, i, y, how)
  BY References
<1> QED BY <1>1, <1>2 DEF UseOf

-----------------------------------------------------------------------------
(* The order of the jobs *)

LEMMA AllJobs ==
    ASSUME input \in Metadata, NEW h \in Header, NEW j \in Body(h)
    PROVE \E t \in Type :
             \/ /\ h = <<input.namespace[t], "0">>
                /\ \/ j = <<"enum", t>> /\ Category(t) = "enum"
                   \/ j = <<"forward", t>> /\ Category(t) \in {"struct", "interface"}
                   \/ j = <<"delegate", t>> /\ Category(t) = "delegate"
                   \/ j = <<"guid", t>> /\ Category(t) = "interface"
             \/ h = <<input.namespace[t], "2">> /\ j = <<"abi", t>> /\ Category(t) = "class"
             \/ h = <<input.namespace[t], "h">> /\ j = <<"class", t>> /\ Category(t) = "class"
             \/ h = Structs /\ j = <<"struct", t>> /\ Category(t) = "struct"
             \/ h = Interfaces /\ j = <<"interface", t>> /\ Category(t) = "interface"
<1>1. ASSUME NEW n \in Namespace, h = <<n, "0">>
      PROVE \E t \in Type :
             /\ h = <<input.namespace[t], "0">>
             /\ \/ j = <<"enum", t>> /\ Category(t) = "enum"
                \/ j = <<"forward", t>> /\ Category(t) \in {"struct", "interface"}
                \/ j = <<"delegate", t>> /\ Category(t) = "delegate"
                \/ j = <<"guid", t>> /\ Category(t) = "interface"
  <2>1. \/ j \in Job("enum", Of(n, "enum")) \/ j \in Job("forward", Of(n, "struct") \cup Of(n, "interface"))
        \/ j \in Job("delegate", Of(n, "delegate")) \/ j \in Job("guid", Of(n, "interface"))
    BY <1>1, Bodies
  <2> QED BY <1>1, <2>1 DEF Job, Of, All
<1>2. ASSUME NEW n \in Namespace, h = <<n, "1">> PROVE FALSE
  BY <1>2, Bodies
<1>3. ASSUME NEW n \in Namespace, h = <<n, "2">>
      PROVE \E t \in Type : h = <<input.namespace[t], "2">> /\ j = <<"abi", t>> /\ Category(t) = "class"
  <2>1. j \in Job("abi", Of(n, "class")) BY <1>3, Bodies
  <2> QED BY <1>3, <2>1 DEF Job, Of, All
<1>4. ASSUME NEW n \in Namespace, h = <<n, "h">>
      PROVE \E t \in Type : h = <<input.namespace[t], "h">> /\ j = <<"class", t>> /\ Category(t) = "class"
  <2>1. j \in Job("class", Of(n, "class")) BY <1>4, Bodies
  <2> QED BY <1>4, <2>1 DEF Job, Of, All
<1>5. ASSUME h = Structs PROVE \E t \in Type : j = <<"struct", t>> /\ Category(t) = "struct"
  BY <1>5, Bodies DEF Job, All
<1>6. ASSUME h = Interfaces PROVE \E t \in Type : j = <<"interface", t>> /\ Category(t) = "interface"
  BY <1>6, Bodies DEF Job, All
<1>7. CASE h = Structs BY <1>5, <1>7
<1>8. CASE h = Interfaces BY <1>6, <1>8
<1>9. CASE \E n \in Namespace : h = <<n, "0">> BY <1>1, <1>9
<1>10. CASE \E n \in Namespace : h = <<n, "2">> BY <1>3, <1>10
<1>11. CASE \E n \in Namespace : h = <<n, "h">> BY <1>4, <1>11
<1> QED BY <1>2, <1>7, <1>8, <1>9, <1>10, <1>11, HeaderCases

\* The converse, for the jobs that others wait for.
LEMMA JobsThere ==
    ASSUME input \in Metadata, NEW t \in Type
    PROVE /\ Category(t) = "enum" => <<"enum", t>> \in Body(<<input.namespace[t], "0">>)
          /\ Category(t) = "delegate" => <<"delegate", t>> \in Body(<<input.namespace[t], "0">>)
          /\ Category(t) \in {"struct", "interface"} =>
                <<"forward", t>> \in Body(<<input.namespace[t], "0">>)
          /\ Category(t) = "struct" => <<"struct", t>> \in Body(Structs)
          /\ Category(t) = "interface" => <<"interface", t>> \in Body(Interfaces)
<1>1. PICK n : n = input.namespace[t] OBVIOUS
<1>2. n \in Namespace BY <1>1, OfTypes
<1>3. Category(t) = "enum" => <<"enum", t>> \in Job("enum", Of(n, "enum")) BY <1>1 DEF Job, Of, All
<1>4. Category(t) = "delegate" => <<"delegate", t>> \in Job("delegate", Of(n, "delegate"))
  BY <1>1 DEF Job, Of, All
<1>5. Category(t) \in {"struct", "interface"} =>
         <<"forward", t>> \in Job("forward", Of(n, "struct") \cup Of(n, "interface"))
  BY <1>1 DEF Job, Of, All
<1>6. Category(t) = "struct" => <<"struct", t>> \in Job("struct", All("struct")) BY DEF Job, All
<1>7. Category(t) = "interface" => <<"interface", t>> \in Job("interface", All("interface")) BY DEF Job, All
<1> QED BY <1>1, <1>2, <1>3, <1>4, <1>5, <1>6, <1>7, Bodies

\* Which jobs come before which.
LEMMA Order ==
    ASSUME input \in Metadata, NEW x \in Type, NEW t \in Type
    PROVE /\ Before(<<"enum", x>>, <<"delegate", t>>)
          /\ Category(x) \in {"struct", "interface"} =>
                Before(<<"forward", x>>, <<"delegate", t>>) /\ Before(<<"forward", x>>, <<"guid", t>>)
          /\ input.row[x] < input.row[t] => Before(<<"delegate", x>>, <<"delegate", t>>)
          /\ \A i \in 1..Len(input.refs[t]) : input.refs[t][i].to = x =>
                /\ input.refs[t][i].how = "value" => Before(<<"struct", x>>, <<"struct", t>>)
                /\ input.refs[t][i].how = "base" => Before(<<"interface", x>>, <<"interface", t>>)
<1>1. /\ Region(<<"enum", x>>) = 1 /\ Region(<<"delegate", x>>) = 4
      /\ Region(<<"delegate", t>>) = 4 /\ Region(<<"guid", t>>) = 5
      /\ Region(<<"forward", x>>) \in {2, 3}
  BY DEF Region
<1>2. Before(<<"enum", x>>, <<"delegate", t>>) BY <1>1 DEF Before
<1>3. Before(<<"forward", x>>, <<"delegate", t>>) /\ Before(<<"forward", x>>, <<"guid", t>>)
  BY <1>1 DEF Before
<1>4. input.row[x] < input.row[t] => Before(<<"delegate", x>>, <<"delegate", t>>)
  BY <1>1 DEF Before
<1>5. ASSUME NEW i \in 1..Len(input.refs[t]), input.refs[t][i].to = x
      PROVE /\ input.refs[t][i].how = "value" => Before(<<"struct", x>>, <<"struct", t>>)
            /\ input.refs[t][i].how = "base" => Before(<<"interface", x>>, <<"interface", t>>)
  BY <1>5 DEF Before
<1> QED BY <1>2, <1>3, <1>4, <1>5

-----------------------------------------------------------------------------
(* What a job names *)

\* The uses in a text are those of its signature.
LEMMA UsesOfText ==
    ASSUME input \in Metadata, Sensible(input), NEW t \in Type,
           NEW kind \in {"delegate", "struct", "interface", "abi", "class"},
           NEW w, w = Text(kind, t), NEW k \in 1..Len(w), IsUse(w[k])
    PROVE \E x \in Name : \E i \in 1..Len(input.refs[t]) : \E how \in {"value", "pointer", "base"} :
             UseOf(w[k], kind, t, i, x, how)
<1>1. PICK s : s = Signature(kind, t) OBVIOUS
<1>2. s \in Seq(TypeLine) /\ Len(s) = Len(input.refs[t]) BY <1>1, SignatureUses
<1>3. k \in 1..Len(s) /\ w[k] = s[k]
  <2>1. CASE kind \in {"abi", "class"}
    <3>1. w = s BY <1>1, <2>1 DEF Text
    <3> QED BY <3>1
  <2>2. CASE kind \in {"delegate", "struct", "interface"}
    <3>1. w = Append(s, Define(t)) BY <1>1, <2>2 DEF Text, Define
    <3>2. /\ Len(w) = Len(s) + 1 /\ Len(s) \in Nat /\ w[Len(s) + 1] = Define(t)
          /\ \A i \in 1..Len(s) : w[i] = s[i]
      BY <1>2, <3>1
    <3>3. ~IsUse(Define(t)) BY DEF IsUse, Define
    <3>4. k # Len(s) + 1 BY <3>2, <3>3
    <3> QED BY <3>2, <3>4
  <2> QED BY <2>1, <2>2
<1>4. k \in 1..Len(input.refs[t]) /\ w[k] = Signature(kind, t)[k] BY <1>1, <1>2, <1>3
<1> QED BY <1>4, References

\* What a job that is done has left in the text.
LEMMA DoneJobs ==
    ASSUME NEW h, NEW js, NEW s, BodyText(h, js, s), Forwarded(h, js, s),
           NEW kind, NEW x, <<kind, x>> \in Body(h), <<kind, x>> \notin js
    PROVE /\ kind \in Defining => Define(x) \in LinesOf(s)
          /\ kind = "forward" => Declare(x) \in LinesOf(s)
<1>1. PICK j : j = <<kind, x>> OBVIOUS
<1>2. j \in Body(h) \ js /\ j[1] = kind /\ j[2] = x BY <1>1
<1>3. kind \in Defining => Has(s, Define(x)) BY <1>2 DEF BodyText
<1>4. kind = "forward" => Has(s, Declare(x)) BY <1>2 DEF Forwarded
<1> QED BY <1>3, <1>4 DEF Has, LinesOf

\* The jobs of each header, when none is left that comes before them.
LEMMA DelegateUses ==
    ASSUME input \in Metadata, Sensible(input), NEW js, NEW s, NEW t \in Type,
           NEW h \in Header, h = <<input.namespace[t], "0">>, Category(t) = "delegate",
           BodyText(h, js, s), Forwarded(h, js, s),
           \A k \in js : ~Before(k, <<"delegate", t>>), NEW A,
           \A x \in Named(t) : x \in Type /\ input.namespace[x] # h[1] => x \in A
    PROVE Expl(h, Text("delegate", t), LinesOf(s), A)
<1>1. PICK w : w = Text("delegate", t) OBVIOUS
<1> SUFFICES ASSUME NEW k \in 1..Len(w), IsUse(w[k])
             PROVE Explained(h, w[k], LinesOf(s) \cup Sofar(w, k), A)
  BY <1>1 DEF Expl
<1>2. PICK x \in Name : \E i \in 1..Len(input.refs[t]) : \E how \in {"value", "pointer", "base"} :
             UseOf(w[k], "delegate", t, i, x, how)
  BY <1>1, UsesOfText
<1>0. w[k] = <<"use", x, t>> /\ x \in Named(t) /\ (x \in Type => Category(x) # "class")
  BY <1>2 DEF UseOf
<1>3. PICK l : l = w[k] OBVIOUS
<1>4. l[1] = "use" /\ l[2] = x /\ l[3] = t BY <1>0, <1>3
<1>5. h[2] = "0" /\ h[1] = input.namespace[t] OBVIOUS
<1>6. CASE x = Unresolved BY <1>3, <1>4, <1>5, <1>6 DEF Explained, UnresolvedType
<1>7. CASE x \in Type /\ input.namespace[x] # h[1] BY <1>0, <1>3, <1>4, <1>7 DEF Explained
<1>8. ASSUME x \in Type, input.namespace[x] = input.namespace[t]
      PROVE Explained(h, l, LinesOf(s) \cup Sofar(w, k), A)
  <2>1. Category(x) \in {"enum", "struct", "interface", "delegate"} BY <1>0, <1>8, OfTypes
  <2>2. CASE Category(x) = "enum"
    <3>1. <<"enum", x>> \in Body(h) /\ <<"enum", x>> \notin js BY <1>8, <2>2, JobsThere, Order
    <3>2. Define(x) \in LinesOf(s) BY <3>1, DoneJobs DEF Defining
    <3> QED BY <1>4, <3>2 DEF Explained
  <2>3. CASE Category(x) \in {"struct", "interface"}
    <3>1. <<"forward", x>> \in Body(h) /\ <<"forward", x>> \notin js BY <1>8, <2>3, JobsThere, Order
    <3>2. Declare(x) \in LinesOf(s) BY <3>1, DoneJobs
    <3> QED BY <1>4, <3>2 DEF Explained
  <2>4. CASE Category(x) = "delegate" /\ input.row[x] < input.row[t]
    <3>1. <<"delegate", x>> \in Body(h) /\ <<"delegate", x>> \notin js BY <1>8, <2>4, JobsThere, Order
    <3>2. Define(x) \in LinesOf(s) BY <3>1, DoneJobs DEF Defining
    <3> QED BY <1>4, <3>2 DEF Explained
  <2>5. CASE Category(x) = "delegate" /\ ~(input.row[x] < input.row[t])
    <3>1. input.row[x] \in Nat /\ input.row[t] \in Nat BY <1>8 DEF Metadata
    <3>2. input.row[x] >= input.row[t] BY <2>5, <3>1
    <3>3. x # Unresolved BY <1>8, OfTypes
    <3>4. LaterRow(h, l) BY <1>4, <1>5, <2>5, <3>2, <3>3 DEF LaterRow
    <3> QED BY <3>4 DEF Explained
  <2> QED BY <2>1, <2>2, <2>3, <2>4, <2>5
<1> QED BY <1>3, <1>6, <1>7, <1>8 DEF Name

LEMMA GuidUses ==
    ASSUME input \in Metadata, NEW js, NEW s, NEW t \in Type,
           NEW h \in Header, h = <<input.namespace[t], "0">>, Category(t) = "interface",
           BodyText(h, js, s), Forwarded(h, js, s),
           \A k \in js : ~Before(k, <<"guid", t>>), NEW A
    PROVE Expl(h, Text("guid", t), LinesOf(s), A)
<1>1. PICK w : w = Text("guid", t) OBVIOUS
<1>2. w = << <<"use", t, t>> >> BY <1>1 DEF Text
<1>3. <<"forward", t>> \in Body(h) /\ <<"forward", t>> \notin js BY JobsThere, Order
<1>4. Declare(t) \in LinesOf(s) BY <1>3, DoneJobs
<1> SUFFICES ASSUME NEW k \in 1..Len(w) PROVE Explained(h, w[k], LinesOf(s) \cup Sofar(w, k), A)
  BY <1>1 DEF Expl
<1>5. w[k] = <<"use", t, t>> BY <1>2
<1> QED BY <1>4, <1>5 DEF Explained

LEMMA StructUses ==
    ASSUME input \in Metadata, Sensible(input), NEW js, NEW s, NEW t \in Type,
           Category(t) = "struct",
           BodyText(Structs, js, s), Forwarded(Structs, js, s),
           \A k \in js : ~Before(k, <<"struct", t>>), NEW A, Named(t) \cap Type \subseteq A
    PROVE Expl(Structs, Text("struct", t), LinesOf(s), A)
<1>1. PICK w, h : w = Text("struct", t) /\ h = Structs OBVIOUS
<1> SUFFICES ASSUME NEW k \in 1..Len(w), IsUse(w[k])
             PROVE Explained(h, w[k], LinesOf(s) \cup Sofar(w, k), A)
  BY <1>1 DEF Expl
<1>2. PICK x \in Name : \E i \in 1..Len(input.refs[t]) : \E how \in {"value", "pointer", "base"} :
             UseOf(w[k], "struct", t, i, x, how)
  BY <1>1, UsesOfText
<1>3. PICK i \in 1..Len(input.refs[t]) : \E how \in {"value", "pointer", "base"} :
             UseOf(w[k], "struct", t, i, x, how)
  BY <1>2
<1>4. PICK how \in {"value", "pointer", "base"} : UseOf(w[k], "struct", t, i, x, how) BY <1>3
<1>5. PICK l : l = w[k] OBVIOUS
<1>6. how # "base" BY <1>4 DEF UseOf
<1>7. l[2] = x /\ h[2] = "structs" BY <1>1, <1>4, <1>5 DEF UseOf, Structs
<1>8. CASE x = Unresolved BY <1>5, <1>7, <1>8 DEF Explained, UnresolvedType
<1>9. CASE x \in Type /\ Category(x) = "struct" /\ how = "value"
  <2>1. input.refs[t][i].to = x /\ input.refs[t][i].how = "value" BY <1>4, <1>9 DEF UseOf
  <2>2. Before(<<"struct", x>>, <<"struct", t>>) BY <1>9, <2>1, Order
  <2>3. <<"struct", x>> \in Body(h) /\ <<"struct", x>> \notin js BY <1>1, <1>9, <2>2, JobsThere
  <2>4. Define(x) \in LinesOf(s) BY <1>1, <2>3, DoneJobs DEF Defining
  <2> QED BY <1>5, <1>7, <2>4 DEF Explained
<1>10. CASE x \in Type /\ ~(Category(x) = "struct" /\ how = "value")
  <2>1. x # Unresolved BY <1>10, OfTypes
  <2>2. l = <<"use", x, t>> /\ x \in Named(t) BY <1>4, <1>5, <1>6, <1>10, <2>1 DEF UseOf
  <2>3. l[1] = "use" /\ x \in A BY <1>10, <2>2
  <2> QED BY <1>5, <1>7, <2>3 DEF Explained
<1> QED BY <1>8, <1>9, <1>10 DEF Name

LEMMA InterfaceUses ==
    ASSUME input \in Metadata, Sensible(input), NEW js, NEW s, NEW t \in Type,
           Category(t) = "interface",
           BodyText(Interfaces, js, s), Forwarded(Interfaces, js, s),
           \A k \in js : ~Before(k, <<"interface", t>>), NEW A, Named(t) \subseteq A
    PROVE Expl(Interfaces, Text("interface", t), LinesOf(s), A)
<1>1. PICK w, h : w = Text("interface", t) /\ h = Interfaces OBVIOUS
<1> SUFFICES ASSUME NEW k \in 1..Len(w), IsUse(w[k])
             PROVE Explained(h, w[k], LinesOf(s) \cup Sofar(w, k), A)
  BY <1>1 DEF Expl
<1>2. PICK x \in Name : \E i \in 1..Len(input.refs[t]) : \E how \in {"value", "pointer", "base"} :
             UseOf(w[k], "interface", t, i, x, how)
  BY <1>1, UsesOfText
<1>3. PICK i \in 1..Len(input.refs[t]) : \E how \in {"value", "pointer", "base"} :
             UseOf(w[k], "interface", t, i, x, how)
  BY <1>2
<1>4. PICK how \in {"value", "pointer", "base"} : UseOf(w[k], "interface", t, i, x, how) BY <1>3
<1>5. PICK l : l = w[k] OBVIOUS
<1>6. l[2] = x BY <1>4, <1>5 DEF UseOf
<1>7. CASE how # "base"
  <2>1. l[1] = "use" /\ x \in Named(t) BY <1>4, <1>5, <1>7 DEF UseOf
  <2> QED BY <1>5, <1>6, <2>1 DEF Explained
<1>8. CASE how = "base" /\ x = Unresolved
  <2>1. l[1] = "require" BY <1>4, <1>5, <1>8 DEF UseOf
  <2> QED BY <1>5, <1>6, <1>8, <2>1 DEF Explained, UnresolvedType
<1>9. CASE how = "base" /\ x \in Type
  <2>1. /\ input.refs[t][i].to = x /\ input.refs[t][i].how = "base" /\ Category(x) = "interface"
    BY <1>4, <1>9 DEF UseOf
  <2>2. Before(<<"interface", x>>, <<"interface", t>>) BY <1>9, <2>1, Order
  <2>3. <<"interface", x>> \in Body(h) /\ <<"interface", x>> \notin js BY <1>1, <1>9, <2>1, <2>2, JobsThere
  <2>4. Define(x) \in LinesOf(s) BY <1>1, <2>3, DoneJobs DEF Defining
  <2> QED BY <1>5, <1>6, <2>4 DEF Explained
<1> QED BY <1>7, <1>8, <1>9 DEF Name

LEMMA FunctionUses ==
    ASSUME input \in Metadata, Sensible(input), NEW t \in Type, Category(t) = "class",
           NEW kind, NEW h \in Header,
           \/ kind = "abi" /\ h = <<input.namespace[t], "2">>
           \/ kind = "class" /\ h = <<input.namespace[t], "h">>,
           NEW E, NEW A, Named(t) \subseteq A
    PROVE Expl(h, Text(kind, t), E, A)
<1>1. PICK w : w = Text(kind, t) OBVIOUS
<1> SUFFICES ASSUME NEW k \in 1..Len(w), IsUse(w[k])
             PROVE Explained(h, w[k], E \cup Sofar(w, k), A)
  BY <1>1 DEF Expl
<1>2. PICK x \in Name : \E i \in 1..Len(input.refs[t]) : \E how \in {"value", "pointer", "base"} :
             UseOf(w[k], kind, t, i, x, how)
  BY <1>1, UsesOfText
<1>3. PICK i \in 1..Len(input.refs[t]) : \E how \in {"value", "pointer", "base"} :
             UseOf(w[k], kind, t, i, x, how)
  BY <1>2
<1>4. PICK how \in {"value", "pointer", "base"} : UseOf(w[k], kind, t, i, x, how) BY <1>3
<1>5. PICK l : l = w[k] OBVIOUS
<1>6. l[2] = x /\ x \in A BY <1>4, <1>5 DEF UseOf
<1>7. \/ l[1] = "use"
      \/ l[1] = "require" /\ kind = "class" /\ (x = Unresolved \/ Category(x) = "struct")
  BY <1>4, <1>5 DEF UseOf
<1>8. CASE l[1] = "use" BY <1>5, <1>6, <1>8 DEF Explained
<1>9. CASE l[1] = "require" /\ x = Unresolved BY <1>5, <1>6, <1>9 DEF Explained, UnresolvedType
<1>10. CASE l[1] = "require" /\ kind = "class" /\ x \in Type /\ Category(x) = "struct"
  <2>1. h[2] = "h" BY <1>10
  <2> QED BY <1>5, <1>6, <1>10, <2>1 DEF Explained
<1> QED BY <1>7, <1>8, <1>9, <1>10 DEF Name

\* A text without uses.
LEMMA NothingUsed ==
    ASSUME NEW h, NEW w, \A k \in 1..Len(w) : ~IsUse(w[k]), NEW E, NEW A
    PROVE Expl(h, w, E, A)
BY DEF Expl

\* Whatever job comes next, what it names has been declared, or is among A.
LEMMA JobUses ==
    ASSUME input \in Metadata, Sensible(input), NEW h \in Header, NEW js, NEW s,
           BodyText(h, js, s), Forwarded(h, js, s), NEW j \in js,
           \A k \in js : ~Before(k, j), NEW A,
           \A x \in Mentioned(j[1], j[2]) :
              (x \in Type => input.namespace[x] # h[1] \/ h[2] \in {"2", "h"}) => x \in A
    PROVE Expl(h, Text(j[1], j[2]), LinesOf(s), A)
<1>1. j \in Body(h) BY DEF BodyText
<1>2. PICK t \in Type :
             \/ /\ h = <<input.namespace[t], "0">>
                /\ \/ j = <<"enum", t>> /\ Category(t) = "enum"
                   \/ j = <<"forward", t>> /\ Category(t) \in {"struct", "interface"}
                   \/ j = <<"delegate", t>> /\ Category(t) = "delegate"
                   \/ j = <<"guid", t>> /\ Category(t) = "interface"
             \/ h = <<input.namespace[t], "2">> /\ j = <<"abi", t>> /\ Category(t) = "class"
             \/ h = <<input.namespace[t], "h">> /\ j = <<"class", t>> /\ Category(t) = "class"
             \/ h = Structs /\ j = <<"struct", t>> /\ Category(t) = "struct"
             \/ h = Interfaces /\ j = <<"interface", t>> /\ Category(t) = "interface"
  BY <1>1, AllJobs
<1>3. Unresolved \notin Type /\ Named(t) \subseteq Name BY OfTypes
<1>4. \A kind \in {"delegate", "struct", "interface", "abi", "class"} : Mentioned(kind, t) = Named(t)
  BY DEF Mentioned
<1>5. CASE j = <<"enum", t>>
  <2>1. Text(j[1], j[2]) = << <<"define", t, None>> >> BY <1>5 DEF Text
  <2>2. \A k \in 1..Len(Text(j[1], j[2])) : ~IsUse(Text(j[1], j[2])[k]) BY <2>1 DEF IsUse
  <2> QED BY <2>2, NothingUsed
<1>6. CASE j = <<"forward", t>> /\ Category(t) \in {"struct", "interface"}
  <2>1. Category(t) # "delegate" BY <1>6
  <2>2. Text(j[1], j[2]) = << <<"declare", t, None>> >> BY <1>6, <2>1 DEF Text, Forward
  <2>3. \A k \in 1..Len(Text(j[1], j[2])) : ~IsUse(Text(j[1], j[2])[k]) BY <2>2 DEF IsUse
  <2> QED BY <2>3, NothingUsed
<1>7. CASE j = <<"guid", t>> /\ h = <<input.namespace[t], "0">> /\ Category(t) = "interface"
  <2>1. j[1] = "guid" /\ j[2] = t BY <1>7
  <2> QED BY <1>7, <2>1, GuidUses
<1>8. CASE j = <<"delegate", t>> /\ h = <<input.namespace[t], "0">> /\ Category(t) = "delegate"
  <2>1. j[1] = "delegate" /\ j[2] = t BY <1>8
  <2>2. \A x \in Named(t) : x \in Type /\ input.namespace[x] # h[1] => x \in A
    BY <1>4, <2>1
  <2> QED BY <1>8, <2>1, <2>2, DelegateUses
<1>9. CASE h = Structs /\ j = <<"struct", t>> /\ Category(t) = "struct"
  <2>1. j[1] = "struct" /\ j[2] = t /\ h[1] = 0 BY <1>9 DEF Structs
  <2>2. \A x \in Type : input.namespace[x] # h[1] BY <2>1, OfTypes DEF Namespace
  <2>3. Named(t) \cap Type \subseteq A BY <1>4, <2>1, <2>2
  <2> QED BY <1>9, <2>1, <2>3, StructUses
<1>10. CASE h = Interfaces /\ j = <<"interface", t>> /\ Category(t) = "interface"
  <2>1. j[1] = "interface" /\ j[2] = t /\ h[1] = 0 BY <1>10 DEF Interfaces
  <2>2. \A x \in Type : input.namespace[x] # h[1] BY <2>1, OfTypes DEF Namespace
  <2>3. Named(t) \subseteq A BY <1>4, <2>1, <2>2
  <2> QED BY <1>10, <2>1, <2>3, InterfaceUses
<1>11. CASE \/ h = <<input.namespace[t], "2">> /\ j = <<"abi", t>> /\ Category(t) = "class"
            \/ h = <<input.namespace[t], "h">> /\ j = <<"class", t>> /\ Category(t) = "class"
  <2>1. PICK kind : kind = j[1] OBVIOUS
  <2>2. /\ kind \in {"abi", "class"} /\ j[2] = t /\ h[2] \in {"2", "h"} /\ Category(t) = "class"
        /\ \/ kind = "abi" /\ h = <<input.namespace[t], "2">>
           \/ kind = "class" /\ h = <<input.namespace[t], "h">>
    BY <1>11, <2>1
  <2>3. Named(t) \subseteq A BY <1>4, <2>1, <2>2
  <2>4. Expl(h, Text(kind, t), LinesOf(s), A) BY <2>2, <2>3, FunctionUses
  <2> QED BY <2>1, <2>2, <2>4
<1> QED BY <1>2, <1>5, <1>6, <1>7, <1>8, <1>9, <1>10, <1>11

\* What a job mentions is a type other than a class, or unresolved.
LEMMA MentionedTypes ==
    ASSUME input \in Metadata, Sensible(input), NEW h \in Header, NEW j \in Body(h)
    PROVE /\ Mentioned(j[1], j[2]) \subseteq Name
          /\ \A x \in Mentioned(j[1], j[2]) : x \in Type => Category(x) # "class"
<1>1. PICK t \in Type :
             \/ /\ h = <<input.namespace[t], "0">>
                /\ \/ j = <<"enum", t>> /\ Category(t) = "enum"
                   \/ j = <<"forward", t>> /\ Category(t) \in {"struct", "interface"}
                   \/ j = <<"delegate", t>> /\ Category(t) = "delegate"
                   \/ j = <<"guid", t>> /\ Category(t) = "interface"
             \/ h = <<input.namespace[t], "2">> /\ j = <<"abi", t>> /\ Category(t) = "class"
             \/ h = <<input.namespace[t], "h">> /\ j = <<"class", t>> /\ Category(t) = "class"
             \/ h = Structs /\ j = <<"struct", t>> /\ Category(t) = "struct"
             \/ h = Interfaces /\ j = <<"interface", t>> /\ Category(t) = "interface"
  BY AllJobs
<1>2. j[2] = t BY <1>1
<1>3. \A x \in Named(t) : x \in Name /\ (x \in Type => Category(x) # "class")
  BY NamedTypes
<1>4. CASE j[1] \in {"delegate", "struct", "interface", "abi", "class"}
  <2>1. Mentioned(j[1], t) = Named(t) BY <1>4 DEF Mentioned
  <2> QED BY <1>2, <1>3, <2>1
<1>5. CASE j[1] = "guid"
  <2>1. Mentioned(j[1], t) = {t} /\ Category(t) = "interface" BY <1>1, <1>5 DEF Mentioned
  <2> QED BY <1>2, <2>1 DEF Name
<1>6. CASE j[1] \in {"enum", "forward"}
  <2>1. j[1] = "forward" => Category(t) # "delegate" BY <1>1
  <2>2. Mentioned(j[1], t) = {} BY <1>6, <2>1 DEF Mentioned
  <2> QED BY <1>2, <2>2
<1> QED BY <1>1, <1>4, <1>5, <1>6

\* A job that declares a type has done so when it is done.
LEMMA AddForwarded ==
    ASSUME input \in Metadata, NEW h \in Header, NEW js, NEW s, BodyText(h, js, s),
           Forwarded(h, js, s), NEW j \in js
    PROVE Forwarded(h, js \ {j}, s \o Text(j[1], j[2]))
<1>1. j \in Body(h) /\ s \in Seq(TypeLine) BY DEF BodyText
<1>2. PICK w : w = Text(j[1], j[2]) OBVIOUS
<1>3. w \in Seq(TypeLine) BY <1>1, <1>2, TextLines
<1>4. \A l : Has(s \o w, l) <=> (Has(s, l) \/ Has(w, l)) BY <1>1, <1>3, Concatenated
<1>5. j[1] = "forward" => Has(w, Declare(j[2]))
  <2> SUFFICES ASSUME j[1] = "forward" PROVE Has(w, Declare(j[2])) OBVIOUS
  <2>1. PICK t \in Type : \/ j = <<"forward", t>> /\ Category(t) \in {"struct", "interface"}
                          \/ j[1] # "forward"
    BY <1>1, AllJobs
  <2>2. w = << <<"declare", t, None>> >> /\ j[2] = t BY <1>2, <2>1 DEF Text, Forward
  <2> QED BY <2>2 DEF Has, Declare
<1>6. \A i \in Body(h) \ (js \ {j}) : i = j \/ i \in Body(h) \ js OBVIOUS
<1> QED BY <1>2, <1>4, <1>5, <1>6 DEF Forwarded

-----------------------------------------------------------------------------
(* The texts as they grow, once more *)

\* What the body of a header names before the front has made it known: what has
\* been collected, D and E, and in the headers of a namespace what their fixed
\* includes make known.
Waiting(h, D, E) ==
    D \cup E \cup (IF h[2] \in {"2", "h"} THEN {t \in Type : Category(t) # "class"} ELSE {})

BodyExplained(h, js, s, D, E) ==
    /\ Expl(h, s, {}, Waiting(h, D, E)) /\ Forwarded(h, js, s)
    /\ D \subseteq {t \in Type : Category(t) # "class" /\ input.namespace[t] # h[1]}
    /\ E \subseteq {Unresolved}

\* The front s needs nothing, and the body t no more than s and A.
FrontExplained(h, s, t, A) ==
    Expl(h, s, {}, {}) /\ Expl(h, t, LinesOf(s), A) /\ Forwarded(h, {}, t)

LEMMA BeginExplained == ASSUME NEW h PROVE BodyExplained(h, Body(h), << >>, {}, {})
<1>1. \A E, A : Expl(h, << >>, E, A) BY DEF Expl
<1> QED BY <1>1 DEF BodyExplained, Forwarded

LEMMA AddJobExplained ==
    ASSUME input \in Metadata, Sensible(input), NEW h \in Header, NEW js, NEW s, NEW D, NEW E,
           BodyText(h, js, s), BodyExplained(h, js, s, D, E), NEW j \in js,
           \A k \in js : ~Before(k, j), NEW M, M = Mentioned(j[1], j[2]),
           NEW D2, D2 = D \cup {t \in M \ {Unresolved} : input.namespace[t] # h[1]},
           NEW E2, E2 = E \cup (M \cap {Unresolved})
    PROVE BodyExplained(h, js \ {j}, s \o Text(j[1], j[2]), D2, E2)
<1>1. j \in Body(h) /\ s \in Seq(TypeLine) BY DEF BodyText
<1>2. M \subseteq Name /\ \A x \in M : x \in Type => Category(x) # "class" BY <1>1, MentionedTypes
<1>3. PICK w, A : w = Text(j[1], j[2]) /\ A = Waiting(h, D2, E2) OBVIOUS
<1>4. w \in Seq(TypeLine) BY <1>1, <1>3, TextLines
<1>5. Waiting(h, D, E) \subseteq A BY <1>3 DEF Waiting
<1>6. Expl(h, s, {}, A)
  <2>1. Expl(h, s, {}, Waiting(h, D, E)) BY DEF BodyExplained
  <2> QED BY <1>5, <2>1, Weaken
<1>7. ASSUME NEW x \in M, x \in Type => input.namespace[x] # h[1] \/ h[2] \in {"2", "h"}
      PROVE x \in A
  <2>1. CASE x = Unresolved BY <1>3, <2>1 DEF Waiting
  <2>2. CASE x # Unresolved
    <3>1. x \in Type /\ Category(x) # "class" BY <1>2, <2>2 DEF Name
    <3> QED BY <1>3, <1>7, <2>2, <3>1 DEF Waiting
  <2> QED BY <2>1, <2>2
<1>8. Forwarded(h, js, s) BY DEF BodyExplained
<1>9. Expl(h, w, LinesOf(s), A) BY <1>3, <1>7, <1>8, JobUses
<1>10. {} \cup LinesOf(s) = LinesOf(s) OBVIOUS
<1>11. Expl(h, w, {} \cup LinesOf(s), A) BY <1>9, <1>10
<1>12. Expl(h, s \o w, {}, A) BY <1>1, <1>4, <1>6, <1>11, Concat
<1>13. Forwarded(h, js \ {j}, s \o w) BY <1>3, <1>8, AddForwarded
<1>14. D2 \subseteq {t \in Type : Category(t) # "class" /\ input.namespace[t] # h[1]}
  <2>1. D \subseteq {t \in Type : Category(t) # "class" /\ input.namespace[t] # h[1]} BY DEF BodyExplained
  <2> QED BY <1>2, <2>1 DEF Name
<1>15. E2 \subseteq {Unresolved} BY DEF BodyExplained
<1> QED BY <1>3, <1>12, <1>13, <1>14, <1>15 DEF BodyExplained

\* A sorted sequence of a set has all of it.
LEMMA SortedCovers ==
    ASSUME NEW S, S \subseteq Namespace, NEW order \in Sorted(S), NEW n \in S
    PROVE \E i \in 1..Len(order) : order[i] = n
<1>1. K \in Nat BY SizesAssumption
<1>2. IsFiniteSet(Namespace) BY <1>1, FS_Interval DEF Namespace
<1>3. IsFiniteSet(S) BY <1>2, FS_Subset
<1>4. PICK c : c = Cardinality(S) OBVIOUS
<1>5. c \in Nat BY <1>3, <1>4, FS_CardinalityType
<1>6. order \in [1..c -> S] /\ \A i, j \in 1..c : i < j => order[i] < order[j]
  BY <1>4 DEF Sorted
<1>7. \A i, j \in 1..c : order[i] = order[j] => i = j
  <2> SUFFICES ASSUME NEW i \in 1..c, NEW j \in 1..c, order[i] = order[j], i # j PROVE FALSE OBVIOUS
  <2>1. i < j \/ j < i BY <1>5
  <2>2. order[i] \in S BY <1>6
  <2>3. order[i] \in Namespace BY <2>2
  <2>4. order[i] \in Nat BY <1>1, <2>3 DEF Namespace
  <2> QED BY <1>6, <2>1, <2>4
<1>8. order \in Injection(1..c, S) BY <1>6, <1>7 DEF Injection, IsInjective
<1>9. IsFiniteSet(1..c) /\ Cardinality(1..c) = c
  <2>1. 1 \in Int /\ c \in Int /\ (IF 1 > c THEN 0 ELSE c - 1 + 1) = c BY <1>5
  <2> QED BY <2>1, FS_Interval
<1>10. order \in Surjection(1..c, S) BY <1>3, <1>4, <1>8, <1>9, FS_Injection
<1>11. Len(order) = c BY <1>5, <1>6
<1> QED BY <1>10, <1>11 DEF Surjection

LEMMA DependsOnHas ==
    ASSUME NEW order, Len(order) \in Nat, NEW l, NEW i \in 1..Len(order), NEW n, n = order[i]
    PROVE IncludeOf(<<n, l>>) \in LinesOf(DependsOn(order, l))
<1>1. PICK d : d = DependsOn(order, l) OBVIOUS
<1>2. d = [k \in 1..Len(order) |-> <<"include", <<order[k], l>>, None>>] BY <1>1 DEF DependsOn
<1>3. Len(d) = Len(order) /\ d[i] = IncludeOf(<<n, l>>) BY <1>2 DEF IncludeOf
<1> QED BY <1>1, <1>3 DEF LinesOf

LEMMA Openings ==
    ASSUME NEW order
    PROVE /\ Opening(Structs, order) = DependsOn(order, "0")
          /\ Opening(Interfaces, order) = DependsOn(order, "1") \o Externs
          /\ \A n \in Namespace :
                /\ Opening(<<n, "0">>, order) = << >>
                /\ Opening(<<n, "1">>, order) = DependsOn(order, "0") \o Inclusion(<<n, "0">>)
                /\ Opening(<<n, "2">>, order) = Inclusion(<<n, "1">>) \o Externs
                /\ Opening(<<n, "h">>, order) = Inclusion(<<n, "2">>) \o Externs
<1>1. ASSUME NEW h, h = Structs PROVE Opening(h, order) = DependsOn(order, "0")
  <2>1. h[2] = "structs" /\ h # Interfaces BY <1>1 DEF Structs, Interfaces
  <2> QED BY <1>1, <2>1 DEF Opening
<1>2. ASSUME NEW h, h = Interfaces PROVE Opening(h, order) = DependsOn(order, "1") \o Externs
  <2>1. h[2] = "interfaces" /\ h # Structs BY <1>2 DEF Structs, Interfaces
  <2> QED BY <1>2, <2>1 DEF Opening
<1>3. ASSUME NEW n \in Namespace, NEW h, h = <<n, "2">>
      PROVE Opening(h, order) = Inclusion(<<n, "1">>) \o Externs
  <2>1. h[1] = n /\ h[2] = "2" /\ h # Structs /\ h # Interfaces BY <1>3 DEF Structs, Interfaces
  <2> QED BY <2>1 DEF Opening
<1>4. ASSUME NEW n \in Namespace, NEW h, h = <<n, "h">>
      PROVE Opening(h, order) = Inclusion(<<n, "2">>) \o Externs
  <2>1. h[1] = n /\ h[2] = "h" /\ h # Structs /\ h # Interfaces BY <1>4 DEF Structs, Interfaces
  <2> QED BY <2>1 DEF Opening
<1>5. ASSUME NEW n \in Namespace, NEW h, h = <<n, "0">> PROVE Opening(h, order) = << >>
  <2>1. h[1] = n /\ h[2] = "0" /\ h # Structs /\ h # Interfaces BY <1>5 DEF Structs, Interfaces
  <2> QED BY <2>1 DEF Opening
<1>6. ASSUME NEW n \in Namespace, NEW h, h = <<n, "1">>
      PROVE Opening(h, order) = DependsOn(order, "0") \o Inclusion(<<n, "0">>)
  <2>1. h[1] = n /\ h[2] = "1" /\ h # Structs /\ h # Interfaces BY <1>6 DEF Structs, Interfaces
  <2> QED BY <2>1 DEF Opening
<1> QED BY <1>1, <1>2, <1>3, <1>4, <1>5, <1>6

\* A front and a prologue use nothing.
LEMMA FrontUsesNothing ==
    ASSUME NEW h \in Header, NEW order \in Seq(Namespace)
    PROVE /\ \A k \in 1..Len(Opening(h, order)) : ~IsUse(Opening(h, order)[k])
          /\ \A k \in 1..Len(Prologue(h)) : ~IsUse(Prologue(h)[k])
<1> DEFINE Useless(w) == w \in Seq(Line(h)) /\ \A k \in 1..Len(w) : ~IsUse(w[k])
<1>1. ASSUME NEW g \in Lower(h) PROVE Useless(Inclusion(g))
  <2>1. Inclusion(g) \in Seq(Line(h)) BY InclusionLine DEF Preamble
  <2> QED BY <2>1 DEF Inclusion, IsUse
<1>2. Useless(Externs)
  <2>1. Externs \in Seq(Line(h)) BY ExternsLines DEF Preamble
  <2> QED BY <2>1 DEF Externs, IsUse
<1>3. ASSUME NEW l \in {"0", "1"}, \A n \in Namespace : <<n, l>> \in Lower(h)
      PROVE Useless(DependsOn(order, l))
  <2>1. DependsOn(order, l) \in Seq(Line(h)) BY <1>3, DependsOnLines DEF Preamble
  <2>2. Len(order) \in Nat OBVIOUS
  <2> QED BY <2>1, <2>2 DEF DependsOn, IsUse
<1>4. ASSUME NEW v, NEW w, Useless(v), Useless(w) PROVE Useless(v \o w)
  <2>1. /\ Len(v \o w) = Len(v) + Len(w) /\ Len(v) \in Nat /\ Len(w) \in Nat
        /\ \A k \in 1..Len(v) : (v \o w)[k] = v[k]
        /\ \A k \in 1..Len(w) : (v \o w)[Len(v) + k] = w[k]
        /\ v \o w \in Seq(Line(h))
    BY <1>4
  <2>2. ASSUME NEW k \in 1..Len(v \o w) PROVE ~IsUse((v \o w)[k])
    <3>1. CASE k <= Len(v) BY <1>4, <2>1, <3>1
    <3>2. CASE ~(k <= Len(v))
      <4>1. k - Len(v) \in 1..Len(w) /\ k = Len(v) + (k - Len(v)) BY <2>1, <3>2
      <4>2. (v \o w)[k] = w[k - Len(v)] BY <2>1, <4>1
      <4> QED BY <1>4, <4>1, <4>2
    <3> QED BY <3>1, <3>2
  <2> QED BY <2>1, <2>2
<1>5. Useless(<< >>) OBVIOUS
<1> HIDE DEF Useless
<1>6. CASE h = Structs
  <2>1. Opening(h, order) = DependsOn(order, "0") BY <1>6, Openings
  <2>2. Prologue(h) = << >> BY <1>6 DEF Prologue, Structs
  <2>3. \A n \in Namespace : <<n, "0">> \in Lower(h) BY <1>6, LowerHeaders
  <2> QED BY <1>3, <1>5, <2>1, <2>2, <2>3 DEF Useless
<1>7. CASE h = Interfaces
  <2>1. Opening(h, order) = DependsOn(order, "1") \o Externs BY <1>7, Openings
  <2>2. Prologue(h) = << >> BY <1>7 DEF Prologue, Interfaces
  <2>3. \A n \in Namespace : <<n, "1">> \in Lower(h) BY <1>7, LowerHeaders
  <2>4. Useless(Opening(h, order)) BY <1>2, <1>3, <1>4, <2>1, <2>3
  <2> QED BY <1>5, <2>2, <2>4 DEF Useless
<1>8. ASSUME NEW n \in Namespace, h = <<n, "0">>
      PROVE Useless(Opening(h, order)) /\ Useless(Prologue(h))
  <2>1. h[2] = "0" BY <1>8
  <2>2. Prologue(h) = << >> BY <2>1 DEF Prologue
  <2>3. Opening(h, order) = << >> BY <1>8, Openings
  <2> QED BY <1>5, <2>2, <2>3
<1>9. ASSUME NEW n \in Namespace, h = <<n, "1">>
      PROVE Useless(Opening(h, order)) /\ Useless(Prologue(h))
  <2>1. h[2] = "1" /\ h[1] = n BY <1>9
  <2>2. Prologue(h) = Inclusion(Structs) BY <2>1 DEF Prologue
  <2>4. Opening(h, order) = DependsOn(order, "0") \o Inclusion(<<n, "0">>) BY <1>9, Openings
  <2>3. Structs \in Lower(h) /\ \A m \in Namespace : <<m, "0">> \in Lower(h) BY <1>9, LowerHeaders
  <2> QED BY <1>1, <1>3, <1>4, <2>2, <2>3, <2>4
<1>10. ASSUME NEW n \in Namespace, h = <<n, "2">>
       PROVE Useless(Opening(h, order)) /\ Useless(Prologue(h))
  <2>1. h[2] = "2" BY <1>10
  <2>2. Prologue(h) = Inclusion(Interfaces) BY <2>1 DEF Prologue
  <2>3. Opening(h, order) = Inclusion(<<n, "1">>) \o Externs BY <1>10, Openings
  <2>4. Interfaces \in Lower(h) /\ <<n, "1">> \in Lower(h) BY <1>10, LowerHeaders
  <2> QED BY <1>1, <1>2, <1>4, <2>2, <2>3, <2>4
<1>11. ASSUME NEW n \in Namespace, h = <<n, "h">>
       PROVE Useless(Opening(h, order)) /\ Useless(Prologue(h))
  <2>1. h[2] = "h" BY <1>11
  <2>2. Prologue(h) = << >> BY <2>1 DEF Prologue
  <2>3. Opening(h, order) = Inclusion(<<n, "2">>) \o Externs BY <1>11, Openings
  <2>4. <<n, "2">> \in Lower(h) BY <1>11, LowerHeaders
  <2> QED BY <1>1, <1>2, <1>4, <1>5, <2>2, <2>3, <2>4
<1> QED BY <1>6, <1>7, <1>8, <1>9, <1>10, <1>11, HeaderCases DEF Useless

\* What the front and the prologue make known of what the body names.
LEMMA FrontSettles ==
    ASSUME input \in Metadata, NEW h \in Header, h[2] # "0", h[2] # "1", NEW D, NEW E,
           D \subseteq {t \in Type : Category(t) # "class" /\ input.namespace[t] # h[1]},
           E \subseteq {Unresolved}, E = extern,
           NEW order \in Sorted({input.namespace[t] : t \in D}), NEW x \in Waiting(h, D, E)
    PROVE Settled(h, x, LinesOf(Opening(h, order)) \cup LinesOf(Prologue(h)))
<1>1. PICK o, F : o = Opening(h, order) /\ F = LinesOf(o) \cup LinesOf(Prologue(h)) OBVIOUS
<1>2. PICK S : S = {input.namespace[t] : t \in D} OBVIOUS
<1>3. S \subseteq Namespace /\ order \in Sorted(S) BY <1>2, OfTypes
<1>4. Len(order) \in Nat /\ order \in Seq(Namespace)
  <2>1. IsFiniteSet(S)
    <3>1. K \in Nat BY SizesAssumption
    <3>2. IsFiniteSet(Namespace) BY <3>1, FS_Interval DEF Namespace
    <3> QED BY <1>3, <3>2, FS_Subset
  <2>2. PICK c : c = Cardinality(S) OBVIOUS
  <2>3. c \in Nat BY <2>1, <2>2, FS_CardinalityType
  <2>4. order \in [1..c -> S] BY <1>3, <2>2 DEF Sorted
  <2> QED BY <1>3, <2>3, <2>4
<1>5. ASSUME NEW l, LinesOf(DependsOn(order, l)) \subseteq F, x \in D
      PROVE IncludeOf(<<input.namespace[x], l>>) \in F
  <2>1. input.namespace[x] \in S BY <1>2, <1>5
  <2>2. PICK i \in 1..Len(order) : order[i] = input.namespace[x] BY <1>3, <2>1, SortedCovers
  <2> QED BY <1>4, <1>5, <2>2, DependsOnHas
<1>6. x \in D => x \in Type /\ Category(x) # "class" OBVIOUS
<1>7. x \in E => x = Unresolved /\ Externs = << Declare(x) >> BY DEF Externs, Declare
<1>8. CASE h = Structs
  <2>1. o = DependsOn(order, "0") /\ h[2] = "structs" BY <1>1, <1>8, Openings DEF Structs
  <2>2. x \in D \/ x = Unresolved BY <2>1 DEF Waiting
  <2>3. CASE x = Unresolved BY <1>1, <2>1, <2>3 DEF Settled
  <2>4. CASE x \in D
    <3>1. IncludeOf(<<input.namespace[x], "0">>) \in F BY <1>1, <1>5, <2>1, <2>4
    <3>2. Included(h, F, x, "use") BY <1>6, <1>8, <2>4, <3>1 DEF Included
    <3> QED BY <1>1, <3>2 DEF Settled
  <2> QED BY <2>2, <2>3, <2>4
<1>9. CASE h = Interfaces
  <2>1. o = DependsOn(order, "1") \o Externs /\ h[2] = "interfaces"
    BY <1>1, <1>9, Openings DEF Interfaces
  <2>2. x \in D \/ x \in E BY <2>1 DEF Waiting
  <2>3. DependsOn(order, "1") \in Seq(Line(h)) /\ Externs \in Seq(Line(h))
    <3>1. \A n \in Namespace : <<n, "1">> \in Lower(h) BY <1>9, LowerHeaders
    <3>2. Preamble(DependsOn(order, "1"), h) BY <1>4, <3>1, DependsOnLines
    <3> QED BY <3>2, ExternsLines DEF Preamble
  <2>4. LinesOf(DependsOn(order, "1")) \subseteq F /\ LinesOf(Externs) \subseteq F
    BY <1>1, <2>1, <2>3, LinesOfConcat
  <2>5. CASE x \in E
    <3>1. x = Unresolved /\ Declare(x) \in LinesOf(Externs) BY <1>7, <2>5 DEF LinesOf
    <3> QED BY <1>1, <2>4, <3>1 DEF Settled
  <2>6. CASE x \in D
    <3>1. IncludeOf(<<input.namespace[x], "1">>) \in F BY <1>5, <2>4, <2>6
    <3>2. Included(h, F, x, "use") BY <1>6, <1>9, <2>6, <3>1 DEF Included
    <3> QED BY <1>1, <3>2 DEF Settled
  <2> QED BY <2>2, <2>5, <2>6
<1>10. CASE \E n \in Namespace : h = <<n, "2">> \/ h = <<n, "h">>
  <2>1. PICK n \in Namespace, l \in {"2", "h"} : h = <<n, l>> BY <1>10
  <2>2. PICK m \in {"1", "2"} : o = Inclusion(<<n, m>>) \o Externs /\ <<n, m>> \in Lower(h)
    <3>1. CASE l = "2"
      <4>1. o = Inclusion(<<n, "1">>) \o Externs BY <1>1, <2>1, <3>1, Openings
      <4>2. <<n, "1">> \in Lower(h) BY <2>1, <3>1, LowerHeaders
      <4> QED BY <4>1, <4>2
    <3>2. CASE l = "h"
      <4>1. o = Inclusion(<<n, "2">>) \o Externs BY <1>1, <2>1, <3>2, Openings
      <4>2. <<n, "2">> \in Lower(h) BY <2>1, <3>2, LowerHeaders
      <4> QED BY <4>1, <4>2
    <3> QED BY <3>1, <3>2
  <2>3. LinesOf(Externs) \subseteq F
    <3>1. Inclusion(<<n, m>>) \in Seq(Line(h)) BY <2>2, InclusionLine DEF Preamble
    <3>2. Externs \in Seq(Line(h)) BY ExternsLines DEF Preamble
    <3> QED BY <1>1, <2>2, <3>1, <3>2, LinesOfConcat
  <2>4. CASE x \in E
    <3>1. x = Unresolved /\ Declare(x) \in LinesOf(Externs) BY <1>7, <2>4 DEF LinesOf
    <3> QED BY <1>1, <2>3, <3>1 DEF Settled
  <2>5. CASE x \notin E
    <3>1. x \in Type /\ Category(x) # "class" BY <1>6, <2>5 DEF Waiting
    <3>2. \A g \in Header : Fixed(h, g) => IncludeOf(g) \in F
      <4>1. \A g \in Header : Fixed(h, g) => Has(Prologue(h), IncludeOf(g)) \/ Has(o, IncludeOf(g))
        BY <1>1, <1>4, FrontLines
      <4> QED BY <1>1, <4>1 DEF Has, LinesOf
    <3>3. h[2] \in {"2", "h"} BY <2>1
    <3>4. Included(h, F, x, "use") BY <3>1, <3>2, <3>3 DEF Included
    <3> QED BY <1>1, <3>4 DEF Settled
  <2> QED BY <2>4, <2>5
<1>11. ~(\E n \in Namespace : h = <<n, "0">> \/ h = <<n, "1">>) OBVIOUS
<1> QED BY <1>1, <1>8, <1>9, <1>10, <1>11, HeaderCases

LEMMA SwapExplained ==
    ASSUME input \in Metadata, NEW h \in Header, NEW s, NEW D, NEW E,
           BodyText(h, {}, s), BodyExplained(h, {}, s, D, E), E = extern,
           h[2] = "1" => s = << >>,
           NEW order \in Sorted({input.namespace[t] : t \in D}), order \in Seq(Namespace),
           NEW A, h[2] = "0" => D \subseteq A
    PROVE FrontExplained(h, Opening(h, order), Prologue(h) \o s, A)
<1>1. PICK o, p : o = Opening(h, order) /\ p = Prologue(h) OBVIOUS
<1>2. Preamble(o, h) /\ Preamble(p, h) BY <1>1, FrontLines
<1>3. (\A k \in 1..Len(o) : ~IsUse(o[k])) /\ (\A k \in 1..Len(p) : ~IsUse(p[k]))
  BY <1>1, FrontUsesNothing
<1>4. Expl(h, o, {}, {}) /\ Expl(h, p, LinesOf(o), A) BY <1>3, NothingUsed
<1>5. s \in Seq(TypeLine) BY DEF BodyText
<1>6. p \in Seq(Line(h)) /\ s \in Seq(Line(h)) BY <1>2, <1>5, LinesOfTypes DEF Preamble
<1>7. PICK F : F = LinesOf(o) \cup LinesOf(p) OBVIOUS
<1>8. Expl(h, s, {}, Waiting(h, D, E)) BY DEF BodyExplained
<1>9. D \subseteq {t \in Type : Category(t) # "class" /\ input.namespace[t] # h[1]} /\ E \subseteq {Unresolved}
  BY DEF BodyExplained
<1>10. Expl(h, s, F, A)
  <2>1. CASE h[2] = "1"
    <3>1. s = << >> BY <2>1
    <3> QED BY <3>1 DEF Expl
  <2>2. CASE h[2] = "0"
    <3>1. ASSUME NEW x \in Waiting(h, D, E) PROVE x \in A \/ Settled(h, x, F)
      <4>1. x \in D \/ x \in E BY <2>2 DEF Waiting
      <4>2. x \in E => Settled(h, x, F) BY <1>9, <2>2 DEF Settled
      <4> QED BY <2>2, <4>1, <4>2
    <3>2. {} \subseteq F OBVIOUS
    <3> QED BY <1>8, <3>1, <3>2, Weaken
  <2>3. CASE h[2] # "0" /\ h[2] # "1"
    <3>1. \A x \in Waiting(h, D, E) : Settled(h, x, F) BY <1>1, <1>7, <1>9, <2>3, FrontSettles
    <3>2. {} \subseteq F /\ \A x \in Waiting(h, D, E) : x \in A \/ Settled(h, x, F) BY <3>1
    <3> QED BY <1>8, <3>2, Weaken
  <2> QED BY <2>1, <2>2, <2>3
<1>11. Expl(h, p \o s, LinesOf(o), A) BY <1>4, <1>6, <1>7, <1>10, Concat
<1>12. Forwarded(h, {}, p \o s)
  <2>1. \A l : Has(s, l) => Has(p \o s, l) BY <1>6, Concatenated
  <2> QED BY <2>1 DEF BodyExplained, Forwarded
<1> QED BY <1>1, <1>4, <1>11, <1>12 DEF FrontExplained

LEMMA ForwardExplained ==
    ASSUME input \in Metadata, NEW h \in Header, h[2] = "0", NEW s, NEW t, NEW A,
           FrontText(h, s, t), FrontExplained(h, s, t, A),
           NEW u \in Type, input.namespace[u] # h[1], NEW B, A \subseteq B \cup {u}
    PROVE FrontExplained(h, s \o Forward(u), t, B)
<1>1. PICK w : w = Forward(u) OBVIOUS
<1>2. w \in Seq(TypeLine) /\ s \in Seq(Line(h)) /\ w \in Seq(Line(h))
  BY <1>1, ForwardLines, LinesOfTypes DEF FrontText
<1>3. Expl(h, w, {} \cup LinesOf(s), {})
  <2> SUFFICES ASSUME NEW k \in 1..Len(w), IsUse(w[k]), NEW E PROVE Explained(h, w[k], E, {})
    BY DEF Expl
  <2>1. Category(u) = "delegate" /\ k \in 1..Len(Signature("delegate", u)) /\ w[k] = Signature("delegate", u)[k]
    <3>1. CASE Category(u) # "delegate"
      <4>1. w = << <<"declare", u, None>> >> BY <1>1, <3>1 DEF Forward
      <4> QED BY <4>1 DEF IsUse
    <3>2. CASE Category(u) = "delegate"
      <4>1. PICK q : q = Signature("delegate", u) OBVIOUS
      <4>2. w = Append(q, Define(u)) /\ q \in Seq(TypeLine) BY <1>1, <3>2, <4>1, SignatureUses DEF Forward, Define
      <4>3. /\ Len(w) = Len(q) + 1 /\ Len(q) \in Nat /\ w[Len(q) + 1] = Define(u)
            /\ \A i \in 1..Len(q) : w[i] = q[i]
        BY <4>2
      <4>4. ~IsUse(Define(u)) BY DEF IsUse, Define
      <4>5. k # Len(q) + 1 BY <4>3, <4>4
      <4> QED BY <3>2, <4>1, <4>3, <4>5
    <3> QED BY <3>1, <3>2
  <2>2. k \in 1..Len(input.refs[u]) BY <2>1, SignatureUses
  <2>3. w[k][3] = u BY <2>1, <2>2, SignatureUses
  <2> QED BY <2>3 DEF Explained, RepeatedDelegate
<1>4. Expl(h, s, {}, {}) BY DEF FrontExplained
<1>5. Expl(h, s \o w, {}, {}) BY <1>2, <1>3, <1>4, Concat
<1>6. PICK F : F = LinesOf(s \o w) OBVIOUS
<1>7. F = LinesOf(s) \cup LinesOf(w) BY <1>2, <1>6, LinesOfConcat
<1>8. Settled(h, u, F)
  <2>1. CASE Category(u) = "delegate"
    <3>1. PICK q : q = Signature("delegate", u) OBVIOUS
    <3>2. w = Append(q, Define(u)) /\ q \in Seq(TypeLine) BY <1>1, <2>1, <3>1, SignatureUses DEF Forward, Define
    <3>3. Len(q) + 1 \in 1..Len(w) /\ w[Len(q) + 1] = Define(u) BY <3>2
    <3>4. Define(u) \in LinesOf(w) BY <3>3 DEF LinesOf
    <3> QED BY <1>7, <3>4 DEF Settled
  <2>2. CASE Category(u) # "delegate"
    <3>1. w = << <<"declare", u, None>> >> BY <1>1, <2>2 DEF Forward
    <3>2. Declare(u) \in LinesOf(w) BY <3>1 DEF LinesOf, Declare
    <3> QED BY <1>7, <3>2 DEF Settled
  <2> QED BY <2>1, <2>2
<1>9. \A x \in A : x \in B \/ Settled(h, x, F) BY <1>8
<1>10. Expl(h, t, LinesOf(s), A) /\ LinesOf(s) \subseteq F BY <1>7 DEF FrontExplained
<1>11. Expl(h, t, F, B) BY <1>9, <1>10, Weaken
<1> QED BY <1>1, <1>5, <1>6, <1>11 DEF FrontExplained

\* A file needs nothing but what it includes, declares and defines.
FileExplained(h, w) == Expl(h, w, {}, {})

LEMMA SaveExplained ==
    ASSUME NEW h \in Header, NEW s, NEW t, FrontText(h, s, t), FrontExplained(h, s, t, {})
    PROVE FileExplained(h, s \o t) /\ Forwarded(h, {}, s \o t)
<1>1. s \in Seq(Line(h)) /\ t \in Seq(Line(h)) BY DEF FrontText
<1>2. {} \cup LinesOf(s) = LinesOf(s) OBVIOUS
<1>3. Expl(h, s, {}, {}) /\ Expl(h, t, {} \cup LinesOf(s), {}) BY <1>2 DEF FrontExplained
<1>4. Expl(h, s \o t, {}, {}) BY <1>1, <1>3, Concat
<1>5. \A l : Has(t, l) => Has(s \o t, l) BY <1>1, Concatenated
<1> QED BY <1>4, <1>5 DEF FileExplained, FrontExplained, Forwarded

-----------------------------------------------------------------------------
(* The writer, once more *)

BodyKnown == stage = "body" =>
    /\ forwarded = None
    /\ \E h \in Header : \E js, s, D, E :
          /\ h = Current /\ js = jobs /\ s = first /\ D = depends /\ E = extern
          /\ BodyExplained(h, js, s, D, E) /\ (h[2] = "1" => s = << >>)
FrontKnown == stage = "front" =>
    \E h \in Header : \E s, t, A :
       /\ h = Current /\ s = first /\ t = second /\ FrontExplained(h, s, t, A)
       /\ IF h[2] = "0" THEN A \subseteq Ahead ELSE A = {}
       /\ \A u \in depends : input.namespace[u] # h[1]
FilesKnown == \A h \in Header : \E s : s = files[h] /\ FileExplained(h, s)
FilesForward == \A i \in 1..written : \E h \in Header : \E s :
    h = Headers[i] /\ s = files[h] /\ Forwarded(h, {}, s)

WriterKnows == input \in Inputs /\ BodyKnown /\ FrontKnown /\ FilesKnown /\ FilesForward

LEMMA SameExplained ==
    ASSUME input' = input, NEW h, NEW js, NEW s, NEW t, NEW A, NEW D, NEW E
    PROVE /\ BodyExplained(h, js, s, D, E)' <=> BodyExplained(h, js, s, D, E)
          /\ FrontExplained(h, s, t, A)' <=> FrontExplained(h, s, t, A)
          /\ FileExplained(h, s)' <=> FileExplained(h, s)
          /\ Forwarded(h, {}, s)' <=> Forwarded(h, {}, s)
<1>1. \A x : Category(x)' = Category(x) BY DEF Category
<1>2. \A x, y : (x \in All(y))' <=> x \in All(y) BY <1>1 DEF All
<1>3. \A x, y, n : (x \in Of(n, y))' <=> x \in Of(n, y) BY <1>2 DEF Of
<1>4. \A l, F, B : Explained(h, l, F, B)' <=> Explained(h, l, F, B)
  <2> SUFFICES ASSUME NEW l, NEW F, NEW B PROVE Explained(h, l, F, B)' <=> Explained(h, l, F, B)
    OBVIOUS
  <2>1. RepeatedDelegate(h, l)' <=> RepeatedDelegate(h, l) BY DEF RepeatedDelegate
  <2>2. LaterRow(h, l)' <=> LaterRow(h, l) BY <1>1 DEF LaterRow
  <2>3. UnresolvedType(h, l)' <=> UnresolvedType(h, l) BY DEF UnresolvedType
  <2>4. Included(h, F, l[2], l[1])' <=> Included(h, F, l[2], l[1]) BY <1>1 DEF Included
  <2> QED BY <1>1, <2>1, <2>2, <2>3, <2>4 DEF Explained
<1>5. \A w, F, B : Expl(h, w, F, B)' <=> Expl(h, w, F, B) BY <1>4 DEF Expl
<1>6. Body(h)' = Body(h) BY DEF Body, Job, Of, All, Category
<1>7. Forwarded(h, js, s)' <=> Forwarded(h, js, s) BY <1>6 DEF Forwarded
<1>8. Forwarded(h, {}, s)' <=> Forwarded(h, {}, s) BY <1>6 DEF Forwarded
<1>9. Forwarded(h, {}, t)' <=> Forwarded(h, {}, t) BY <1>6 DEF Forwarded
<1>10. Waiting(h, D, E)' = Waiting(h, D, E) BY <1>1 DEF Waiting
<1>11. BodyExplained(h, js, s, D, E)' <=> BodyExplained(h, js, s, D, E)
  BY <1>1, <1>5, <1>7, <1>10 DEF BodyExplained
<1>12. FrontExplained(h, s, t, A)' <=> FrontExplained(h, s, t, A) BY <1>5, <1>9 DEF FrontExplained
<1>13. FileExplained(h, s)' <=> FileExplained(h, s) BY <1>5 DEF FileExplained
<1> QED BY <1>8, <1>11, <1>12, <1>13

LEMMA KeepsKnown ==
    ASSUME FilesKnown, FilesForward, UNCHANGED <<input, written, files>>
    PROVE FilesKnown' /\ FilesForward'
<1>1. FilesKnown'
  <2> SUFFICES ASSUME NEW h \in Header PROVE \E s : s = files'[h] /\ FileExplained(h, s)'
    BY DEF FilesKnown
  <2>1. PICK s : s = files[h] /\ FileExplained(h, s) BY DEF FilesKnown
  <2>2. FileExplained(h, s)' BY <2>1, SameExplained
  <2> QED BY <2>1, <2>2
<1>2. FilesForward'
  <2> SUFFICES ASSUME NEW i \in 1..written
               PROVE \E h \in Header : \E s : h = Headers[i] /\ s = files'[h] /\ Forwarded(h, {}, s)'
    BY DEF FilesForward
  <2>1. PICK h \in Header : \E s : h = Headers[i] /\ s = files[h] /\ Forwarded(h, {}, s)
    BY DEF FilesForward
  <2>2. PICK s : h = Headers[i] /\ s = files[h] /\ Forwarded(h, {}, s) BY <2>1
  <2>3. Forwarded(h, {}, s)' BY <2>2, SameExplained
  <2> QED BY <2>2, <2>3
<1> QED BY <1>1, <1>2

LEMMA InputKnown == ASSUME WriterKnows PROVE input \in Metadata /\ Sensible(input)
BY InputsAssumption, ReferencesAssumption DEF WriterKnows

LEMMA WriteBodyKnown == ASSUME WriterOK, WriterKnows, WriteBody PROVE WriterKnows'
<1>1. PICK j \in jobs : /\ \A k \in jobs : ~Before(k, j)
                        /\ jobs' = jobs \ {j}
                        /\ first' = first \o Text(j[1], j[2])
                        /\ Collect(j[1], j[2])
  BY DEF WriteBody
<1>2. stage = "body" /\ UNCHANGED <<input, written, stage, second, forwarded, files>>
  BY DEF WriteBody
<1>3. forwarded = None /\ \E h \in Header : \E js, s, D, E :
          /\ h = Current /\ js = jobs /\ s = first /\ D = depends /\ E = extern
          /\ BodyExplained(h, js, s, D, E) /\ (h[2] = "1" => s = << >>)
  BY <1>2 DEF WriterKnows, BodyKnown
<1>4. PICK h \in Header : \E js, s, D, E :
          /\ h = Current /\ js = jobs /\ s = first /\ D = depends /\ E = extern
          /\ BodyExplained(h, js, s, D, E) /\ (h[2] = "1" => s = << >>)
  BY <1>3
<1>5. PICK js, s, D, E :
          /\ h = Current /\ js = jobs /\ s = first /\ D = depends /\ E = extern
          /\ BodyExplained(h, js, s, D, E) /\ (h[2] = "1" => s = << >>)
  BY <1>4
<1>6. BodyText(h, js, s) BY <1>2, <1>5 DEF WriterOK, BodyOK
<1>7. PICK js2, s2, D2, E2, M : /\ js2 = jobs' /\ s2 = first' /\ D2 = depends' /\ E2 = extern'
                                /\ M = Mentioned(j[1], j[2])
  OBVIOUS
<1>8. /\ js2 = js \ {j} /\ s2 = s \o Text(j[1], j[2]) /\ j \in js
      /\ D2 = D \cup {t \in M \ {Unresolved} : input.namespace[t] # h[1]}
      /\ E2 = E \cup (M \cap {Unresolved}) /\ \A k \in js : ~Before(k, j)
  BY <1>1, <1>5, <1>7 DEF Collect, Foreign
<1>9. BodyExplained(h, js2, s2, D2, E2)
  <2>1. input \in Metadata /\ Sensible(input) BY InputKnown
  <2>2. /\ BodyExplained(h, js, s, D, E) /\ BodyText(h, js, s) /\ j \in js
        /\ \A k \in js : ~Before(k, j)
    BY <1>5, <1>6, <1>8
  <2>3. M = Mentioned(j[1], j[2]) BY <1>7
  <2>4. BodyExplained(h, js \ {j}, s \o Text(j[1], j[2]), D2, E2)
    BY <1>8, <2>1, <2>2, <2>3, AddJobExplained
  <2> QED BY <1>8, <2>4
<1>10. BodyExplained(h, js2, s2, D2, E2)' BY <1>2, <1>9, SameExplained
<1>11. h[2] # "1"
  <2> SUFFICES ASSUME h[2] = "1" PROVE FALSE OBVIOUS
  <2>1. h # Structs /\ h # Interfaces BY DEF Structs, Interfaces
  <2>2. PICK n \in Namespace : h = <<n, "1">> BY <2>1, HeaderCases
  <2>3. Body(h) = {} BY <2>2, Bodies
  <2> QED BY <1>6, <1>8, <2>3 DEF BodyText
<1>12. h = Current' BY <1>2, <1>5 DEF Current
<1>13. BodyKnown' BY <1>2, <1>3, <1>7, <1>10, <1>11, <1>12 DEF BodyKnown
<1>14. FrontKnown' BY <1>2 DEF FrontKnown
<1>15. FilesKnown' /\ FilesForward' BY <1>2, KeepsKnown DEF WriterKnows
<1> QED BY <1>2, <1>13, <1>14, <1>15 DEF WriterKnows

LEMMA SwapKnown == ASSUME WriterOK, WriterKnows, Swap PROVE WriterKnows'
<1>1. /\ stage = "body" /\ jobs = {} /\ stage' = "front"
      /\ second' = Prologue(Current) \o first
      /\ UNCHANGED <<input, written, jobs, depends, extern, forwarded, files>>
  BY DEF Swap
<1>2. PICK order \in Sorted(Depended) : first' = Opening(Current, order) BY DEF Swap
<1>3. order \in Seq(Namespace) BY SortedSequences DEF WriterOK
<1>4. forwarded = None /\ \E h \in Header : \E js, s, D, E :
          /\ h = Current /\ js = jobs /\ s = first /\ D = depends /\ E = extern
          /\ BodyExplained(h, js, s, D, E) /\ (h[2] = "1" => s = << >>)
  BY <1>1 DEF WriterKnows, BodyKnown
<1>5. PICK h \in Header : \E js, s, D, E :
          /\ h = Current /\ js = jobs /\ s = first /\ D = depends /\ E = extern
          /\ BodyExplained(h, js, s, D, E) /\ (h[2] = "1" => s = << >>)
  BY <1>4
<1>6. PICK s, D, E :
          /\ h = Current /\ s = first /\ D = depends /\ E = extern
          /\ BodyExplained(h, {}, s, D, E) /\ (h[2] = "1" => s = << >>)
  BY <1>1, <1>5
<1>7. BodyText(h, {}, s) BY <1>1, <1>6 DEF WriterOK, BodyOK
<1>8. PICK s2, t2, A : /\ s2 = first' /\ t2 = second'
                       /\ A = IF h[2] = "0" THEN D ELSE {}
  OBVIOUS
<1>9. s2 = Opening(h, order) /\ t2 = Prologue(h) \o s BY <1>1, <1>2, <1>6, <1>8
<1>10. order \in Sorted({input.namespace[t] : t \in D}) BY <1>2, <1>6 DEF Depended
<1>11. FrontExplained(h, s2, t2, A)
  BY <1>3, <1>6, <1>7, <1>8, <1>9, <1>10, InputKnown, SwapExplained
<1>12. FrontExplained(h, s2, t2, A)' BY <1>1, <1>11, SameExplained
<1>13. Ahead' = D BY <1>1, <1>4, <1>6 DEF Ahead
<1>14. \A u \in depends' : input'.namespace[u] # h[1] BY <1>1, <1>6 DEF BodyExplained
<1>15. h = Current' BY <1>1, <1>6 DEF Current
<1>16. FrontKnown' BY <1>1, <1>8, <1>12, <1>13, <1>14, <1>15 DEF FrontKnown
<1>17. BodyKnown' BY <1>1 DEF BodyKnown
<1>18. FilesKnown' /\ FilesForward' BY <1>1, KeepsKnown DEF WriterKnows
<1> QED BY <1>1, <1>16, <1>17, <1>18 DEF WriterKnows

LEMMA ForwardNextKnown == ASSUME WriterOK, WriterKnows, ForwardNext PROVE WriterKnows'
<1>1. PICK u \in Ahead : /\ \A x \in Ahead : u = x \/ Precedes(u, x)
                         /\ forwarded' = u /\ first' = first \o Forward(u)
                         /\ Collect("forward", u)
  BY DEF ForwardNext
<1>2. /\ stage = "front" /\ UNCHANGED <<input, written, stage, jobs, second, files>>
      /\ Current[2] = "0"
  BY DEF ForwardNext
<1>3. u \in Type /\ u \in depends BY <1>1 DEF Ahead, WriterOK, WriterTypes
<1>4. PICK h \in Header : \E s, t, A :
       /\ h = Current /\ s = first /\ t = second /\ FrontExplained(h, s, t, A)
       /\ IF h[2] = "0" THEN A \subseteq Ahead ELSE A = {}
       /\ \A x \in depends : input.namespace[x] # h[1]
  BY <1>2 DEF WriterKnows, FrontKnown
<1>5. PICK s, t, A :
       /\ h = Current /\ s = first /\ t = second /\ FrontExplained(h, s, t, A)
       /\ IF h[2] = "0" THEN A \subseteq Ahead ELSE A = {}
       /\ \A x \in depends : input.namespace[x] # h[1]
  BY <1>4
<1>6. FrontText(h, s, t) BY <1>2, <1>5 DEF WriterOK, FrontOK
<1>7. h[2] = "0" /\ A \subseteq Ahead BY <1>2, <1>5
<1>8. PICK s2, B : s2 = first' /\ B = A \ {u} OBVIOUS
<1>9. s2 = s \o Forward(u) BY <1>1, <1>5, <1>8
<1>10. input.namespace[u] # h[1] BY <1>3, <1>5
<1>11. A \subseteq B \cup {u} BY <1>8
<1>12. FrontExplained(h, s2, t, B)
  BY <1>3, <1>5, <1>6, <1>7, <1>9, <1>10, <1>11, InputKnown, ForwardExplained
<1>13. FrontExplained(h, s2, t, B)' BY <1>2, <1>12, SameExplained
<1>14. depends' = depends \cup Foreign(Mentioned("forward", u)) BY <1>1 DEF Collect
<1>15. B \subseteq Ahead'
  <2> SUFFICES ASSUME NEW x \in B PROVE x \in Ahead' OBVIOUS
  <2>1. x \in Ahead /\ x # u BY <1>7, <1>8
  <2>2. x \in depends /\ Precedes(u, x) BY <1>1, <2>1 DEF Ahead
  <2>3. x \in depends' BY <1>14, <2>2
  <2>4. \A y : Precedes(y, x)' <=> IF TRUE THEN Precedes(y, x) ELSE FALSE BY <1>2 DEF Precedes
  <2>5. (forwarded' = None \/ input'.namespace[forwarded'] < input'.namespace[x]
          \/ (input'.namespace[forwarded'] = input'.namespace[x] /\ forwarded' < x))
    BY <1>1, <1>2, <2>2 DEF Precedes
  <2> QED BY <2>3, <2>5 DEF Ahead, Precedes
<1>16. \A x \in depends' : input'.namespace[x] # h[1] BY <1>2, <1>5, <1>14 DEF Foreign
<1>17. h = Current' BY <1>2, <1>5 DEF Current
<1>18. FrontKnown' BY <1>2, <1>5, <1>7, <1>8, <1>13, <1>15, <1>16, <1>17 DEF FrontKnown
<1>19. BodyKnown' BY <1>2 DEF BodyKnown
<1>20. FilesKnown' /\ FilesForward' BY <1>2, KeepsKnown DEF WriterKnows
<1> QED BY <1>2, <1>18, <1>19, <1>20 DEF WriterKnows

LEMMA SaveKnown == ASSUME WriterOK, WriterKnows, Save PROVE WriterKnows'
<1>1. /\ stage = "front" /\ written' = written + 1 /\ UNCHANGED input
      /\ files' = [files EXCEPT ![Current] = first \o second]
      /\ (Current[2] = "0" => Ahead = {})
  BY DEF Save
<1>2. written < Len(Headers) /\ written \in Nat /\ Len(Headers) \in Nat /\ DOMAIN files = Header
  BY <1>1, HeadersFacts, SizesAssumption DEF WriterOK, WriterTypes
<1>3. PICK h \in Header : \E s, t, A :
       /\ h = Current /\ s = first /\ t = second /\ FrontExplained(h, s, t, A)
       /\ IF h[2] = "0" THEN A \subseteq Ahead ELSE A = {}
  BY <1>1 DEF WriterKnows, FrontKnown
<1>4. PICK s, t, A :
       /\ h = Current /\ s = first /\ t = second /\ FrontExplained(h, s, t, A)
       /\ IF h[2] = "0" THEN A \subseteq Ahead ELSE A = {}
  BY <1>3
<1>5. A = {} BY <1>1, <1>4
<1>6. FrontText(h, s, t) BY <1>1, <1>4 DEF WriterOK, FrontOK
<1>7. FrontExplained(h, s, t, {}) BY <1>4, <1>5
<1>8. FileExplained(h, s \o t) /\ Forwarded(h, {}, s \o t) BY <1>6, <1>7, SaveExplained
<1>9. files' = [files EXCEPT ![h] = s \o t] BY <1>1, <1>4
<1>10. FilesKnown'
  <2> SUFFICES ASSUME NEW g \in Header PROVE \E w : w = files'[g] /\ FileExplained(g, w)'
    BY DEF FilesKnown
  <2>1. PICK w : w = files'[g] OBVIOUS
  <2>2. CASE g = h
    <3>1. w = s \o t BY <1>2, <1>9, <2>1, <2>2
    <3> QED BY <1>1, <1>8, <2>1, <2>2, <3>1, SameExplained
  <2>3. CASE g # h
    <3>1. w = files[g] BY <1>2, <1>9, <2>1, <2>3
    <3>2. FileExplained(g, w) BY <3>1 DEF WriterKnows, FilesKnown
    <3> QED BY <1>1, <2>1, <3>2, SameExplained
  <2> QED BY <2>2, <2>3
<1>11. FilesForward'
  <2> SUFFICES ASSUME NEW i \in 1..(written + 1)
               PROVE \E g \in Header : \E w : g = Headers[i] /\ w = files'[g] /\ Forwarded(g, {}, w)'
    BY <1>1 DEF FilesForward
  <2>1. PICK g : g = Headers[i] OBVIOUS
  <2>2. g \in Header BY <1>2, <2>1, HeadersFacts
  <2>3. PICK w : w = files'[g] OBVIOUS
  <2>4. CASE g = h
    <3>1. w = s \o t BY <1>2, <1>9, <2>2, <2>3, <2>4
    <3> QED BY <1>1, <1>8, <2>1, <2>2, <2>3, <2>4, <3>1, SameExplained
  <2>5. CASE g # h
    <3>1. i # written + 1 BY <1>4, <2>1, <2>5 DEF Current
    <3>2. i \in 1..written BY <1>2, <3>1
    <3>3. w = files[g] BY <1>2, <1>9, <2>2, <2>3, <2>5
    <3>4. Forwarded(g, {}, w) BY <2>1, <3>2, <3>3 DEF WriterKnows, FilesForward
    <3> QED BY <1>1, <2>1, <2>2, <2>3, <3>4, SameExplained
  <2> QED BY <2>4, <2>5
<1>12. input' \in Inputs BY <1>1 DEF WriterKnows
<1>13. CASE written' < Len(Headers)
  <2>1. /\ stage' = "body" /\ jobs' = Body(Headers[written' + 1]) /\ first' = << >>
        /\ depends' = {} /\ extern' = {} /\ forwarded' = None
    BY <1>13 DEF Save, Start
  <2>2. PICK g : g = Headers[written' + 1] OBVIOUS
  <2>3. g \in Header BY <1>1, <1>2, <1>13, <2>2, HeadersFacts
  <2>4. PICK js, w, D, E : js = jobs' /\ w = first' /\ D = depends' /\ E = extern' OBVIOUS
  <2>5. BodyExplained(g, js, w, D, E) BY <2>1, <2>2, <2>4, BeginExplained
  <2>6. BodyExplained(g, js, w, D, E)' BY <1>1, <2>5, SameExplained
  <2>7. BodyKnown' BY <2>1, <2>2, <2>3, <2>4, <2>6 DEF BodyKnown, Current
  <2>8. FrontKnown' BY <2>1 DEF FrontKnown
  <2> QED BY <1>10, <1>11, <1>12, <2>7, <2>8 DEF WriterKnows
<1>14. CASE ~(written' < Len(Headers))
  <2>1. stage' = "done" BY <1>14 DEF Save
  <2>2. BodyKnown' /\ FrontKnown' BY <2>1 DEF BodyKnown, FrontKnown
  <2> QED BY <1>10, <1>11, <1>12, <2>2 DEF WriterKnows
<1> QED BY <1>13, <1>14

LEMMA InitKnown == ASSUME WriterInit PROVE WriterKnows
<1>1. /\ input \in Inputs /\ written = 0 /\ stage = "body" /\ jobs = Body(Headers[1])
      /\ first = << >> /\ depends = {} /\ extern = {} /\ forwarded = None
      /\ files = [h \in Header |-> << >>]
  BY DEF WriterInit
<1>2. Len(Headers) \in Nat /\ Len(Headers) > 0 BY HeadersFacts, SizesAssumption
<1>3. PICK h : h = Headers[1] OBVIOUS
<1>4. h \in Header /\ Current = h BY <1>1, <1>2, <1>3, HeadersFacts DEF Current
<1>5. BodyExplained(h, jobs, first, depends, extern) BY <1>1, <1>3, BeginExplained
<1>6. BodyKnown BY <1>1, <1>4, <1>5 DEF BodyKnown
<1>7. FrontKnown BY <1>1 DEF FrontKnown
<1>8. FilesKnown
  <2> SUFFICES ASSUME NEW g \in Header PROVE FileExplained(g, files[g]) BY DEF FilesKnown
  <2>1. files[g] = << >> BY <1>1
  <2> QED BY <2>1 DEF FileExplained, Expl
<1>9. FilesForward BY <1>1 DEF FilesForward
<1> QED BY <1>1, <1>6, <1>7, <1>8, <1>9 DEF WriterKnows

LEMMA KnownStays == ASSUME WriterKnows, UNCHANGED writerVars PROVE WriterKnows'
<1>1. UNCHANGED <<input, written, stage, jobs, first, second, depends, extern, forwarded, files>>
  BY DEF writerVars, writer
<1>2. FilesKnown' /\ FilesForward' BY <1>1, KeepsKnown DEF WriterKnows
<1>3. BodyKnown'
  <2> SUFFICES ASSUME stage = "body"
               PROVE /\ forwarded = None
                     /\ \E h \in Header : \E js, s, D, E :
                          /\ h = Current' /\ js = jobs' /\ s = first' /\ D = depends' /\ E = extern'
                          /\ BodyExplained(h, js, s, D, E)' /\ (h[2] = "1" => s = << >>)
    BY <1>1 DEF BodyKnown
  <2>1. forwarded = None /\ \E h \in Header : \E js, s, D, E :
          /\ h = Current /\ js = jobs /\ s = first /\ D = depends /\ E = extern
          /\ BodyExplained(h, js, s, D, E) /\ (h[2] = "1" => s = << >>)
    BY DEF WriterKnows, BodyKnown
  <2>2. PICK h \in Header : \E js, s, D, E :
          /\ h = Current /\ js = jobs /\ s = first /\ D = depends /\ E = extern
          /\ BodyExplained(h, js, s, D, E) /\ (h[2] = "1" => s = << >>)
    BY <2>1
  <2>3. PICK js, s, D, E :
          /\ h = Current /\ js = jobs /\ s = first /\ D = depends /\ E = extern
          /\ BodyExplained(h, js, s, D, E) /\ (h[2] = "1" => s = << >>)
    BY <2>2
  <2>4. BodyExplained(h, js, s, D, E)' BY <1>1, <2>3, SameExplained
  <2>5. h = Current' BY <1>1, <2>3 DEF Current
  <2> QED BY <1>1, <2>1, <2>3, <2>4, <2>5
<1>4. FrontKnown'
  <2> SUFFICES ASSUME stage = "front"
               PROVE \E h \in Header : \E s, t, A :
                       /\ h = Current' /\ s = first' /\ t = second' /\ FrontExplained(h, s, t, A)'
                       /\ IF h[2] = "0" THEN A \subseteq Ahead' ELSE A = {}
                       /\ \A u \in depends' : input'.namespace[u] # h[1]
    BY <1>1 DEF FrontKnown
  <2>1. PICK h \in Header : \E s, t, A :
       /\ h = Current /\ s = first /\ t = second /\ FrontExplained(h, s, t, A)
       /\ IF h[2] = "0" THEN A \subseteq Ahead ELSE A = {}
       /\ \A u \in depends : input.namespace[u] # h[1]
    BY DEF WriterKnows, FrontKnown
  <2>2. PICK s, t, A :
       /\ h = Current /\ s = first /\ t = second /\ FrontExplained(h, s, t, A)
       /\ IF h[2] = "0" THEN A \subseteq Ahead ELSE A = {}
       /\ \A u \in depends : input.namespace[u] # h[1]
    BY <2>1
  <2>3. FrontExplained(h, s, t, A)' BY <1>1, <2>2, SameExplained
  <2>4. h = Current' BY <1>1, <2>2 DEF Current
  <2>5. Ahead' = Ahead BY <1>1 DEF Ahead, Precedes
  <2> QED BY <1>1, <2>2, <2>3, <2>4, <2>5
<1> QED BY <1>1, <1>2, <1>3, <1>4 DEF WriterKnows

-----------------------------------------------------------------------------
(* The reader, once more *)

Gap(h, l) == \/ RepeatedDelegate(h, l) \/ LaterRow(h, l)
             \/ UnresolvedType(h, l) \/ OutOfSight(h, l)

\* What a header declares has been noted if the compiler is past it.
NotedNames ==
    \A h \in seen : \A k \in 1..Len(files[h]) : Past(h, k) =>
        \A x \in Name : files[h][k] = Declare(x) => x \in declared

ReaderKnows == NotedNames /\ (stage # "done" => missing = {}) /\ OnlyKnownGaps

\* The headers that the compiler has read to their end, since they are of lower
\* rank than the one it is in.
Below == {h \in seen : Rank(h) < Rank(Top.file)}

LEMMA SavedFiles ==
    ASSUME WriterOK, WriterKnows, stage = "done", NEW h \in Header
    PROVE /\ files[h] \in Seq(Line(h)) /\ Complete(h, files[h])
          /\ Forwarded(h, {}, files[h]) /\ FileExplained(h, files[h])
<1>1. files[h] \in Seq(Line(h)) BY DEF WriterOK, FilesOK, FileText
<1>2. FileExplained(h, files[h]) BY DEF WriterKnows, FilesKnown
<1>3. written = Len(Headers) BY DEF WriterOK, WriterTypes
<1>4. PICK i \in 1..Len(Headers) : h = Headers[i] BY HeadersFacts
<1>5. Complete(h, files[h]) BY <1>3, <1>4 DEF WriterOK, Finished
<1>6. Forwarded(h, {}, files[h]) BY <1>3, <1>4 DEF WriterKnows, FilesForward
<1> QED BY <1>1, <1>2, <1>5, <1>6

\* Which lines may say what.
LEMMA LineTypes ==
    ASSUME NEW h \in Header, NEW x
    PROVE /\ Define(x) \in Line(h) => x \in Type
          /\ Declare(x) \in Line(h) => x \in Name
          /\ IncludeOf(x) \in Line(h) => x \in Lower(h)
<1>1. /\ Define(x)[1] = "define" /\ Define(x)[2] = x
      /\ Declare(x)[1] = "declare" /\ Declare(x)[2] = x
      /\ IncludeOf(x)[1] = "include" /\ IncludeOf(x)[2] = x
  BY DEF Define, Declare, IncludeOf
<1>2. Define(x) \in Line(h) => x \in Type BY <1>1, LineCases
<1>3. Declare(x) \in Line(h) => x \in Name BY <1>1, LineCases
<1>4. IncludeOf(x) \in Line(h) => x \in Lower(h) BY <1>1, LineCases
<1> QED BY <1>2, <1>3, <1>4

\* Where the compiler is past each line.
LEMMA PastBelow ==
    ASSUME ReaderOK, reading # << >>
    PROVE /\ stage = "done" /\ Top.file \in Header /\ Top.file \in seen /\ Top.at \in Nat
          /\ Below \subseteq Header
          /\ \A h \in Below : \A k : Past(h, k)
          /\ \A k : k < Top.at => Past(Top.file, k)
<1> DEFINE n == Len(reading)
<1>1. /\ n \in 1..n /\ Top \in Frame /\ Top = reading[n] /\ n \in Nat
  BY AdvancedFacts DEF ReaderOK, ReaderTypes, Top
<1>2. /\ stage = "done" /\ seen \subseteq Header
      /\ \A i \in 1..n : reading[i].file \in seen
      /\ \A i, j \in 1..n : i < j => Rank(reading[j].file) < Rank(reading[i].file)
  BY DEF ReaderOK, ReaderTypes, Nested
<1>3. Top.file \in Header /\ Top.file \in seen /\ Top.at \in Nat BY <1>1, <1>2 DEF Frame
<1>4. \A i \in 1..n : Rank(reading[i].file) \in Nat BY <1>2, RankIsNat
<1>5. \A i \in 1..n : i = n \/ Rank(Top.file) < Rank(reading[i].file) BY <1>1, <1>2
<1>6. Rank(Top.file) \in Nat BY <1>3, RankIsNat
<1>7. ASSUME NEW h \in Below, NEW k PROVE Past(h, k)
  <2> SUFFICES ASSUME NEW i \in 1..n, reading[i].file = h PROVE FALSE BY DEF Past
  <2>1. Rank(h) < Rank(Top.file) /\ Rank(h) \in Nat BY <1>2, RankIsNat DEF Below
  <2> QED BY <1>1, <1>4, <1>5, <1>6, <2>1
<1>8. ASSUME NEW k, k < Top.at PROVE Past(Top.file, k)
  <2> SUFFICES ASSUME NEW i \in 1..n, reading[i].file = Top.file PROVE k < reading[i].at BY DEF Past
  <2>1. i = n BY <1>4, <1>5, <1>6
  <2> QED BY <1>1, <1>8, <2>1
<1> QED BY <1>2, <1>3, <1>7, <1>8 DEF Below

\* What follows from a header below having been read.
LEMMA ReadBelow ==
    ASSUME WriterOK, WriterKnows, ReaderOK, ReaderKnows, reading # << >>, NEW h \in Below
    PROVE /\ \A g \in Header : Has(files[h], IncludeOf(g)) => g \in Below
          /\ \A x \in Type : Has(files[h], Define(x)) => x \in defined
          /\ \A x \in Name : Has(files[h], Declare(x)) => x \in declared
<1>1. stage = "done" /\ h \in Header /\ h \in seen /\ (\A k : Past(h, k)) /\ Top.file \in Header
  BY PastBelow DEF Below
<1>2. files[h] \in Seq(Line(h)) BY <1>1, SavedFiles
<1>3. \A k \in 1..Len(files[h]) :
        /\ \A x \in Type : files[h][k] = Define(x) => x \in defined
        /\ \A g \in Header : files[h][k] = IncludeOf(g) => g \in seen
  BY <1>1 DEF ReaderOK, Noted
<1>4. \A k \in 1..Len(files[h]) : \A x \in Name : files[h][k] = Declare(x) => x \in declared
  BY <1>1 DEF ReaderKnows, NotedNames
<1>5. ASSUME NEW g \in Header, Has(files[h], IncludeOf(g)) PROVE g \in Below
  <2>1. PICK k \in 1..Len(files[h]) : files[h][k] = IncludeOf(g) BY <1>5 DEF Has
  <2>2. IncludeOf(g) \in Line(h) BY <1>2, <2>1
  <2>3. g \in Lower(h) BY <1>1, <2>2, LineTypes
  <2>4. Rank(g) < Rank(h) /\ Rank(h) < Rank(Top.file) BY <2>3 DEF Lower, Below
  <2>5. Rank(g) \in Nat /\ Rank(h) \in Nat /\ Rank(Top.file) \in Nat BY <1>1, RankIsNat
  <2>6. g \in seen BY <1>3, <2>1
  <2> QED BY <2>4, <2>5, <2>6 DEF Below
<1> QED BY <1>3, <1>4, <1>5 DEF Has

\* What follows from what has been read of the innermost file.
LEMMA ReadSofar ==
    ASSUME WriterOK, WriterKnows, ReaderOK, ReaderKnows, reading # << >>,
           NEW f, f = Top.file, NEW a \in 1..Len(files[f]), a = Top.at, NEW E, E = Sofar(files[f], a)
    PROVE /\ \A g : IncludeOf(g) \in E => g \in Below
          /\ \A x : Define(x) \in E => x \in defined
          /\ \A x : Declare(x) \in E => x \in declared
<1>1. stage = "done" /\ f \in Header /\ f \in seen /\ (\A k : k < a => Past(f, k)) /\ a \in Nat
  BY PastBelow
<1>2. files[f] \in Seq(Line(f)) BY <1>1, SavedFiles
<1>3. ASSUME NEW l \in E
      PROVE \E k \in 1..Len(files[f]) : l = files[f][k] /\ Past(f, k) /\ l \in Line(f)
  <2>1. PICK k \in 1..(a - 1) : l = files[f][k] BY DEF Sofar
  <2>2. Len(files[f]) \in Nat BY <1>2
  <2>3. k \in 1..Len(files[f]) /\ k < a BY <1>1, <2>2
  <2> QED BY <1>1, <1>2, <2>1, <2>3
<1>4. ASSUME NEW g, IncludeOf(g) \in E PROVE g \in Below
  <2>1. PICK k \in 1..Len(files[f]) : IncludeOf(g) = files[f][k] /\ Past(f, k) /\ IncludeOf(g) \in Line(f)
    BY <1>3, <1>4
  <2>2. g \in Header /\ Rank(g) < Rank(f) BY <1>1, <2>1, LineTypes DEF Lower
  <2>3. g \in seen BY <1>1, <2>1, <2>2 DEF ReaderOK, Noted
  <2> QED BY <2>2, <2>3 DEF Below
<1>5. ASSUME NEW x, Define(x) \in E PROVE x \in defined
  <2>1. PICK k \in 1..Len(files[f]) : Define(x) = files[f][k] /\ Past(f, k) /\ Define(x) \in Line(f)
    BY <1>3, <1>5
  <2>2. x \in Type BY <1>1, <2>1, LineTypes
  <2> QED BY <1>1, <2>1, <2>2 DEF ReaderOK, Noted
<1>6. ASSUME NEW x, Declare(x) \in E PROVE x \in declared
  <2>1. PICK k \in 1..Len(files[f]) : Declare(x) = files[f][k] /\ Past(f, k) /\ Declare(x) \in Line(f)
    BY <1>3, <1>6
  <2>2. x \in Name BY <1>1, <2>1, LineTypes
  <2> QED BY <1>1, <2>1, <2>2 DEF ReaderKnows, NotedNames
<1> QED BY <1>4, <1>5, <1>6

\* What the headers below make known.
LEMMA KnownBelow ==
    ASSUME WriterOK, WriterKnows, ReaderOK, ReaderKnows, reading # << >>
    PROVE /\ \A n \in Namespace : <<n, "2">> \in Below => <<n, "1">> \in Below /\ Interfaces \in Below
          /\ \A n \in Namespace : <<n, "1">> \in Below => <<n, "0">> \in Below /\ Structs \in Below
          /\ \A x \in Type : Category(x) # "class" /\ <<input.namespace[x], "0">> \in Below
                                => x \in declared
          /\ \A x \in Type : Category(x) = "struct" /\ Structs \in Below => x \in defined
<1>1. stage = "done" /\ Below \subseteq Header /\ input \in Metadata BY PastBelow, InputKnown
<1>2. ASSUME NEW h \in Below, NEW g \in Header, Fixed(h, g) PROVE g \in Below
  <2>1. Complete(h, files[h]) BY <1>1, SavedFiles
  <2>2. Has(files[h], IncludeOf(g)) BY <1>2, <2>1 DEF Complete
  <2> QED BY <2>2, ReadBelow
<1>3. ASSUME NEW n \in Namespace, <<n, "2">> \in Below
      PROVE <<n, "1">> \in Below /\ Interfaces \in Below
  <2>1. Fixed(<<n, "2">>, <<n, "1">>) /\ Fixed(<<n, "2">>, Interfaces) BY DEF Fixed
  <2>2. <<n, "1">> \in Header /\ Interfaces \in Header BY NamedHeaders
  <2> QED BY <1>2, <1>3, <2>1, <2>2
<1>4. ASSUME NEW n \in Namespace, <<n, "1">> \in Below
      PROVE <<n, "0">> \in Below /\ Structs \in Below
  <2>1. Fixed(<<n, "1">>, <<n, "0">>) /\ Fixed(<<n, "1">>, Structs) BY DEF Fixed
  <2>2. <<n, "0">> \in Header /\ Structs \in Header BY NamedHeaders
  <2> QED BY <1>2, <1>4, <2>1, <2>2
<1>5. ASSUME NEW x \in Type, Category(x) # "class", Home(x) \in Below PROVE x \in defined
  <2>1. PICK h, j : h = Home(x) /\ j = <<Category(x), x>> OBVIOUS
  <2>2. h \in Header /\ j \in Body(h) /\ j[1] \in Defining /\ j[2] = x
    BY <1>1, <1>5, <2>1, DefinedAtHome
  <2>3. Complete(h, files[h]) BY <1>1, <2>2, SavedFiles
  <2>4. Has(files[h], Define(x)) BY <2>2, <2>3 DEF Complete
  <2> QED BY <1>5, <2>1, <2>4, ReadBelow
<1>6. ASSUME NEW x \in Type, Category(x) # "class", <<input.namespace[x], "0">> \in Below
      PROVE x \in declared
  <2>1. CASE Category(x) \in {"enum", "delegate"}
    <3>1. Home(x) = <<input.namespace[x], "0">> BY <2>1 DEF Home
    <3>2. x \in defined BY <1>5, <1>6, <3>1
    <3> QED BY <3>2 DEF ReaderOK, ReaderTypes
  <2>2. CASE Category(x) \in {"struct", "interface"}
    <3>1. PICK h, j : h = <<input.namespace[x], "0">> /\ j = <<"forward", x>> OBVIOUS
    <3>2. h \in Header /\ input.namespace[x] \in Namespace BY <1>1, <1>6, <3>1, OfTypes
    <3>3. j \in Body(h) /\ j[1] = "forward" /\ j[2] = x BY <1>1, <2>2, <3>1, <3>2, JobsThere
    <3>4. Forwarded(h, {}, files[h]) BY <1>1, <3>2, SavedFiles
    <3>5. Has(files[h], Declare(x)) BY <3>3, <3>4 DEF Forwarded
    <3>6. x \in Name BY DEF Name
    <3> QED BY <1>6, <3>1, <3>5, <3>6, ReadBelow
  <2> QED BY <1>1, <1>6, <2>1, <2>2, OfTypes
<1>7. ASSUME NEW x \in Type, Category(x) = "struct", Structs \in Below PROVE x \in defined
  <2>1. Home(x) = Structs /\ Category(x) # "class" BY <1>7 DEF Home
  <2> QED BY <1>5, <1>7, <2>1
<1> QED BY <1>3, <1>4, <1>6, <1>7

LEMMA InText == ASSUME NEW S, NEW s \in Seq(S), NEW l \in Range(s) PROVE Has(s, l)
<1>1. DOMAIN s = 1..Len(s) OBVIOUS
<1> QED BY <1>1 DEF Range, Has

\* An include that was to make a name known has done so, or the name is out of sight.
LEMMA IncludedKnown ==
    ASSUME WriterOK, WriterKnows, ReaderOK, ReaderKnows, reading # << >>,
           NEW f, f = Top.file, NEW E, \A g : IncludeOf(g) \in E => g \in Below,
           NEW l, IsUse(l), Included(f, E, l[2], l[1])
    PROVE OutOfSight(f, l) \/ l[2] \in IF l[1] = "use" THEN declared ELSE defined
<1>1. PICK x, n : x = l[2] /\ n = input.namespace[x] OBVIOUS
<1>2. /\ f \in Header /\ Below \subseteq Header /\ input \in Metadata /\ stage = "done"
      /\ x \in Type /\ Category(x) # "class" /\ n \in Namespace /\ x # Unresolved
  <2>1. x \in Type /\ Category(x) # "class" BY <1>1 DEF Included
  <2>2. input \in Metadata BY InputKnown
  <2>3. input.namespace[x] \in Namespace /\ Unresolved \notin Type BY <2>1, <2>2, OfTypes
  <2> QED BY <1>1, <2>1, <2>2, <2>3, PastBelow
<1>3. <<n, "1">> \in Below => <<n, "0">> \in Below BY <1>2, KnownBelow
<1>4. <<n, "0">> \in Below => x \in declared BY <1>1, <1>2, KnownBelow
<1>5. CASE f = Structs /\ l[1] = "use" /\ IncludeOf(<<n, "0">>) \in E BY <1>1, <1>4, <1>5
<1>6. CASE f = Interfaces /\ l[1] = "use" /\ IncludeOf(<<n, "1">>) \in E BY <1>1, <1>3, <1>4, <1>6
<1>7. CASE /\ f[2] \in {"2", "h"} /\ (l[1] = "use" \/ Category(x) = "struct")
           /\ \A g \in Header : Fixed(f, g) => IncludeOf(g) \in E
  <2>1. PICK m \in Namespace : f = <<m, "2">> \/ f = <<m, "h">>
    <3>1. f # Structs /\ f # Interfaces BY <1>7 DEF Structs, Interfaces
    <3> QED BY <1>2, <1>7, <3>1, HeaderCases
  <2>2. \A g \in Header : Fixed(f, g) => g \in Below BY <1>7
  <2>3. <<m, "1">> \in Below /\ Interfaces \in Below
    <3>1. <<m, "1">> \in Header /\ <<m, "2">> \in Header /\ Interfaces \in Header BY NamedHeaders
    <3>2. CASE f = <<m, "2">>
      <4>1. Fixed(f, <<m, "1">>) /\ Fixed(f, Interfaces) BY <3>2 DEF Fixed
      <4> QED BY <2>2, <3>1, <4>1
    <3>3. CASE f = <<m, "h">>
      <4>1. Fixed(f, <<m, "2">>) BY <3>3 DEF Fixed
      <4>2. <<m, "2">> \in Below BY <2>2, <3>1, <4>1
      <4> QED BY <4>2, KnownBelow
    <3> QED BY <2>1, <3>2, <3>3
  <2>4. <<m, "0">> \in Below /\ Structs \in Below BY <2>3, KnownBelow
  <2>5. CASE l[1] = "require"
    <3>1. Category(x) = "struct" BY <1>7, <2>5
    <3>2. x \in defined BY <1>2, <2>4, <3>1, KnownBelow
    <3> QED BY <1>1, <2>5, <3>2
  <2>6. CASE l[1] = "use"
    <3>1. CASE n = m BY <1>1, <1>4, <2>4, <2>6, <3>1
    <3>2. CASE n \in Spanned
      <4>1. files[Structs] \in Seq(Line(Structs)) /\ files[Interfaces] \in Seq(Line(Interfaces))
        BY <1>2, NamedHeaders, SavedFiles
      <4>2. \/ IncludeOf(<<n, "0">>) \in Range(files[Structs])
            \/ IncludeOf(<<n, "1">>) \in Range(files[Interfaces])
        BY <3>2 DEF Spanned, IncludeOf
      <4>3. Has(files[Structs], IncludeOf(<<n, "0">>)) \/ Has(files[Interfaces], IncludeOf(<<n, "1">>))
        BY <4>1, <4>2, InText
      <4>4. <<n, "0">> \in Header /\ <<n, "1">> \in Header BY <1>2, NamedHeaders
      <4>5. <<n, "0">> \in Below \/ <<n, "1">> \in Below BY <2>3, <2>4, <4>3, <4>4, ReadBelow
      <4> QED BY <1>1, <1>3, <1>4, <2>6, <4>5
    <3>3. CASE n # m /\ n \notin Spanned
      <4>1. f[1] = m BY <2>1
      <4> QED BY <1>1, <1>2, <1>7, <3>3, <4>1 DEF OutOfSight
    <3> QED BY <3>1, <3>2, <3>3
  <2> QED BY <2>5, <2>6 DEF IsUse
<1> QED BY <1>1, <1>5, <1>6, <1>7 DEF Included

\* A name that is not known when it is read is one of the gaps.
LEMMA KnownOrGap ==
    ASSUME WriterOK, WriterKnows, ReaderOK, ReaderKnows, reading # << >>,
           NEW f, f = Top.file, NEW a \in 1..Len(files[f]), a = Top.at,
           NEW l, l = files[f][a], IsUse(l)
    PROVE Gap(f, l) \/ l[2] \in IF l[1] = "use" THEN declared ELSE defined
<1>1. PICK E : E = Sofar(files[f], a) OBVIOUS
<1>2. /\ \A g : IncludeOf(g) \in E => g \in Below
      /\ \A x : Define(x) \in E => x \in defined
      /\ \A x : Declare(x) \in E => x \in declared
  BY <1>1, ReadSofar
<1>3. FileExplained(f, files[f]) BY PastBelow, SavedFiles
<1>4. {} \cup Sofar(files[f], a) = E BY <1>1
<1>5. Explained(f, l, E, {}) BY <1>3, <1>4 DEF FileExplained, Expl
<1>6. defined \subseteq declared BY DEF ReaderOK, ReaderTypes
<1>7. CASE RepeatedDelegate(f, l) \/ LaterRow(f, l) \/ UnresolvedType(f, l) BY <1>7 DEF Gap
<1>8. CASE Define(l[2]) \in E BY <1>2, <1>6, <1>8
<1>9. CASE l[1] = "use" /\ Declare(l[2]) \in E BY <1>2, <1>9
<1>10. CASE Included(f, E, l[2], l[1])
  <2>1. OutOfSight(f, l) \/ l[2] \in IF l[1] = "use" THEN declared ELSE defined
    BY <1>2, <1>10, IncludedKnown
  <2> QED BY <2>1 DEF Gap
<1> QED BY <1>5, <1>7, <1>8, <1>9, <1>10 DEF Explained

\* What a gap is depends on the metadata and the files only.
LEMMA SameGaps ==
    ASSUME input' = input, files' = files, NEW h, NEW l PROVE Gap(h, l)' <=> Gap(h, l)
<1>1. \A x : Category(x)' = Category(x) BY DEF Category
<1>2. RepeatedDelegate(h, l)' <=> RepeatedDelegate(h, l) BY DEF RepeatedDelegate
<1>3. LaterRow(h, l)' <=> LaterRow(h, l) BY <1>1 DEF LaterRow
<1>4. UnresolvedType(h, l)' <=> UnresolvedType(h, l) BY DEF UnresolvedType
<1>5. OutOfSight(h, l)' <=> OutOfSight(h, l) BY DEF OutOfSight, Spanned
<1> QED BY <1>2, <1>3, <1>4, <1>5 DEF Gap

LEMMA GapsKnown == OnlyKnownGaps <=> \A m \in missing : Gap(m[1], m[2])
BY DEF OnlyKnownGaps, Gap

LEMMA SameKnownGaps ==
    ASSUME input' = input, files' = files, OnlyKnownGaps,
           \A m \in missing' : m \in missing \/ Gap(m[1], m[2])
    PROVE OnlyKnownGaps'
<1>1. \A m \in missing' : Gap(m[1], m[2]) BY GapsKnown
<1>2. \A m \in missing' : Gap(m[1], m[2])' BY <1>1, SameGaps
<1> QED BY <1>2 DEF OnlyKnownGaps, Gap

\* While headers are written, nothing is read.
LEMMA WriteKnown ==
    ASSUME WriterOK, WriterKnows, ReaderOK, ReaderKnows, Write
    PROVE WriterKnows' /\ ReaderKnows'
<1>1. WriterKnows' BY WriteBodyKnown, SwapKnown, ForwardNextKnown, SaveKnown DEF Write, WriterNext
<1>2. stage # "done" BY DEF Write, WriterNext, WriteBody, Swap, ForwardNext, Save
<1>3. UNCHANGED <<seen, missing>> BY DEF Write, reader
<1>4. seen = {} /\ missing = {} BY <1>2 DEF ReaderOK, ReaderTypes, ReaderKnows
<1>5. NotedNames' BY <1>3, <1>4 DEF NotedNames
<1>6. OnlyKnownGaps' BY <1>3, <1>4 DEF OnlyKnownGaps
<1> QED BY <1>1, <1>3, <1>4, <1>5, <1>6 DEF ReaderKnows

LEMMA IncludeKnown ==
    ASSUME WriterOK, ReaderOK, ReaderKnows, Include PROVE ReaderKnows'
<1>1. PICK n \in Namespace : /\ <<n, "h">> \notin seen
                             /\ reading' = << [file |-> <<n, "h">>, at |-> 1] >>
                             /\ seen' = seen \cup {<<n, "h">>}
  BY DEF Include
<1>2. /\ stage = "done" /\ reading = << >> /\ UNCHANGED <<writerVars, declared, missing>>
  BY DEF Include
<1>3. UNCHANGED <<files, stage, input>> BY <1>2 DEF writerVars, writer
<1>4. PICK g : g = <<n, "h">> OBVIOUS
<1>5. PICK fr : fr = [file |-> g, at |-> 1] OBVIOUS
<1>6. g \in Header /\ fr.file = g /\ fr.at = 1 BY <1>4, <1>5, NamedHeaders
<1>7. reading' = <<fr>> /\ seen' = seen \cup {g} BY <1>1, <1>4, <1>5
<1>8. Len(reading') = 1 /\ reading'[1] = fr BY <1>7
<1>9. NotedNames'
  <2> SUFFICES ASSUME NEW h \in seen', NEW k \in 1..Len(files[h]), Past(h, k)'
               PROVE \A x \in Name : files[h][k] = Declare(x) => x \in declared
    BY <1>2, <1>3 DEF NotedNames
  <2>1. CASE h = g
    <3>1. files[g] \in Seq(Line(g)) BY <1>6 DEF WriterOK, FilesOK, FileText
    <3>2. k \in Nat /\ k > 0 BY <2>1, <3>1
    <3>3. 1 \in 1..Len(reading') BY <1>8
    <3>4. k < 1 BY <1>6, <1>8, <2>1, <3>3 DEF Past
    <3> QED BY <3>2, <3>4
  <2>2. CASE h # g
    <3>1. Past(h, k) BY <1>2 DEF Past
    <3> QED BY <1>7, <2>2, <3>1 DEF ReaderKnows, NotedNames
  <2> QED BY <2>1, <2>2
<1>10. OnlyKnownGaps' BY <1>2, <1>3, SameKnownGaps DEF ReaderKnows
<1> QED BY <1>2, <1>3, <1>9, <1>10 DEF ReaderKnows

LEMMA EndOfFileKnown ==
    ASSUME WriterOK, ReaderOK, ReaderKnows, EndOfFile PROVE ReaderKnows'
<1>1. /\ reading # << >> /\ Top.at > Len(files[Top.file])
      /\ reading' = SubSeq(reading, 1, Len(reading) - 1)
      /\ UNCHANGED <<writerVars, seen, declared, missing>>
  BY DEF EndOfFile
<1> DEFINE n == Len(reading)
<1>2. reading \in Seq(Frame) /\ n \in Nat /\ n > 0 /\ Top = reading[n] /\ Top \in Frame
      /\ seen \subseteq Header
  BY <1>1, AdvancedFacts DEF ReaderOK, ReaderTypes, Top
<1>3. Len(reading') = n - 1 /\ \A i \in 1..(n - 1) : reading'[i] = reading[i]
  BY <1>1, <1>2, WithoutLast
<1>4. UNCHANGED <<files, stage, input>> BY <1>1 DEF writerVars, writer
<1>5. ASSUME NEW h \in seen, NEW k \in 1..Len(files[h]), Past(h, k)' PROVE Past(h, k)
  <2>1. files[h] \in Seq(Line(h)) BY <1>2 DEF WriterOK, FilesOK, FileText
  <2>2. Len(files[h]) \in Nat /\ k \in Nat /\ Top.at \in Nat BY <1>2, <2>1 DEF Frame
  <2>3. h = Top.file => k < Top.at BY <1>1, <2>2
  <2>4. \A i \in 1..n : i \in 1..(n - 1) \/ reading[i] = Top BY <1>2
  <2> QED BY <1>3, <1>5, <2>3, <2>4 DEF Past
<1> HIDE DEF n
<1>6. NotedNames' BY <1>1, <1>4, <1>5 DEF ReaderKnows, NotedNames
<1>7. OnlyKnownGaps' BY <1>1, <1>4, SameKnownGaps DEF ReaderKnows
<1> QED BY <1>1, <1>4, <1>6, <1>7 DEF ReaderKnows

\* A line that has been read is noted, or is missing for one of the known reasons.
LEMMA ReadNames ==
    ASSUME Read, NEW f, f = Top.file, NEW l, l = files[f][Top.at]
    PROVE /\ declared \subseteq declared'
          /\ l[1] = "declare" => l[2] \in declared'
          /\ \/ missing' = missing
             \/ /\ IsUse(l) /\ missing' = missing \cup {<<f, l>>}
                /\ l[2] \notin IF l[1] = "use" THEN declared ELSE defined
<1>1. CASE l[1] = "include" BY <1>1 DEF Read
<1>2. CASE l[1] = "declare" BY <1>2 DEF Read
<1>3. CASE l[1] = "define" BY <1>3 DEF Read
<1>4. CASE IsUse(l)
  <2>1. /\ declared' = declared
        /\ missing' = IF l[2] \in (IF l[1] = "use" THEN declared ELSE defined)
                      THEN missing ELSE missing \cup {<<f, l>>}
        /\ l[1] # "declare"
    BY <1>4 DEF Read, IsUse
  <2> QED BY <1>4, <2>1
<1>5. l[1] \in {"include", "declare", "define", "use", "require"} BY DEF Read
<1> QED BY <1>1, <1>2, <1>3, <1>4, <1>5 DEF IsUse

LEMMA ReadKnown ==
    ASSUME WriterOK, WriterKnows, ReaderOK, ReaderKnows, Read PROVE ReaderKnows'
<1>1. UNCHANGED writerVars /\ reading # << >> /\ Top.file \in seen BY ReadCases
<1>2. PICK l : /\ Top.at \in 1..Len(files[Top.file]) /\ l = files[Top.file][Top.at]
               /\ \/ \E g \in Lower(Top.file) :
                        /\ g \notin seen /\ l = IncludeOf(g)
                        /\ reading' = Append(Advanced, [file |-> g, at |-> 1])
                        /\ seen' = seen \cup {g}
                        /\ UNCHANGED <<declared, defined, redefined>>
                  \/ reading' = Advanced /\ seen' = seen /\ Notes(l)
  BY ReadCases
<1>3. PICK f, a : f = Top.file /\ a = Top.at OBVIOUS
<1>4. \A h \in seen, k \in Nat : Past(h, k)' => Past(h, k) \/ (h = f /\ k = a)
  BY <1>1, <1>2, <1>3, ReadMoves
<1>5. /\ a \in 1..Len(files[f]) /\ l = files[f][a] /\ stage = "done"
      /\ files' = files /\ stage' = stage /\ input' = input
  BY <1>1, <1>2, <1>3, PastBelow DEF writerVars, writer
<1>6. \A h \in seen : Len(files[h]) \in Nat
  <2>1. \A h \in seen : files[h] \in Seq(Line(h))
    BY DEF ReaderOK, ReaderTypes, WriterOK, FilesOK, FileText
  <2> QED BY <2>1
<1>7. /\ declared \subseteq declared' /\ (l[1] = "declare" => l[2] \in declared')
      /\ \/ missing' = missing
         \/ /\ IsUse(l) /\ missing' = missing \cup {<<f, l>>}
            /\ l[2] \notin IF l[1] = "use" THEN declared ELSE defined
  BY <1>3, <1>5, ReadNames
<1>8. NotedNames'
  <2> SUFFICES ASSUME NEW h \in seen', NEW k \in 1..Len(files[h]), Past(h, k)',
                      NEW x \in Name, files[h][k] = Declare(x)
               PROVE x \in declared'
    BY <1>5 DEF NotedNames
  <2>1. CASE h \in seen
    <3>1. k \in Nat BY <1>6, <2>1
    <3>2. CASE h = f /\ k = a
      <4>1. l = Declare(x) BY <1>5, <3>2
      <4> QED BY <1>7, <4>1 DEF Declare
    <3>3. CASE Past(h, k) BY <1>7, <2>1, <3>3 DEF ReaderKnows, NotedNames
    <3> QED BY <1>4, <2>1, <3>1, <3>2, <3>3
  <2>2. CASE h \notin seen
    <3>1. PICK g \in Lower(Top.file) : /\ reading' = Append(Advanced, [file |-> g, at |-> 1])
                                       /\ seen' = seen \cup {g}
      BY <1>2, <2>2
    <3>2. h = g BY <2>2, <3>1
    <3>3. PICK fr : fr = [file |-> g, at |-> 1] OBVIOUS
    <3>4. Advanced \in Seq(Frame) BY <1>1, AdvancedFacts DEF ReaderOK, ReaderTypes
    <3>5. Len(reading') = Len(Advanced) + 1 /\ reading'[Len(Advanced) + 1] = fr /\ Len(Advanced) \in Nat
      BY <3>1, <3>3, <3>4
    <3>6. fr.file = h /\ fr.at = 1 BY <3>2, <3>3
    <3>7. Len(Advanced) + 1 \in 1..Len(reading') BY <3>5
    <3>8. k < 1 BY <3>5, <3>6, <3>7 DEF Past
    <3> QED BY <3>8
  <2> QED BY <2>1, <2>2
<1>9. OnlyKnownGaps'
  <2>1. \A m \in missing' : m \in missing \/ Gap(m[1], m[2])
    <3>1. CASE missing' = missing BY <3>1
    <3>2. CASE /\ IsUse(l) /\ missing' = missing \cup {<<f, l>>}
               /\ l[2] \notin IF l[1] = "use" THEN declared ELSE defined
      <4>1. Gap(f, l) BY <1>1, <1>3, <1>5, <3>2, KnownOrGap
      <4> QED BY <3>2, <4>1
    <3> QED BY <1>7, <3>1, <3>2
  <2> QED BY <1>5, <2>1, SameKnownGaps DEF ReaderKnows
<1> QED BY <1>5, <1>8, <1>9 DEF ReaderKnows

LEMMA ReaderStaysKnown == ASSUME ReaderKnows, UNCHANGED vars PROVE ReaderKnows'
<1>1. UNCHANGED <<input, stage, files, reading, seen, declared, missing>>
  BY DEF vars, writerVars, writer, reader
<1>2. \A h, k : Past(h, k)' <=> Past(h, k) BY <1>1 DEF Past
<1>3. NotedNames' BY <1>1, <1>2 DEF ReaderKnows, NotedNames
<1>4. OnlyKnownGaps' BY <1>1, SameKnownGaps DEF ReaderKnows
<1> QED BY <1>1, <1>3, <1>4 DEF ReaderKnows

Known == IInv /\ WriterKnows /\ ReaderKnows

LEMMA InitAllKnown == ASSUME Init PROVE Known
<1>1. IInv /\ WriterKnows BY InitIInv, InitKnown DEF Init
<1>2. seen = {} /\ missing = {} BY DEF Init
<1>3. ReaderKnows BY <1>2 DEF ReaderKnows, NotedNames, OnlyKnownGaps
<1> QED BY <1>1, <1>3 DEF Known

LEMMA NextAllKnown == ASSUME Known, [Next]_vars PROVE Known'
<1>1. IInv' BY NextIInv DEF Known
<1>2. CASE Write BY <1>1, <1>2, WriteKnown DEF Known, IInv
<1>3. CASE Include
  <2>1. UNCHANGED writerVars BY <1>3 DEF Include
  <2> QED BY <1>1, <1>3, <2>1, IncludeKnown, KnownStays DEF Known, IInv
<1>4. CASE Read
  <2>1. UNCHANGED writerVars BY <1>4 DEF Read
  <2> QED BY <1>1, <1>4, <2>1, ReadKnown, KnownStays DEF Known, IInv
<1>5. CASE EndOfFile
  <2>1. UNCHANGED writerVars BY <1>5 DEF EndOfFile
  <2> QED BY <1>1, <1>5, <2>1, EndOfFileKnown, KnownStays DEF Known, IInv
<1>6. CASE UNCHANGED vars
  <2>1. UNCHANGED writerVars BY <1>6 DEF vars
  <2> QED BY <1>1, <1>6, <2>1, ReaderStaysKnown, KnownStays DEF Known
<1> QED BY <1>2, <1>3, <1>4, <1>5, <1>6 DEF Next

-----------------------------------------------------------------------------
(* The theorems *)

LEMMA Invariance == Spec => []IInv
<1>1. Init => IInv BY InitIInv
<1>2. IInv /\ [Next]_vars => IInv' BY NextIInv
<1> QED BY <1>1, <1>2, PTL DEF Spec

\* Every variable keeps its type, for any number of namespaces and types and for
\* any metadata.
THEOREM TypeCorrect == Spec => []TypeOK
<1>1. IInv => TypeOK
  <2> SUFFICES ASSUME IInv PROVE TypeOK OBVIOUS
  <2>1. \A i \in 1..Len(reading) : reading[i].file \in Header
    BY DEF IInv, ReaderOK, ReaderTypes, Nested
  <2> QED BY <2>1 DEF IInv, WriterOK, WriterTypes, ReaderOK, ReaderTypes, TypeOK, Name
<1> QED BY <1>1, Invariance, PTL

\* No header is included while it is being read: whatever the metadata says of
\* which namespaces depend on each other, a header includes only headers of lower
\* rank.
THEOREM IncludesComplete == Spec => []IncludesAreComplete
<1>1. IInv => IncludesAreComplete
  <2> SUFFICES ASSUME IInv, NEW i \in 1..Len(reading), ~(i < Len(reading)),
                      ~(reading[i].at > Len(files[reading[i].file])),
                      files[reading[i].file][reading[i].at][1] = "include",
                      NEW j \in 1..Len(reading),
                      reading[j].file = files[reading[i].file][reading[i].at][2]
               PROVE FALSE
    BY DEF IncludesAreComplete
  <2>1. PICK f, a, l : f = reading[i].file /\ a = reading[i].at /\ l = files[f][a] OBVIOUS
  <2>2. reading \in Seq(Frame) BY DEF IInv, ReaderOK, ReaderTypes
  <2>3. i = Len(reading) /\ Len(reading) \in Nat /\ reading[i] \in Frame /\ reading[j] \in Frame
    BY <2>2
  <2>4. f \in Header /\ a \in Nat \ {0} /\ reading[j].file \in Header BY <2>1, <2>3 DEF Frame
  <2>5. files[f] \in Seq(Line(f)) BY <2>4 DEF IInv, WriterOK, FilesOK, FileText
  <2>6. a \in 1..Len(files[f]) BY <2>1, <2>4, <2>5
  <2>7. l \in Line(f) /\ l[1] = "include" /\ l[2] = reading[j].file BY <2>1, <2>5, <2>6
  <2>8. l[2] \in Lower(f) BY <2>4, <2>7, LineCases
  <2>9. Rank(reading[j].file) < Rank(f) BY <2>7, <2>8 DEF Lower
  <2>10. j = i \/ Rank(f) < Rank(reading[j].file)
    <3>1. j = i \/ j < i BY <2>3
    <3> QED BY <2>1, <3>1 DEF IInv, ReaderOK, Nested
  <2>11. Rank(f) \in Nat /\ Rank(reading[j].file) \in Nat BY <2>4, RankIsNat
  <2> QED BY <2>1, <2>9, <2>10, <2>11
<1> QED BY <1>1, Invariance, PTL

\* Of all types only the aliases of delegates are defined more than once: the
\* others are defined in one header, once, and that is read once.
THEOREM DefinedAtMostOnce == Spec => []DefinedOnce
<1>1. IInv => DefinedOnce BY DEF IInv, ReaderOK
<1> QED BY <1>1, Invariance, PTL

\* After a program has read a header of a namespace, it has all its types: the
\* chain of includes from the header reaches each header that defines one.
THEOREM NamespacesComplete == Spec => []NamespaceComplete
<1>1. IInv => NamespaceComplete
  <2> SUFFICES ASSUME IInv, NEW n \in Namespace, <<n, "h">> \in seen, reading = << >>,
                      NEW t \in Type, input.namespace[t] = n, Category(t) # "class"
               PROVE t \in defined
    BY DEF NamespaceComplete
  <2>1. stage = "done" /\ written = Len(Headers) /\ input \in Metadata
    BY DEF IInv, ReaderOK, ReaderTypes, WriterOK, WriterTypes
  <2>2. \A h \in Header : Complete(h, files[h])
    <3> SUFFICES ASSUME NEW h \in Header PROVE Complete(h, files[h]) OBVIOUS
    <3>1. PICK i \in 1..Len(Headers) : h = Headers[i] BY HeadersFacts
    <3> QED BY <2>1, <3>1 DEF IInv, WriterOK, Finished
  <2>3. \A h \in seen : \A l : Has(files[h], l) =>
           /\ \A x \in Type : l = Define(x) => x \in defined
           /\ \A g \in Header : l = IncludeOf(g) => g \in seen
    <3>1. \A h, k : Past(h, k) BY DEF Past
    <3> QED BY <3>1 DEF IInv, ReaderOK, Noted, Has
  <2>4. \A h \in seen, g \in Header : Fixed(h, g) => g \in seen
    BY <2>2, <2>3 DEF Complete, IInv, ReaderOK, ReaderTypes
  <2>5. \A l \in {"0", "1", "2", "h"} : <<n, l>> \in Header BY NamedHeaders
  <2>6. <<n, "2">> \in seen
    <3>1. Fixed(<<n, "h">>, <<n, "2">>) BY DEF Fixed
    <3> QED BY <2>4, <2>5, <3>1
  <2>7. <<n, "1">> \in seen /\ Interfaces \in seen
    <3>1. Fixed(<<n, "2">>, <<n, "1">>) /\ Fixed(<<n, "2">>, Interfaces) BY DEF Fixed
    <3> QED BY <2>4, <2>5, <2>6, <3>1, NamedHeaders
  <2>8. <<n, "0">> \in seen /\ Structs \in seen
    <3>1. Fixed(<<n, "1">>, <<n, "0">>) /\ Fixed(<<n, "1">>, Structs) BY DEF Fixed
    <3> QED BY <2>4, <2>5, <2>7, <3>1, NamedHeaders
  <2>9. Home(t) \in seen BY <2>7, <2>8 DEF Home
  <2>10. /\ Home(t) \in Header /\ Category(t) \in Defining
         /\ <<Category(t), t>> \in Body(Home(t))
    BY <2>1, DefinedAtHome
  <2>11. Has(files[Home(t)], Define(t))
    <3>1. PICK j : j = <<Category(t), t>> OBVIOUS
    <3>2. j \in Body(Home(t)) /\ j[1] \in Defining /\ j[2] = t BY <2>10, <3>1
    <3> QED BY <2>2, <2>10, <3>2 DEF Complete
  <2> QED BY <2>3, <2>9, <2>11
<1> QED BY <1>1, Invariance, PTL

\* Whichever headers a program includes, in whatever order, whatever the metadata:
\* a name that is not known where it is read is a delegate's that another namespace
\* repeats, a delegate of a later row, an unresolved type's, or a type's of a
\* namespace that the header and the spanning headers do not include.
THEOREM GapsAreKnown == Spec => []OnlyKnownGaps
<1>1. Init => Known BY InitAllKnown
<1>2. Known /\ [Next]_vars => Known' BY NextAllKnown
<1>3. Known => OnlyKnownGaps BY DEF Known, ReaderKnows
<1> QED BY <1>1, <1>2, <1>3, PTL DEF Spec
=============================================================================
