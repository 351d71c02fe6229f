---------------------------- MODULE Projection -----------------------------
(***************************************************************************)
(* A program includes the headers that HeaderSet has written, in any order. *)
(* The compiler reads each file once, from top to bottom, and knows what it *)
(* has read.                                                                *)
(***************************************************************************)
EXTENDS HeaderSet

VARIABLES
    reading,    \* the files being read and the position in each, outermost first
    seen,       \* the files whose guards are defined
    declared, defined,   \* the types declared and defined so far
    redefined,  \* those defined twice
    missing     \* names that could not be resolved, with the header they are in

reader == <<reading, seen, declared, defined, redefined, missing>>
vars == <<writerVars, reader>>

Init ==
    /\ WriterInit
    /\ reading = <<>> /\ seen = {}
    /\ declared = {} /\ defined = {} /\ redefined = {} /\ missing = {}

Write == WriterNext /\ UNCHANGED reader

\* The program includes the header of a namespace.
Include ==
    /\ stage = "done" /\ reading = <<>>
    /\ \E n \in Namespace :
       /\ <<n, "h">> \notin seen
       /\ reading' = << [file |-> <<n, "h">>, at |-> 1] >>
       /\ seen' = seen \cup {<<n, "h">>}
    /\ UNCHANGED <<writerVars, declared, defined, redefined, missing>>

Top == reading[Len(reading)]
Advanced == [reading EXCEPT ![Len(reading)].at = @ + 1]

\* The compiler reads the next line of the innermost file.
Read ==
    /\ reading # <<>> /\ Top.at <= Len(files[Top.file])
    /\ LET line == files[Top.file][Top.at]
           x == line[2]
       IN
       \/ /\ line[1] = "include" /\ x \notin seen
          /\ reading' = Append(Advanced, [file |-> x, at |-> 1])
          /\ seen' = seen \cup {x}
          /\ UNCHANGED <<declared, defined, redefined, missing>>
       \/ /\ line[1] = "include" /\ x \in seen
          /\ reading' = Advanced
          /\ UNCHANGED <<seen, declared, defined, redefined, missing>>
       \/ /\ line[1] = "declare"
          /\ declared' = declared \cup {x}
          /\ reading' = Advanced
          /\ UNCHANGED <<seen, defined, redefined, missing>>
       \/ /\ line[1] = "define"
          /\ declared' = declared \cup {x} /\ defined' = defined \cup {x}
          /\ redefined' = redefined \cup (defined \cap {x})
          /\ reading' = Advanced
          /\ UNCHANGED <<seen, missing>>
       \/ /\ line[1] \in {"use", "require"}
          /\ missing' = IF x \in (IF line[1] = "use" THEN declared ELSE defined)
                        THEN missing ELSE missing \cup {<<Top.file, line>>}
          /\ reading' = Advanced
          /\ UNCHANGED <<seen, declared, defined, redefined>>
    /\ UNCHANGED writerVars

EndOfFile ==
    /\ reading # <<>> /\ Top.at > Len(files[Top.file])
    /\ reading' = SubSeq(reading, 1, Len(reading) - 1)
    /\ UNCHANGED <<writerVars, seen, declared, defined, redefined, missing>>

Next == Write \/ Include \/ Read \/ EndOfFile

Spec == Init /\ [][Next]_vars

\* Writer and compiler are loops on one thread each.
FairSpec == Spec /\ WF_vars(Next)

-----------------------------------------------------------------------------
(* Properties *)

\* Every variable keeps its type.
TypeOK ==
    /\ input \in Metadata
    /\ written \in 0..Len(Headers)
    /\ stage \in {"body", "front", "done"}
    /\ depends \subseteq Type /\ extern \subseteq {Unresolved}
    /\ forwarded \in Type \cup {None}
    /\ DOMAIN files = Header
    /\ \A i \in 1..Len(reading) : reading[i].file \in Header
    /\ seen \subseteq Header
    /\ declared \subseteq Type \cup {Unresolved}
    /\ defined \subseteq declared

\* The namespaces whose types are in sight once both spanning headers are read.
Spanned ==
    {n \in Namespace : <<"include", <<n, "0">>, None>> \in Range(files[Structs])
                    \/ <<"include", <<n, "1">>, None>> \in Range(files[Interfaces])}

\* What the generator does not provide for.
\* A delegate that another namespace's .0.h repeats may name types that the loop
\* over depends has passed, or has not come to yet.
RepeatedDelegate(h, line) == h[2] = "0" /\ input.namespace[line[3]] # h[1]

\* Delegates keep the order of their rows, whatever they use.
LaterRow(h, line) ==
    /\ h[2] = "0" /\ line[2] # Unresolved
    /\ Category(line[2]) = "delegate" /\ input.row[line[2]] >= input.row[line[3]]

\* Only .2.h, .h and complex_interfaces.h declare unresolved types, as incomplete ones.
UnresolvedType(h, line) ==
    line[2] = Unresolved /\ (line[1] = "require" \/ h[2] \in {"0", "structs"})

\* .2.h and .h drop what they depend on; the spanning headers make up for it
\* only where a struct or an interface names the namespace.
OutOfSight(h, line) ==
    /\ h[2] \in {"2", "h"} /\ line[2] # Unresolved
    /\ input.namespace[line[2]] \notin Spanned \cup {h[1]}

\* Whichever headers a program includes, in whatever order, a name that is not
\* declared (or not defined where that is required) when it is read is one of
\* the four kinds above: in all else the headers are in the right order.
OnlyKnownGaps ==
    \A m \in missing :
        \/ RepeatedDelegate(m[1], m[2]) \/ LaterRow(m[1], m[2])
        \/ UnresolvedType(m[1], m[2]) \/ OutOfSight(m[1], m[2])

\* No type but the alias of a delegate is defined twice in a program.
DefinedOnce == \A t \in redefined : Category(t) = "delegate"

\* A program that includes the header of a namespace has all its types.
NamespaceComplete ==
    \A n \in Namespace : <<n, "h">> \in seen /\ reading = <<>> =>
        {t \in Type : input.namespace[t] = n /\ Category(t) # "class"} \subseteq defined

\* A header is never read inside itself: what it includes has been read when
\* the line after the include is reached, guards or not.
IncludesAreComplete ==
    \A i \in 1..Len(reading) :
        LET r == reading[i] IN
        i < Len(reading) \/ r.at > Len(files[r.file]) \/
            (LET line == files[r.file][r.at] IN
             line[1] = "include" => \A j \in 1..Len(reading) : reading[j].file # line[2])

\* The headers can be included as they are ("it generates projection header
\* files from metadata", README.md:12): all names in them are resolved.
HeadersSelfContained == missing = {}

\* Each header is finished, although the loop over depends adds to what it
\* goes through.
Termination == <>(stage = "done")
=============================================================================
