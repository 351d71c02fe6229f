------------------------------- MODULE Filter -------------------------------
(***************************************************************************)
(* winmd::reader::filter: rules that include or exclude types by a prefix   *)
(* of their name, sorted when the filter is made. Names are sequences of    *)
(* characters, of which only the dot has a meaning.                         *)
(***************************************************************************)
EXTENDS Naturals, Sequences, SequencesExt

CONSTANTS Dot,
          Types,       \* [space, name]: the types that are asked about; no dot in a name
          RuleTexts,   \* what the rules may say
          MaxRules,    \* bound on the rules of each sort
          ShortSort    \* how many elements std::sort puts in place by insertion (external)

VARIABLES
    given,     \* the rules in the order they are pushed: includes, then excludes
    sorted,    \* how many of them std::sort has put in place
    m_rules

vars == <<given, sorted, m_rules>>

Rule == [prefix : RuleTexts, include : BOOLEAN]

\* The rules of one sort come from a std::set: none twice.
Rules(include) ==
    {[i \in DOMAIN s |-> [prefix |-> s[i], include |-> include]] :
       s \in {s \in UNION {[1..n -> RuleTexts] : n \in 0..MaxRules} : IsInjective(s)}}

Init ==
    /\ \E i \in Rules(TRUE), e \in Rules(FALSE) : given = i \o e
    /\ sorted = 0
    /\ m_rules = <<>>

\* Fault: among rules of one length, the includes come first.
FaultyGoesBefore(lhs, rhs) ==
    \/ Len(lhs.prefix) > Len(rhs.prefix)
    \/ Len(lhs.prefix) = Len(rhs.prefix) /\ lhs.include

\* The order given to std::sort. Two excluding rules of one length go before
\* each other, which std::sort does not allow for.
GoesBefore(lhs, rhs) ==
    \/ Len(lhs.prefix) > Len(rhs.prefix)
    \/ Len(lhs.prefix) = Len(rhs.prefix) /\ ~lhs.include

Put(r, place) == InsertAt(m_rules, place, r)

\* std::sort of a short sequence (external): the next rule goes to the front if it
\* goes before the first one, and otherwise back over the rules that it goes before.
InsertRule ==
    /\ sorted < Len(given) /\ Len(given) <= ShortSort
    /\ LET r == given[sorted + 1]
           Passed(k) == \A j \in (k + 1)..sorted : GoesBefore(r, m_rules[j])
           place == IF sorted > 0 /\ GoesBefore(r, m_rules[1]) THEN 0
                    ELSE CHOOSE k \in 0..sorted :
                           Passed(k) /\ (k = 0 \/ ~GoesBefore(r, m_rules[k]))
       IN  m_rules' = Put(r, place + 1)
    /\ sorted' = sorted + 1
    /\ UNCHANGED given

\* An excluding rule goes before itself and others of its length, which no order does.
OrderIsStrict == \A i \in DOMAIN given : given[i].include

\* The ways to arrange n elements.
Arrangements(n) == {p \in [1..n -> 1..n] : \A k \in 1..n : \E i \in 1..n : p[i] = k}

\* std::sort as the standard has it (external): some arrangement in which none goes before
\* one in front of it. With excluding rules it is undefined, and in a sequence that is not
\* short this is any arrangement: that it could leave the sequence is not modelled.
Sort ==
    /\ sorted = 0 /\ given # <<>>
    /\ Len(given) > ShortSort \/ OrderIsStrict
    /\ \E p \in Arrangements(Len(given)) :
         /\ m_rules' = [i \in 1..Len(given) |-> given[p[i]]]
         /\ OrderIsStrict =>
              \A i, j \in 1..Len(given) : i < j => ~GoesBefore(given[p[j]], given[p[i]])
    /\ sorted' = Len(given)
    /\ UNCHANGED given

Done == sorted = Len(given) /\ UNCHANGED vars

Next == InsertRule \/ Sort \/ Done

Spec == Init /\ [][Next]_vars

-----------------------------------------------------------------------------
(* match and includes *)

Match(type, match) ==
    IF Len(match) <= Len(type.space)
    THEN IsPrefix(match, type.space)
    ELSE /\ IsPrefix(type.space, match)
         /\ match[Len(type.space) + 1] = Dot
         /\ IsPrefix(SubSeq(match, Len(type.space) + 2, Len(match)), type.name)

Includes(type) ==
    \/ m_rules = <<>>
    \/ \E i \in DOMAIN m_rules :
       /\ Match(type, m_rules[i].prefix) /\ m_rules[i].include
       /\ \A j \in 1..(i - 1) : ~Match(type, m_rules[j].prefix)

-----------------------------------------------------------------------------
(* Properties *)

TypeOK ==
    /\ sorted \in 0..Len(given)
    /\ m_rules \in Seq(Rule) /\ Len(m_rules) = sorted
    /\ ToSet(m_rules) = {given[i] : i \in 1..sorted}

FullName(t) == t.space \o <<Dot>> \o t.name

\* What the filter decides of a type depends on which rules there are and not
\* on their order: the longest prefix of its full name decides, an exclude
\* over an include of the same text, and without any rule all is included. Long
\* sequences with excluding rules are an exception, since their sort is undefined.
LongestPrefixDecides ==
    sorted = Len(given) /\ (Len(given) <= ShortSort \/ OrderIsStrict) =>
    \A t \in Types :
       LET applies == {r \in ToSet(given) : IsPrefix(r.prefix, FullName(t))}
           longest == {r \in applies :
                         \A s \in applies : Len(s.prefix) <= Len(r.prefix)}
       IN  Includes(t) <=> \/ given = <<>>
                           \/ longest # {} /\ \A r \in longest : r.include
=============================================================================
