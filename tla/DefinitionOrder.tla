-------------------------- MODULE DefinitionOrder --------------------------
(***************************************************************************)
(* What the code generator promises about the order in which it writes     *)
(* type definitions, without saying how the order is found.  Every type    *)
(* reachable from the requested roots through dependencies is written once, *)
(* after everything it depends on; the job is refused only when some types  *)
(* depend on each other in a circle.  TypeDependencyGraph implements this.  *)
(***************************************************************************)
EXTENDS Naturals, Sequences

CONSTANT Type          \* the types of the metadata

VARIABLES deps,        \* deps[t]: the types whose definition t needs
          roots,       \* the types asked for
          order,       \* the types written so far, in order
          outcome      \* "open", then how the job ended

vars == <<deps, roots, order, outcome>>

Written == {order[i] : i \in 1..Len(order)}

Closed(S) == roots \subseteq S /\ \A t \in S : deps[t] \subseteq S

\* The least closed set: what has to be written.
Needed == {t \in Type : \A S \in SUBSET Type : Closed(S) => t \in S}

\* In a finite graph a non-empty set each of whose members has a successor in
\* the set contains a cycle, and every cycle is such a set.
Cyclic == \E S \in SUBSET Needed : S # {} /\ \A s \in S : deps[s] \cap S # {}

Init ==
    /\ deps \in [Type -> SUBSET Type]
    /\ roots \in SUBSET Type
    /\ order = <<>>
    /\ outcome = "open"

\* Fault: t may be written while some of its dependencies are missing.
FaultyWrite(t) ==
    /\ outcome = "open"
    /\ t \in Needed \ Written
    /\ order' = Append(order, t)
    /\ UNCHANGED <<deps, roots, outcome>>

Write(t) ==
    /\ outcome = "open"
    /\ t \in Needed \ Written
    /\ deps[t] \subseteq Written
    /\ order' = Append(order, t)
    /\ UNCHANGED <<deps, roots, outcome>>

\* Fault: the job ends although types that wait for each other are not written.
FaultyFinish ==
    /\ outcome = "open"
    /\ outcome' = "done"
    /\ UNCHANGED <<deps, roots, order>>

Finish ==
    /\ outcome = "open"
    /\ Needed = Written
    /\ outcome' = "done"
    /\ UNCHANGED <<deps, roots, order>>

Refuse ==
    /\ outcome = "open"
    /\ Cyclic
    /\ outcome' = "cyclic"
    /\ UNCHANGED <<deps, roots, order>>

\* Writing a definition may fail for a reason of its own.
GiveUp ==
    /\ outcome = "open"
    /\ Needed # Written
    /\ outcome' = "threw"
    /\ UNCHANGED <<deps, roots, order>>

Next == (\E t \in Type : Write(t)) \/ Finish \/ Refuse \/ GiveUp

Spec == Init /\ [][Next]_vars

-----------------------------------------------------------------------------
(* What follows for whoever implements it *)

TypeOK ==
    /\ deps \in [Type -> SUBSET Type]
    /\ roots \in SUBSET Type
    /\ order \in Seq(Type)
    /\ outcome \in {"open", "done", "cyclic", "threw"}

\* A job that ends well has written nothing without a reason: a type was asked for,
\* or a definition behind it needs it. Metadata has many more types than a header
\* is about, and its reader stops at the first definition that lacks another.
WrittenForAReason ==
    outcome = "done" =>
    \A i \in 1..Len(order) :
        order[i] \in roots \/ \E j \in (i + 1)..Len(order) : order[i] \in deps[order[j]]

\* The job ends well only if no types depend on each other in a circle, and
\* reports a circle only if there is one.
CircleReportedExactly ==
    /\ outcome = "done" => ~Cyclic
    /\ outcome = "cyclic" => Cyclic
=============================================================================
