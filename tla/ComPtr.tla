------------------------------- MODULE ComPtr -------------------------------
(***************************************************************************)
(* com_ptr: counted references to objects. A slot is a com_ptr, a variable  *)
(* of the program or the member of an object, which has one each. An        *)
(* operation is a sequence of the steps that com_ptr is made of; a Release   *)
(* that destroys the object runs its destructor before the rest of them.    *)
(***************************************************************************)
EXTENDS Naturals, Sequences, FiniteSets

CONSTANTS Variable, Object, Null,
          MaxRaw     \* bound on the references to an object held in raw pointers

ASSUME SlotAssumption ==
    /\ Variable \cap Object = {} /\ Null \notin Object
    /\ IsFiniteSet(Variable) /\ IsFiniteSet(Object) /\ MaxRaw \in Nat

Slot == Variable \cup Object

VARIABLES
    m_ptr,       \* what each slot points to
    live,        \* the slots that are constructed and not destroyed
    alive,       \* the objects that are
    count,       \* their reference counts
    raw,         \* how many references the program owns in raw pointers
    steps,       \* the steps that are still to be taken, <<what, slot or object, object or slot>>
    fromInside   \* whether a slot was assigned from a member of an object
                 \* that nothing but this slot kept alive

vars == <<m_ptr, live, alive, count, raw, steps, fromInside>>

Init ==
    /\ m_ptr = [s \in Slot |-> Null]
    /\ live = {} /\ alive = {}
    /\ count = [o \in Object |-> 0]
    /\ raw = [o \in Object |-> 0]
    /\ steps = <<>>
    /\ fromInside = FALSE

-----------------------------------------------------------------------------
(* The steps *)

Next1 == Head(steps)
Taking(what) == steps # <<>> /\ Next1[1] = what
Rest == Tail(steps)

\* Fault: the pointer is cleared when Release has returned.
FaultyClearing(s) == <<<<"release", m_ptr[s], s>>, <<"set", s, Null>>>>

\* unconditional_release_ref clears the pointer before it calls Release.
Clearing(s) == <<<<"set", s, Null>>, <<"release", m_ptr[s], s>>>>

ReleaseRef ==
    /\ Taking("clear")
    /\ steps' = (IF m_ptr[Next1[2]] = Null THEN <<>> ELSE Clearing(Next1[2])) \o Rest
    /\ UNCHANGED <<m_ptr, live, alive, count, raw, fromInside>>

\* The destructor of an object destroys its member. Before that it may call
\* back and have the slot that is just giving it up reset once more.
Destructor(o, s) == {<<<<"clear", o>>>>, <<<<"clear", s>>, <<"clear", o>>>>}

Release ==
    /\ Taking("release")
    /\ LET o == Next1[2] IN
       /\ count' = [count EXCEPT ![o] = @ - 1]
       /\ IF count[o] = 1
          THEN /\ alive' = alive \ {o} /\ live' = live \ {o}
               /\ \E d \in Destructor(o, Next1[3]) : steps' = d \o Rest
          ELSE steps' = Rest /\ UNCHANGED <<alive, live>>
    /\ UNCHANGED <<m_ptr, raw, fromInside>>

Set ==
    /\ Taking("set")
    /\ m_ptr' = [m_ptr EXCEPT ![Next1[2]] = Next1[3]]
    /\ steps' = Rest
    /\ UNCHANGED <<live, alive, count, raw, fromInside>>

\* std::exchange(other.m_ptr, {}).
Take ==
    /\ Taking("take")
    /\ m_ptr' = [m_ptr EXCEPT ![Next1[2]] = m_ptr[Next1[3]], ![Next1[3]] = Null]
    /\ steps' = Rest
    /\ UNCHANGED <<live, alive, count, raw, fromInside>>

AddRef ==
    /\ Taking("addref")
    /\ LET o == m_ptr[Next1[2]] IN
       count' = IF o = Null THEN count ELSE [count EXCEPT ![o] = @ + 1]
    /\ steps' = Rest
    /\ UNCHANGED <<m_ptr, live, alive, raw, fromInside>>

-----------------------------------------------------------------------------
(* The operations *)

idle == steps = <<>> /\ ~fromInside
unchangedObjects == UNCHANGED <<alive, count, raw>>

\* The objects that slot s refers to, one at most.
Referred(s) == {m_ptr[s]} \ {Null}

\* What the program can get at: its variables, and the members of the objects
\* that one can come to from them and from its raw pointers.
Reached(X) ==
    /\ live \cap Variable \subseteq X /\ {o \in Object : raw[o] > 0} \subseteq X
    /\ \A s \in X : Referred(s) \cap alive \subseteq X
Usable == {s \in Slot : \A X \in SUBSET Slot : Reached(X) => s \in X}

\* The objects that live only as long as slot p keeps its own.
Kept(p, X) == \A s \in X \cup {p} : {o \in Referred(s) : count[o] = 1} \subseteq X
KeptBy(p) == {o \in Object : \A X \in SUBSET Object : Kept(p, X) => o \in X}

CopyConstruct(p, q) ==
    /\ idle /\ p \in Variable \ live /\ q \in Usable
    /\ live' = live \cup {p}
    /\ m_ptr' = [m_ptr EXCEPT ![p] = m_ptr[q]]
    /\ steps' = <<<<"addref", p>>>>
    /\ unchangedObjects /\ UNCHANGED fromInside

MoveConstruct(p, q) ==
    /\ idle /\ p \in Variable \ live /\ q \in Usable
    /\ live' = live \cup {p}
    /\ m_ptr' = [m_ptr EXCEPT ![p] = m_ptr[q], ![q] = Null]
    /\ unchangedObjects /\ UNCHANGED <<steps, fromInside>>

Construct(p) ==
    /\ idle /\ p \in Variable \ live
    /\ live' = live \cup {p}
    /\ unchangedObjects /\ UNCHANGED <<m_ptr, steps, fromInside>>

Destroy(p) ==
    /\ idle /\ p \in Variable \cap live
    /\ live' = live \ {p}
    /\ steps' = <<<<"clear", p>>>>
    /\ unchangedObjects /\ UNCHANGED <<m_ptr, fromInside>>

copy_ref(p, o) ==
    IF m_ptr[p] = o THEN <<>> ELSE <<<<"clear", p>>, <<"set", p, o>>, <<"addref", p>>>>

CopyAssign(p, q) ==
    /\ idle /\ {p, q} \subseteq Usable
    /\ steps' = copy_ref(p, m_ptr[q])
    /\ fromInside' = (m_ptr[p] # m_ptr[q] /\ q \in KeptBy(p))
    /\ unchangedObjects /\ UNCHANGED <<m_ptr, live>>

\* Between com_ptrs of different types there is no check for p = q, which
\* cannot be then.
MoveAssign(p, q) ==
    /\ idle /\ {p, q} \subseteq Usable
    /\ steps' = IF p = q THEN <<>> ELSE <<<<"clear", p>>, <<"take", p, q>>>>
    /\ fromInside' = (p # q /\ q \in KeptBy(p))
    /\ unchangedObjects /\ UNCHANGED <<m_ptr, live>>

Swap(p, q) ==
    /\ idle /\ {p, q} \subseteq Usable
    /\ m_ptr' = [m_ptr EXCEPT ![p] = m_ptr[q], ![q] = m_ptr[p]]
    /\ unchangedObjects /\ UNCHANGED <<live, steps, fromInside>>

\* put, put_void and capture: the callee fails, or stores a reference to an
\* object that is new or was there. put asserts that the slot is empty.
Capture(p, o) ==
    /\ idle /\ p \in Usable /\ m_ptr[p] = Null
    /\ m_ptr' = [m_ptr EXCEPT ![p] = o]
    /\ count' = [count EXCEPT ![o] = @ + 1]
    /\ alive' = alive \cup {o}
    /\ live' = live \cup {o}
    /\ UNCHANGED <<raw, steps, fromInside>>

\* QueryInterface adds the reference that the result of as and try_as owns;
\* to = std::move(result). The object may refuse: as throws, try_as empties "to".
As(p, q) ==
    /\ idle /\ {p, q} \subseteq Usable
    /\ \/ /\ m_ptr[q] # Null
          /\ count' = [count EXCEPT ![m_ptr[q]] = @ + 1]
          /\ steps' = <<<<"clear", p>>, <<"set", p, m_ptr[q]>>>>
       \/ steps' = <<<<"clear", p>>>> /\ UNCHANGED count
    /\ UNCHANGED <<m_ptr, live, alive, raw, fromInside>>

Attach(p, o) ==
    /\ idle /\ p \in Usable /\ raw[o] > 0
    /\ raw' = [raw EXCEPT ![o] = @ - 1]
    /\ steps' = <<<<"clear", p>>, <<"set", p, o>>>>
    /\ UNCHANGED <<m_ptr, live, alive, count, fromInside>>

Detach(p) ==
    /\ idle /\ p \in Usable /\ m_ptr[p] # Null /\ raw[m_ptr[p]] < MaxRaw
    /\ raw' = [raw EXCEPT ![m_ptr[p]] = @ + 1]
    /\ m_ptr' = [m_ptr EXCEPT ![p] = Null]
    /\ UNCHANGED <<live, alive, count, steps, fromInside>>

CopyFrom(p, o) ==
    /\ idle /\ p \in Usable /\ raw[o] > 0
    /\ steps' = copy_ref(p, o)
    /\ unchangedObjects /\ UNCHANGED <<m_ptr, live, fromInside>>

CopyTo(p) ==
    /\ idle /\ p \in Usable /\ m_ptr[p] # Null /\ raw[m_ptr[p]] < MaxRaw
    /\ raw' = [raw EXCEPT ![m_ptr[p]] = @ + 1]
    /\ steps' = <<<<"addref", p>>>>
    /\ UNCHANGED <<m_ptr, live, alive, count, fromInside>>

\* The program releases a reference of its own.
ReleaseRaw(o) ==
    /\ idle /\ raw[o] > 0
    /\ raw' = [raw EXCEPT ![o] = @ - 1]
    /\ steps' = <<<<"release", o, o>>>>
    /\ UNCHANGED <<m_ptr, live, alive, count, fromInside>>

Operation ==
    \/ \E p \in Slot : Construct(p) \/ Destroy(p) \/ Detach(p) \/ CopyTo(p)
    \/ \E p, q \in Slot : \/ CopyConstruct(p, q) \/ MoveConstruct(p, q)
                          \/ CopyAssign(p, q) \/ MoveAssign(p, q) \/ Swap(p, q) \/ As(p, q)
    \/ \E p \in Slot, o \in Object : Capture(p, o) \/ Attach(p, o) \/ CopyFrom(p, o)
    \/ \E o \in Object : ReleaseRaw(o)

Step == ReleaseRef \/ Release \/ Set \/ Take \/ AddRef

Next == Operation \/ (Step /\ ~fromInside)

Spec == Init /\ [][Next]_vars

-----------------------------------------------------------------------------
(* Properties *)

TypeOK ==
    /\ m_ptr \in [Slot -> Object \cup {Null}]
    /\ live \subseteq Slot /\ alive = live \cap Object
    /\ raw \in [Object -> 0..MaxRaw]
    /\ count \in [Object -> 0..(Cardinality(Slot) + MaxRaw + 1)]

\* Between two operations an object is alive exactly as long as someone owns a
\* reference to it, and has as many references as owners: none is lost or given
\* up twice, however the operations follow each other, also those of a slot with
\* itself, of slots inside of objects, and of destructors that reset a slot.
CountIsOwners ==
    steps = <<>> =>
    \A o \in Object :
       /\ count[o] = Cardinality({s \in Slot : m_ptr[s] = o}) + raw[o]
       /\ o \in alive <=> count[o] > 0

\* No object is called that is destroyed, and no slot that is: unless a slot was
\* assigned from the inside of what it alone kept alive.
NothingCalledDead ==
    steps # <<>> /\ ~fromInside =>
       /\ Taking("release") => Next1[2] \in alive
       /\ Taking("addref") => m_ptr[Next1[2]] \in alive \cup {Null}
       /\ Taking("take") => {Next1[2], Next1[3]} \subseteq live
       /\ Taking("set") => Next1[2] \in live \/ Next1[3] = Null
=============================================================================
