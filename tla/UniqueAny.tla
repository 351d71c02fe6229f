----------------------------- MODULE UniqueAny ------------------------------
(***************************************************************************)
(* unique_any_t over unique_storage: variables that own a handle and close   *)
(* it. A handle is a value that the system hands out again once it is        *)
(* closed. close is the function of the policy, an operation of the system.  *)
(***************************************************************************)
EXTENDS FiniteSets

CONSTANTS Owner,     \* the variables
          Handle,
          Invalid    \* invalid_value() of the policy

VARIABLES
    m_ptr,    \* the value of each owner that is constructed
    opened,   \* the handles that are open
    free,     \* those the program owns itself, outside of any owner
    misused   \* whether a handle was closed that was not open

vars == <<m_ptr, opened, free, misused>>

Init ==
    /\ m_ptr = [o \in {} |-> Invalid]
    /\ opened = {} /\ free = {}
    /\ misused = FALSE

Constructed == DOMAIN m_ptr
With(o, value) == [p \in Constructed \cup {o} |-> IF p = o THEN value ELSE m_ptr[p]]
Without(o) == [p \in Constructed \ {o} |-> m_ptr[p]]

is_valid(value) == value # Invalid

\* Closes a value when it is valid.
Close(value) ==
    /\ opened' = opened \ {value}
    /\ misused' = (misused \/ (is_valid(value) /\ value \notin opened))

Construct(o) ==
    /\ o \notin Constructed
    /\ m_ptr' = With(o, Invalid)
    /\ UNCHANGED <<opened, free, misused>>

MoveConstruct(o, other) ==
    /\ o \notin Constructed /\ other \in Constructed
    /\ m_ptr' = [With(o, m_ptr[other]) EXCEPT ![other] = Invalid]
    /\ UNCHANGED <<opened, free, misused>>

Destroy(o) ==
    /\ o \in Constructed
    /\ Close(m_ptr[o])
    /\ m_ptr' = Without(o)
    /\ UNCHANGED free

\* operator=(unique_any_t&&), by replace: the own handle is closed, the other's taken.
MoveAssign(o, other) ==
    /\ {o, other} \subseteq Constructed
    /\ IF o = other THEN UNCHANGED vars
       ELSE /\ Close(m_ptr[o])
            /\ m_ptr' = [m_ptr EXCEPT ![o] = m_ptr[other], ![other] = Invalid]
            /\ UNCHANGED free

\* swap: by way of a third owner, which ends without a handle; o = other, too.
Swap(o, other) ==
    /\ {o, other} \subseteq Constructed
    /\ m_ptr' = [m_ptr EXCEPT ![o] = m_ptr[other], ![other] = m_ptr[o]]
    /\ UNCHANGED <<opened, free, misused>>

\* reset() and operator=(nullptr).
Reset(o) ==
    /\ o \in Constructed
    /\ Close(m_ptr[o])
    /\ m_ptr' = With(o, Invalid)
    /\ UNCHANGED free

\* reset(handle): the owner takes a handle of the program over.
ResetTo(o, handle) ==
    /\ o \in Constructed /\ handle \in free
    /\ Close(m_ptr[o])
    /\ m_ptr' = With(o, handle)
    /\ free' = free \ {handle}

\* reset(nullptr) checks the type of its argument and nothing else.
ResetNull(o) == o \in Constructed /\ UNCHANGED vars

\* release(): the handle is the program's.
Release(o) ==
    /\ o \in Constructed
    /\ m_ptr' = With(o, Invalid)
    /\ free' = free \cup ({m_ptr[o]} \ {Invalid})
    /\ UNCHANGED <<opened, misused>>

\* Fault: what the owner had is written over.
FaultyPut(o, handle) ==
    /\ o \in Constructed /\ handle \notin opened
    /\ opened' = opened \cup {handle}
    /\ m_ptr' = With(o, handle)
    /\ UNCHANGED <<free, misused>>

\* put() and operator& reset the owner; the function that is called stores a
\* handle there, one that was just closed perhaps. That it fails is Reset.
Put(o, handle) ==
    /\ o \in Constructed /\ handle \notin opened \ {m_ptr[o]}
    /\ opened' = (opened \ {m_ptr[o]}) \cup {handle}
    /\ misused' = (misused \/ (is_valid(m_ptr[o]) /\ m_ptr[o] \notin opened))
    /\ m_ptr' = With(o, handle)
    /\ UNCHANGED free

\* The program closes a handle of its own.
CloseFree(handle) ==
    /\ handle \in free
    /\ Close(handle)
    /\ free' = free \ {handle}
    /\ UNCHANGED m_ptr

Next ==
    \/ \E o \in Owner : Construct(o) \/ Destroy(o) \/ Reset(o) \/ ResetNull(o) \/ Release(o)
    \/ \E o, other \in Owner : MoveConstruct(o, other) \/ MoveAssign(o, other) \/ Swap(o, other)
    \/ \E o \in Owner, handle \in Handle : ResetTo(o, handle) \/ Put(o, handle)
    \/ \E handle \in Handle : CloseFree(handle)

Spec == Init /\ [][Next]_vars

-----------------------------------------------------------------------------
(* Properties *)

TypeOK ==
    /\ Constructed \subseteq Owner /\ \A o \in Constructed : m_ptr[o] \in Handle \cup {Invalid}
    /\ opened \subseteq Handle /\ free \subseteq Handle
    /\ misused \in BOOLEAN

\* Every open handle is owned once, by a variable or by the program, and every
\* handle that is owned is open: after any operations in any order, of a variable
\* with itself too, none is leaked, closed twice or closed for a later owner of
\* the same value.
OwnedOnce ==
    /\ ~misused
    /\ \A h \in opened : h \in free \/ \E o \in Constructed : m_ptr[o] = h
    /\ \A o \in Constructed : is_valid(m_ptr[o]) => m_ptr[o] \in opened \ free
    /\ free \subseteq opened
    /\ \A o, p \in Constructed : o # p /\ is_valid(m_ptr[o]) => m_ptr[o] # m_ptr[p]
=============================================================================
