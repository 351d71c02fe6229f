----------------------------- MODULE MCRuntime ------------------------------
(***************************************************************************)
(* What the generated headers bring with them, for TLC: com_ptr and          *)
(* unique_any_t, which have nothing to do with each other. A behaviour is    *)
(* one of one of them.                                                       *)
(***************************************************************************)
EXTENDS ComPtr, TLC

CONSTANTS Owner, Handle

\* invalid_value() of a policy is no handle.
ASSUME NullAssumption == Null \notin Handle

VARIABLES handles, opened, free, misused,   \* UniqueAny
          part

handleVars == <<handles, opened, free, misused>>

U == INSTANCE UniqueAny WITH m_ptr <- handles, Invalid <- Null

RuntimeInit == part \in {"pointers", "handles"} /\ Init /\ U!Init

RuntimeNext ==
    /\ part' = part
    /\ \/ part = "pointers" /\ Next /\ UNCHANGED handleVars
       \/ part = "handles" /\ U!Next /\ UNCHANGED vars

RuntimeSpec == RuntimeInit /\ [][RuntimeNext]_<<vars, handleVars, part>>

Symmetry ==
    Permutations(Variable) \cup Permutations(Object) \cup Permutations(Owner) \cup Permutations(Handle)

\* Nothing is referred to too often or too little, or called when it is gone: see ComPtr.
ReferencesCounted == TypeOK /\ CountIsOwners /\ NothingCalledDead

\* Each open handle has one owner: see UniqueAny.
HandlesOwnedOnce == U!TypeOK /\ U!OwnedOnce
=============================================================================
