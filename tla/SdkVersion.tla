----------------------------- MODULE SdkVersion -----------------------------
(***************************************************************************)
(* get_sdk_version: the version of the Windows SDK that the argument "sdk"  *)
(* stands for. The keys below "Installed Roots" come in the order of the    *)
(* registry, which is not the order of versions; a version counts when its  *)
(* Platform.xml is there. A version is a sequence of numbers.               *)
(***************************************************************************)
EXTENDS Naturals, Sequences

CONSTANTS Parts,     \* the numbers in a version; four in the code
          Numbers,   \* what a number of a version may be
          Keys,      \* the sequences of versions the registry may list
          NoVersion

Version == [1..Parts -> Numbers]

VARIABLES
    keys,           \* the keys, in the order of RegEnumKeyA
    platform,       \* the versions with a Platform.xml
    module,         \* the version in the path of the program, if it has one
    index,          \* the key that is looked at
    i,              \* the part of it, 0 before the first
    version_parts, force_newer,
    result,
    pc              \* "module", "keys", "parts", "returned" or "threw"

vars == <<keys, platform, module, index, i, version_parts, force_newer, result, pc>>

Installed == {keys[k] : k \in 1..Len(keys)}

Init ==
    /\ keys \in Keys
    /\ platform \in SUBSET Installed
    /\ module \in {NoVersion} \cup Installed
    /\ index = 1 /\ i = 0
    /\ version_parts = [k \in 1..Parts |-> 0]
    /\ force_newer = FALSE
    /\ result = NoVersion
    /\ pc = "module"

\* The version in the path of the program is taken when it is installed.
OwnVersion ==
    /\ pc = "module"
    /\ IF module \in platform
       THEN pc' = "returned" /\ result' = module
       ELSE pc' = "keys" /\ UNCHANGED result
    /\ UNCHANGED <<keys, platform, module, index, i, version_parts, force_newer>>

NextKey ==
    /\ pc = "keys" /\ index <= Len(keys)
    /\ IF keys[index] \in platform
       THEN pc' = "parts" /\ i' = 1 /\ force_newer' = FALSE /\ UNCHANGED index
       ELSE index' = index + 1 /\ UNCHANGED <<pc, i, force_newer>>
    /\ UNCHANGED <<keys, platform, module, version_parts, result>>

Part == keys[index][i]

\* Fault: a lower part ends the comparison although a part before was higher.
FaultyOlder == Part < version_parts[i]

Older == Part < version_parts[i] /\ ~force_newer

Last == i = Parts

\* One turn of the loop over the parts.
ComparePart ==
    /\ pc = "parts"
    /\ IF Older
       THEN /\ pc' = "keys" /\ index' = index + 1
            /\ UNCHANGED <<i, version_parts, force_newer, result>>
       ELSE /\ version_parts' = [version_parts EXCEPT ![i] = Part]
            /\ force_newer' = (force_newer \/ Part > version_parts[i])
            /\ IF Last
               THEN pc' = "keys" /\ result' = keys[index] /\ index' = index + 1 /\ UNCHANGED i
               ELSE i' = i + 1 /\ UNCHANGED <<pc, result, index>>
    /\ UNCHANGED <<keys, platform, module>>

AfterKeys ==
    /\ pc = "keys" /\ index > Len(keys)
    /\ pc' = IF result = NoVersion THEN "threw" ELSE "returned"
    /\ UNCHANGED <<keys, platform, module, index, i, version_parts, force_newer, result>>

Done == pc \in {"returned", "threw"} /\ UNCHANGED vars

Next == OwnVersion \/ NextKey \/ ComparePart \/ AfterKeys \/ Done

Spec == Init /\ [][Next]_vars

-----------------------------------------------------------------------------
(* Properties *)

TypeOK ==
    /\ index \in 1..(Len(keys) + 1) /\ i \in 0..Parts
    /\ version_parts \in Version /\ force_newer \in BOOLEAN
    /\ result \in Version \cup {NoVersion}
    /\ pc \in {"module", "keys", "parts", "returned", "threw"}

\* v is an older version than w.
Precedes(v, w) == \E k \in 1..Parts :
    v[k] < w[k] /\ \A j \in 1..(k - 1) : v[j] = w[j]

\* In whatever order the registry lists the versions, the one returned is
\* installed, and none that is installed is newer, unless it is the program's own.
NewestReturned ==
    pc = "returned" =>
    /\ result \in platform
    /\ result # module => \A v \in platform : ~Precedes(result, v)

\* Only without an installed version is there none to return.
ThrowsWithoutSdk == pc = "threw" => platform = {}

\* Between two keys, what the next one is compared with is the newest so far:
\* a key that was given up in the middle has left nothing of itself behind.
PartsOfResult ==
    pc = "keys" /\ result # NoVersion => version_parts = result
=============================================================================
