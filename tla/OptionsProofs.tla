--------------------------- MODULE OptionsProofs ----------------------------
(***************************************************************************)
(* Proofs about OptionReaders for command lines of any length, response      *)
(* files nested as deep as streams can be open, file systems and registries  *)
(* of any size: which SDK is chosen, which files are found, which option a   *)
(* value belongs to, and how a line is cut into arguments.                   *)
(***************************************************************************)
EXTENDS OptionReaders, TLAPS, FiniteSetTheorems, SequenceTheorems, WellFoundedInduction

-----------------------------------------------------------------------------
(* The choice of an SDK *)

\* What a key is compared with: the newest version so far, or zeros.
Newest == IF result = None THEN [k \in 1..Parts |-> 0] ELSE result

\* The installed versions before the key that is looked at.
Seen == {keys[k] : k \in 1..(index - 1)} \cap platform

SdkTypes ==
    /\ keys \in Seq(S!Version)
    /\ platform \in SUBSET S!Installed /\ module \in {None} \cup S!Installed
    /\ S!TypeOK

NewestSoFar ==
    pc \in {"keys", "parts"} =>
    /\ result = None => Seen = {}
    /\ result # None => result \in Seen /\ \A v \in Seen : ~S!Precedes(result, v)

\* In the middle of a key its parts have taken the place of those before them,
\* which they are no lower than; force_newer says that one of them is higher.
Compared ==
    /\ pc = "module" => index = 1 /\ result = None
    /\ pc \in {"module", "keys"} => version_parts = Newest
    /\ pc = "parts" =>
       /\ index <= Len(keys) /\ keys[index] \in platform /\ i \in 1..Parts
       /\ \A k \in 1..(i - 1) : version_parts[k] = keys[index][k]
       /\ \A k \in i..Parts : version_parts[k] = Newest[k]
       /\ ~force_newer => \A k \in 1..(i - 1) : keys[index][k] = Newest[k]
       /\ force_newer => S!Precedes(Newest, keys[index])

Chosen == S!NewestReturned /\ S!ThrowsWithoutSdk

SdkInv == SdkTypes /\ NewestSoFar /\ Compared /\ Chosen

LEMMA Zeros == [k \in 1..Parts |-> 0] \in S!Version
BY VersionsAssumption DEF S!Version

LEMMA VersionNumbers ==
    ASSUME NEW v \in S!Version, NEW k \in 1..Parts
    PROVE  v[k] \in Nat
BY VersionsAssumption DEF S!Version

LEMMA NoneIsNoVersion == None \notin S!Version
BY VersionsAssumption DEF S!Version

LEMMA SameVersion ==
    ASSUME NEW v \in S!Version, NEW w \in S!Version, \A k \in 1..Parts : v[k] = w[k]
    PROVE  v = w
<1>1. v = [k \in 1..Parts |-> v[k]] /\ w = [k \in 1..Parts |-> w[k]] BY Zenon DEF S!Version
<1>2. [k \in 1..Parts |-> v[k]] = [k \in 1..Parts |-> w[k]] OBVIOUS
<1> QED BY <1>1, <1>2

LEMMA PrecedesTransitive ==
    ASSUME NEW u \in S!Version, NEW v \in S!Version, NEW w \in S!Version,
           S!Precedes(u, v), S!Precedes(v, w)
    PROVE  S!Precedes(u, w)
<1>1. PICK k \in 1..Parts : u[k] < v[k] /\ \A j \in 1..(k - 1) : u[j] = v[j] BY DEF S!Precedes
<1>2. PICK h \in 1..Parts : v[h] < w[h] /\ \A j \in 1..(h - 1) : v[j] = w[j] BY DEF S!Precedes
<1>3. /\ Parts \in Nat
      /\ \A j \in 1..Parts : u[j] \in Nat /\ v[j] \in Nat /\ w[j] \in Nat
  BY VersionsAssumption, VersionNumbers
<1>4. CASE k <= h
  <2>1. u[k] < w[k] /\ \A j \in 1..(k - 1) : u[j] = w[j] BY <1>1, <1>2, <1>3, <1>4
  <2> QED BY <2>1 DEF S!Precedes
<1>5. CASE h < k
  <2>1. u[h] < w[h] /\ \A j \in 1..(h - 1) : u[j] = w[j] BY <1>1, <1>2, <1>3, <1>5
  <2> QED BY <2>1 DEF S!Precedes
<1> QED BY <1>1, <1>2, <1>3, <1>4, <1>5

LEMMA PrecedesIrreflexive == ASSUME NEW v \in S!Version PROVE ~S!Precedes(v, v)
BY VersionNumbers DEF S!Precedes

LEMMA SdkInit == S!Init => SdkInv
<1> SUFFICES ASSUME S!Init PROVE SdkInv OBVIOUS
<1> USE DEF S!Init
<1>1. SdkTypes
  <2>1. keys \in Seq(S!Version) BY VersionsAssumption DEF S!Version
  <2>2. index \in 1..(Len(keys) + 1) /\ i \in 0..Parts BY <2>1, VersionsAssumption
  <2>3. version_parts \in S!Version BY Zeros
  <2>4. S!TypeOK BY <2>2, <2>3 DEF S!TypeOK
  <2> QED BY <2>1, <2>4 DEF SdkTypes
<1> QED BY <1>1 DEF SdkInv, Newest, NewestSoFar, Compared, Chosen, S!NewestReturned, S!ThrowsWithoutSdk

LEMMA PlatformVersions == ASSUME SdkInv PROVE platform \subseteq S!Version
BY DEF SdkInv, SdkTypes, S!Installed

LEMMA SdkOwn == ASSUME SdkInv, S!OwnVersion PROVE SdkInv'
<1> USE DEF S!OwnVersion
<1>1. SdkTypes'
  <2>1. platform \subseteq S!Version BY PlatformVersions
  <2> QED BY <2>1 DEF SdkInv, SdkTypes, S!TypeOK, S!Installed
<1>2. CASE module \in platform
  <2>1. pc' = "returned" /\ result' = module /\ module' = module /\ platform' = platform BY <1>2
  <2> QED BY <1>1, <1>2, <2>1 DEF SdkInv, NewestSoFar, Compared, Chosen, S!NewestReturned,
        S!ThrowsWithoutSdk
<1>3. CASE module \notin platform
  <2>1. Seen' = {} /\ result' = None /\ pc' = "keys"
    <3>1. index = 1 /\ index' = index /\ result = None BY DEF SdkInv, Compared
    <3>2. 1..(index' - 1) = {} BY <3>1
    <3> QED BY <1>3, <3>1, <3>2 DEF Seen
  <2> QED BY <1>1, <1>3, <2>1 DEF SdkInv, NewestSoFar, Compared, Chosen, S!NewestReturned,
        S!ThrowsWithoutSdk, Newest
<1> QED BY <1>2, <1>3

\* What is seen when the next key is looked at.
LEMMA SeenNext ==
    ASSUME SdkInv, index \in 1..Len(keys), index' = index + 1, keys' = keys,
           platform' = platform
    PROVE  Seen' = Seen \cup ({keys[index]} \cap platform)
<1>1. index \in Nat /\ index' - 1 = index BY DEF SdkInv, SdkTypes, S!TypeOK
<1>2. 1..(index' - 1) = 1..(index - 1) \cup {index} BY <1>1
<1> QED BY <1>2 DEF Seen

LEMMA SdkNextKey == ASSUME SdkInv, S!NextKey PROVE SdkInv'
<1> USE DEF S!NextKey
<1>1. /\ keys \in Seq(S!Version) /\ Len(keys) \in Nat /\ index \in 1..Len(keys)
      /\ Parts \in Nat \ {0}
  BY VersionsAssumption DEF SdkInv, SdkTypes, S!TypeOK
<1>2. CASE keys[index] \in platform
  <2>1. /\ pc' = "parts" /\ i' = 1 /\ force_newer' = FALSE /\ index' = index
        /\ UNCHANGED <<keys, platform, module, version_parts, result>>
    BY <1>2
  <2>2. Seen' = Seen /\ Newest' = Newest BY <2>1 DEF Seen, Newest
  <2>3. SdkTypes'
    <3>1. i' \in 0..Parts BY <1>1, <2>1
    <3>2. S!TypeOK' BY <2>1, <3>1 DEF SdkInv, SdkTypes, S!TypeOK
    <3> QED BY <2>1, <3>2 DEF SdkInv, SdkTypes, S!Installed
  <2>4. NewestSoFar'
    <3>1. /\ result = None => Seen = {}
          /\ result # None => result \in Seen /\ \A v \in Seen : ~S!Precedes(result, v)
      BY DEF SdkInv, NewestSoFar
    <3> QED BY <2>1, <2>2, <3>1 DEF NewestSoFar
  <2>5. version_parts = Newest BY DEF SdkInv, Compared
  <2>6. Compared'
    <3>1. 1..(i' - 1) = {} /\ i' \in 1..Parts BY <1>1, <2>1
    <3> QED BY <1>1, <1>2, <2>1, <2>2, <2>5, <3>1 DEF Compared
  <2>7. Chosen' BY <2>1 DEF Chosen, S!NewestReturned, S!ThrowsWithoutSdk
  <2> QED BY <2>3, <2>4, <2>6, <2>7 DEF SdkInv
<1>3. CASE keys[index] \notin platform
  <2>1. /\ pc' = "keys" /\ index' = index + 1
        /\ UNCHANGED <<keys, platform, module, i, version_parts, force_newer, result>>
    BY <1>3
  <2>2. Seen' = Seen /\ Newest' = Newest BY <1>1, <1>3, <2>1, SeenNext DEF Newest
  <2>3. SdkTypes'
    <3>1. i' \in 0..Parts BY <2>1 DEF SdkInv, SdkTypes, S!TypeOK
    <3>2. S!TypeOK' BY <2>1, <3>1 DEF SdkInv, SdkTypes, S!TypeOK
    <3> QED BY <2>1, <3>2 DEF SdkInv, SdkTypes, S!Installed
  <2>4. NewestSoFar'
    <3>1. /\ result = None => Seen = {}
          /\ result # None => result \in Seen /\ \A v \in Seen : ~S!Precedes(result, v)
      BY DEF SdkInv, NewestSoFar
    <3> QED BY <2>1, <2>2, <3>1 DEF NewestSoFar
  <2>5. Compared' BY <2>1, <2>2 DEF SdkInv, Compared
  <2>7. Chosen' BY <2>1 DEF Chosen, S!NewestReturned, S!ThrowsWithoutSdk
  <2> QED BY <2>3, <2>4, <2>5, <2>7 DEF SdkInv
<1> QED BY <1>2, <1>3

LEMMA SdkComparePart == ASSUME SdkInv, S!ComparePart PROVE SdkInv'
<1> USE DEF S!ComparePart
<1>1. /\ keys \in Seq(S!Version) /\ Len(keys) \in Nat /\ index \in 1..Len(keys)
      /\ Parts \in Nat \ {0} /\ i \in 1..Parts /\ keys[index] \in S!Version
      /\ keys[index] \in platform /\ version_parts \in S!Version /\ pc = "parts"
      /\ force_newer \in BOOLEAN
  BY VersionsAssumption DEF SdkInv, SdkTypes, S!TypeOK, Compared
<1>2. result \in S!Version \cup {None} /\ Newest \in S!Version /\ Seen \subseteq S!Version
  BY Zeros, PlatformVersions DEF SdkInv, SdkTypes, S!TypeOK, Newest, Seen
<1>3. PICK key : key = keys[index] OBVIOUS
<1>4. PICK base : base = Newest OBVIOUS
<1>5. /\ key \in S!Version /\ base \in S!Version
      /\ \A k \in 1..Parts : key[k] \in Nat /\ base[k] \in Nat /\ version_parts[k] \in Nat
  BY <1>1, <1>2, <1>3, <1>4, VersionNumbers
<1>6. /\ \A k \in 1..(i - 1) : version_parts[k] = key[k]
      /\ \A k \in i..Parts : version_parts[k] = base[k]
      /\ ~force_newer => \A k \in 1..(i - 1) : key[k] = base[k]
      /\ force_newer => S!Precedes(base, key)
  BY <1>1, <1>3, <1>4 DEF SdkInv, Compared
<1>7. version_parts[i] = base[i] BY <1>1, <1>6
<1>8. keys' = keys /\ platform' = platform /\ module' = module OBVIOUS
<1>9. /\ result = None => Seen = {}
      /\ result # None => result \in Seen /\ \A v \in Seen : ~S!Precedes(result, v)
  BY <1>1 DEF SdkInv, NewestSoFar
<1>10. CASE S!Older
  <2>1. /\ pc' = "keys" /\ index' = index + 1
        /\ UNCHANGED <<i, version_parts, force_newer, result>>
    BY <1>10
  <2>2. ~force_newer /\ key[i] < base[i] /\ \A k \in 1..(i - 1) : key[k] = base[k]
    BY <1>3, <1>6, <1>7, <1>10 DEF S!Older, S!Part
  <2>3. S!Precedes(key, base) BY <1>1, <2>2 DEF S!Precedes
  <2>4. ~S!Precedes(base, key) BY <1>5, <2>3, PrecedesTransitive, PrecedesIrreflexive
  <2>5. result # None
    <3>1. SUFFICES ASSUME result = None PROVE FALSE OBVIOUS
    <3>2. base[i] = 0 BY <1>1, <1>4, <3>1 DEF Newest
    <3> QED BY <1>1, <1>5, <2>2, <3>2
  <2>6. base = result BY <1>4, <2>5 DEF Newest
  <2>7. Seen' = Seen \cup {key} BY <1>1, <1>3, <1>8, <2>1, SeenNext
  <2>8. Newest' = Newest BY <2>1 DEF Newest
  <2>9. SdkTypes' BY <1>1, <1>8, <2>1 DEF SdkInv, SdkTypes, S!TypeOK, S!Installed
  <2>10. NewestSoFar'
    <3>1. result' \in Seen' /\ \A v \in Seen' : ~S!Precedes(result', v)
      BY <1>9, <2>1, <2>4, <2>5, <2>6, <2>7
    <3> QED BY <2>1, <2>5, <3>1 DEF NewestSoFar
  <2>11. version_parts = Newest
    <3>1. \A k \in 1..Parts : version_parts[k] = base[k] BY <1>1, <1>6, <2>2
    <3> QED BY <1>1, <1>4, <1>5, <3>1, SameVersion
  <2>12. Compared' BY <2>1, <2>8, <2>11 DEF Compared
  <2>13. Chosen' BY <2>1 DEF Chosen, S!NewestReturned, S!ThrowsWithoutSdk
  <2> QED BY <2>9, <2>10, <2>12, <2>13 DEF SdkInv
<1>11. CASE ~S!Older
  <2>1. /\ version_parts' = [version_parts EXCEPT ![i] = key[i]]
        /\ force_newer' = (force_newer \/ key[i] > base[i])
    BY <1>3, <1>7, <1>11 DEF S!Part
  <2>2. force_newer' \in BOOLEAN BY <1>1, <2>1
  <2>3. version_parts' \in S!Version
    <3>1. key[i] \in Numbers BY <1>1, <1>5 DEF S!Version
    <3> QED BY <1>1, <2>1, <3>1 DEF S!Version
  <2>4. /\ \A k \in 1..i : version_parts'[k] = key[k]
        /\ \A k \in (i + 1)..Parts : version_parts'[k] = base[k]
    <3>1. \A k \in 1..Parts : version_parts'[k] = IF k = i THEN key[i] ELSE version_parts[k]
      BY <1>1, <2>1 DEF S!Version
    <3> QED BY <1>1, <1>6, <3>1
  <2>5. ~force_newer' => \A k \in 1..i : key[k] = base[k]
    <3>1. SUFFICES ASSUME ~force_newer' PROVE \A k \in 1..i : key[k] = base[k] OBVIOUS
    <3>2. ~force_newer /\ ~(key[i] > base[i]) BY <2>1, <3>1
    <3>3. ~(key[i] < base[i]) BY <1>3, <1>7, <1>11, <3>2 DEF S!Older, S!Part
    <3>4. key[i] = base[i] BY <1>1, <1>5, <3>2, <3>3
    <3> QED BY <1>1, <1>6, <3>2, <3>4
  <2>6. force_newer' => S!Precedes(base, key)
    <3>1. CASE force_newer BY <1>6, <3>1
    <3>2. CASE ~force_newer /\ key[i] > base[i]
      <4>1. base[i] < key[i] /\ \A k \in 1..(i - 1) : base[k] = key[k] BY <1>1, <1>5, <1>6, <3>2
      <4> QED BY <1>1, <4>1 DEF S!Precedes
    <3> QED BY <2>1, <3>1, <3>2
  <2>7. CASE S!Last
    <3>1. pc' = "keys" /\ result' = key /\ index' = index + 1 /\ i' = i
      BY <1>3, <1>11, <2>7
    <3>2. Seen' = Seen \cup {key} BY <1>1, <1>3, <1>8, <3>1, SeenNext
    <3>3. key # None BY <1>5, NoneIsNoVersion
    <3>4. \A v \in Seen' : ~S!Precedes(key, v)
      <4>1. ~S!Precedes(key, key) BY <1>5, PrecedesIrreflexive
      <4>2. ASSUME NEW v \in Seen PROVE ~S!Precedes(key, v)
        <5>1. result # None /\ base = result /\ ~S!Precedes(base, v) /\ v \in S!Version
          BY <1>2, <1>4, <1>9, <4>2 DEF Newest
        <5>2. CASE force_newer' BY <1>5, <2>6, <5>1, <5>2, PrecedesTransitive
        <5>3. CASE ~force_newer'
          <6>1. \A k \in 1..Parts : key[k] = base[k] BY <1>1, <2>5, <2>7, <5>3 DEF S!Last
          <6>2. key = base BY <1>5, <6>1, SameVersion
          <6> QED BY <5>1, <6>2
        <5> QED BY <2>2, <5>2, <5>3
      <4> QED BY <3>2, <4>1, <4>2
    <3>5. NewestSoFar' BY <3>1, <3>2, <3>3, <3>4 DEF NewestSoFar
    <3>6. version_parts' = key
      <4>1. \A k \in 1..Parts : version_parts'[k] = key[k] BY <2>4, <2>7 DEF S!Last
      <4> QED BY <1>5, <2>3, <4>1, SameVersion
    <3>7. Compared' BY <3>1, <3>3, <3>6 DEF Compared, Newest
    <3>8. SdkTypes'
      <4>1. S!TypeOK' BY <1>1, <1>5, <1>8, <2>2, <2>3, <3>1 DEF S!TypeOK
      <4> QED BY <1>8, <4>1 DEF SdkInv, SdkTypes, S!Installed
    <3>9. Chosen' BY <3>1 DEF Chosen, S!NewestReturned, S!ThrowsWithoutSdk
    <3> QED BY <3>5, <3>7, <3>8, <3>9 DEF SdkInv
  <2>8. CASE ~S!Last
    <3>1. i' = i + 1 /\ UNCHANGED <<pc, result, index>> BY <1>11, <2>8
    <3>2. i' \in 1..Parts /\ i' - 1 = i BY <1>1, <2>8, <3>1 DEF S!Last
    <3>3. Seen' = Seen /\ Newest' = Newest BY <1>8, <3>1 DEF Seen, Newest
    <3>4. NewestSoFar' BY <1>8, <3>1, <3>3 DEF SdkInv, NewestSoFar
    <3>5. Compared'
      <4>1. \A k \in 1..(i' - 1) : version_parts'[k] = keys'[index'][k]
        BY <1>3, <1>8, <2>4, <3>1, <3>2
      <4>2. \A k \in i'..Parts : version_parts'[k] = Newest'[k] BY <1>4, <2>4, <3>1, <3>3
      <4>3. ~force_newer' => \A k \in 1..(i' - 1) : keys'[index'][k] = Newest'[k]
        BY <1>3, <1>4, <1>8, <2>5, <3>1, <3>2, <3>3
      <4>4. force_newer' => S!Precedes(Newest', keys'[index'])
        BY <1>3, <1>4, <1>8, <2>6, <3>1, <3>3
      <4>5. pc' = "parts" /\ index' <= Len(keys') /\ keys'[index'] \in platform'
        BY <1>1, <1>8, <3>1
      <4> QED BY <3>2, <4>1, <4>2, <4>3, <4>4, <4>5 DEF Compared, S!Precedes
    <3>6. SdkTypes'
      <4>1. S!TypeOK' BY <1>1, <1>2, <1>8, <2>2, <2>3, <3>1, <3>2 DEF S!TypeOK
      <4> QED BY <1>8, <4>1 DEF SdkInv, SdkTypes, S!Installed
    <3>7. Chosen' BY <1>1, <3>1 DEF Chosen, S!NewestReturned, S!ThrowsWithoutSdk
    <3> QED BY <3>4, <3>5, <3>6, <3>7 DEF SdkInv
  <2> QED BY <2>7, <2>8
<1> QED BY <1>10, <1>11

LEMMA SdkAfterKeys == ASSUME SdkInv, S!AfterKeys PROVE SdkInv'
<1> USE DEF S!AfterKeys
<1>1. pc = "keys" /\ index > Len(keys)
      /\ UNCHANGED <<keys, platform, module, index, i, version_parts, force_newer, result>>
  OBVIOUS
<1>2. Seen = platform
  <2>1. keys \in Seq(S!Version) /\ index = Len(keys) + 1 /\ Len(keys) \in Nat
    BY <1>1 DEF SdkInv, SdkTypes, S!TypeOK
  <2>2. 1..(index - 1) = 1..Len(keys) BY <2>1
  <2>3. platform \subseteq S!Installed BY DEF SdkInv, SdkTypes
  <2> QED BY <2>2, <2>3 DEF Seen, S!Installed
<1>3. CASE result = None
  <2>1. pc' = "threw" BY <1>3
  <2> QED BY <1>1, <1>2, <1>3, <2>1 DEF SdkInv, SdkTypes, NewestSoFar, Compared, Chosen,
        S!TypeOK, S!Installed, S!NewestReturned, S!ThrowsWithoutSdk
<1>4. CASE result # None
  <2>1. pc' = "returned" BY <1>4
  <2>2. result \in platform /\ \A v \in platform : ~S!Precedes(result, v)
    BY <1>1, <1>2, <1>4 DEF SdkInv, NewestSoFar
  <2>3. Chosen' BY <1>1, <2>1, <2>2 DEF Chosen, S!NewestReturned, S!ThrowsWithoutSdk
  <2> QED BY <1>1, <2>1, <2>3 DEF SdkInv, SdkTypes, NewestSoFar, Compared, S!TypeOK, S!Installed
<1> QED BY <1>3, <1>4

LEMMA SdkAlone ==
    ASSUME part = "sdk" => SdkInv, [OptionsNext]_optionsVars
    PROVE  part' = "sdk" => SdkInv'
<1>1. part' = part BY DEF OptionsNext, optionsVars
<1>2. CASE part = "sdk"
  <2>1. [S!Next]_(S!vars)
    BY <1>2 DEF OptionsNext, optionsVars, sdkVars, commandVars, lineVars, vars, S!vars
  <2>2. CASE S!OwnVersion BY <1>2, <2>2, SdkOwn
  <2>3. CASE S!NextKey BY <1>2, <2>3, SdkNextKey
  <2>4. CASE S!ComparePart BY <1>2, <2>4, SdkComparePart
  <2>5. CASE S!AfterKeys BY <1>2, <2>5, SdkAfterKeys
  <2>6. CASE UNCHANGED S!vars
    <3>1. UNCHANGED <<keys, platform, module, index, i, version_parts, force_newer, result, pc>>
      BY <2>6 DEF S!vars
    <3>2. SdkInv BY <1>2
    <3>3. SdkTypes' BY <3>1, <3>2 DEF SdkInv, SdkTypes, S!TypeOK, S!Installed
    <3>4. Seen' = Seen /\ Newest' = Newest BY <3>1 DEF Seen, Newest
    <3>5. NewestSoFar' BY <3>1, <3>2, <3>4 DEF SdkInv, NewestSoFar
    <3>6. Compared' BY <3>1, <3>2, <3>4 DEF SdkInv, Compared
    <3>7. Chosen' BY <3>1, <3>2 DEF SdkInv, Chosen, S!NewestReturned, S!ThrowsWithoutSdk
    <3> QED BY <3>3, <3>5, <3>6, <3>7 DEF SdkInv
  <2> QED BY <2>1, <2>2, <2>3, <2>4, <2>5, <2>6 DEF S!Next, S!Done
<1> QED BY <1>1, <1>2

-----------------------------------------------------------------------------
(* What is read, and the options it may name *)

\* A set of numbers that has any has a least one: among the intervals that end at
\* one of them there is a minimal one.
LEMMA Least ==
    ASSUME NEW n \in Nat, NEW B \in SUBSET (0..n), B # {}
    PROVE \E x \in B : \A y \in B : x <= y
<1> DEFINE U == 0..n
           T == {0..k : k \in B}
<1>1. IsWellFoundedOn(StrictSubsetOrdering(U), SUBSET U)
  <2>1. IsFiniteSet(U) BY FS_Interval
  <2>2. FiniteSubsetsOf(U) = SUBSET U BY <2>1, FS_FiniteSubsetsOfFinite
  <2> QED BY <2>2, FS_StrictSubsetOrderingWellFounded
<1>2. T \subseteq SUBSET U /\ T # {}
  <2>1. ASSUME NEW k \in B PROVE (0..k) \subseteq 0..n BY <2>1
  <2> QED BY <2>1
<1>3. PICK X \in T : \A Y \in T : <<Y, X>> \notin StrictSubsetOrdering(U)
  <2> HIDE DEF T, U
  <2> QED BY <1>1, <1>2, WFMin
<1>4. PICK x \in B : X = 0..x BY <1>3
<1>5. ASSUME NEW y \in B, y < x PROVE FALSE
  <2>1. (0..y) \subseteq (0..x) /\ x \in 0..x /\ x \notin 0..y BY <1>5
  <2>2. <<0..y, 0..x>> \in StrictSubsetOrdering(U) BY <1>2, <2>1 DEF StrictSubsetOrdering
  <2> QED BY <1>3, <1>4, <2>2
<1> QED BY <1>4, <1>5

Readers == Seq(Seq(Arguments))
Valued(m) == DOMAIN m \subseteq Option /\ \A o \in DOMAIN m : m[o] \in Seq(DOMAIN Paths)
Mains == {"reading", "input", "reference", "output", "cache", "usage", "error", "exit", "exited"}
Settings ==
    [input : SUBSET (DOMAIN Paths), reference : SUBSET (DOMAIN Paths),
     include : SUBSET (DOMAIN Paths), exclude : SUBSET (DOMAIN Paths)]

\* A response file that was opened last is empty when no stream was left for it.
CommandTypes ==
    /\ argv \in Seq(Arguments) /\ readers \in Readers
    /\ Len(readers) <= MaxStreams + 2
    /\ Len(readers) = MaxStreams + 2 => Last(readers) = <<>>
    /\ main # "reading" => readers = <<>>
    /\ last \in Option \cup {None} /\ Valued(m_options)
    /\ settings \in Settings /\ folder \in BOOLEAN
    /\ main \in Mains /\ result \in {0, 1} /\ status = 0

LEMMA OptionsTable == DOMAIN options = 1..14 /\ \A n \in 1..14 : options[n].name \in Option
BY DEF options, Option

\* An argument selects an option that begins with it; a whole name, its own.
LEMMA FindIs ==
    ASSUME NEW text
    PROVE  /\ Find(text) \in Option \cup {None}
           /\ Find(text) # None => StartsWith(Find(text), text)
           /\ text \in Option => Find(text) = text
<1> DEFINE fits == {n \in DOMAIN options : StartsWith(options[n].name, text)}
<1>1. CASE fits = {}
  <2>1. Find(text) = None BY <1>1 DEF Find
  <2>2. text \notin Option
    <3>1. SUFFICES ASSUME NEW n \in DOMAIN options, text = options[n].name PROVE FALSE BY DEF Option
    <3>2. n \in fits BY <3>1, OptionsAssumption
    <3> QED BY <1>1, <3>2
  <2> QED BY <2>1, <2>2
<1>2. CASE fits # {}
  <2>1. \E m \in fits : \A j \in fits : m <= j
    <3>1. fits \in SUBSET (0..14) BY OptionsTable
    <3> HIDE DEF fits
    <3> QED BY <1>2, <3>1, Least
  <2>2. Min(fits) \in fits BY <2>1 DEF Min
  <2>3. PICK m \in DOMAIN options : m = Min(fits) /\ StartsWith(options[m].name, text) BY <2>2
  <2>4. Find(text) = options[m].name BY <1>2, <2>3 DEF Find
  <2>5. options[m].name \in Option BY OptionsTable
  <2>6. ASSUME text \in Option PROVE options[m].name = text
    <3>1. PICK j \in DOMAIN options : text = options[j].name BY <2>6 DEF Option
    <3> QED BY <2>3, <3>1, OptionsAssumption
  <2> QED BY <2>3, <2>4, <2>5, <2>6
<1> QED BY <1>1, <1>2

LEMMA GivenTyped == ASSUME Valued(m_options), NEW o PROVE Given(o) \in Seq(DOMAIN Paths)
<1>1. <<>> \in Seq(DOMAIN Paths) OBVIOUS
<1> QED BY <1>1 DEF Given, Valued

LEMMA WithIs ==
    ASSUME Valued(m_options), NEW o \in Option, NEW values \in Seq(DOMAIN Paths)
    PROVE  /\ Valued(With(o, values))
           /\ DOMAIN With(o, values) = DOMAIN m_options \cup {o}
           /\ With(o, values)[o] = values
           /\ \A q \in DOMAIN m_options \ {o} : With(o, values)[q] = m_options[q]
BY DEF With, Valued

\* What is read next.
LEMMA ReadingIs ==
    ASSUME CommandTypes, reading
    PROVE  /\ Len(readers) \in 1..(MaxStreams + 1)
           /\ Last(readers) \in Seq(Arguments) /\ Last(readers) = readers[Len(readers)]
           /\ Argument \in Arguments /\ Tail(Last(readers)) \in Seq(Arguments)
           /\ Last(readers) = <<Argument>> \o Tail(Last(readers))
           /\ Advanced \in Readers /\ Len(Advanced) = Len(readers)
           /\ Advanced[Len(readers)] = Tail(Last(readers))
           /\ \A k \in 1..(Len(readers) - 1) : Advanced[k] = readers[k]
<1>1. readers \in Seq(Seq(Arguments)) /\ readers # <<>> /\ Len(readers) \in Nat /\ MaxStreams \in Nat
  BY ArgumentsAssumption DEF CommandTypes, Readers, reading
<1>2. Len(readers) \in 1..(MaxStreams + 1)
  BY <1>1 DEF CommandTypes, reading
<1>3. Last(readers) = readers[Len(readers)] /\ Last(readers) \in Seq(Arguments) /\ Last(readers) # <<>>
  BY <1>1, <1>2 DEF Last, reading
<1>4. PICK s \in Seq(Arguments) : s = Last(readers) BY <1>3
<1>5. Head(s) \in Arguments /\ Tail(s) \in Seq(Arguments) /\ s = <<Head(s)>> \o Tail(s)
  BY <1>3, <1>4
<1>6. Advanced = [readers EXCEPT ![Len(readers)] = Tail(s)] BY <1>3, <1>4 DEF Advanced
<1>7. /\ Advanced \in Readers /\ Len(Advanced) = Len(readers)
      /\ Advanced[Len(readers)] = Tail(s)
      /\ \A k \in 1..(Len(readers) - 1) : Advanced[k] = readers[k]
  BY <1>1, <1>2, <1>5, <1>6 DEF Readers
<1> QED BY <1>2, <1>3, <1>4, <1>5, <1>7 DEF Argument

LEMMA CommandInit == Init => CommandTypes
<1> SUFFICES ASSUME Init PROVE CommandTypes OBVIOUS
<1> USE DEF Init
<1>1. argv \in Seq(Arguments) BY ArgumentsAssumption
<1>2. readers \in Readers /\ Len(readers) = 1 /\ MaxStreams \in Nat
  BY <1>1, ArgumentsAssumption DEF Readers
<1>3. Valued(m_options)
  <2>1. DOMAIN m_options = {} OBVIOUS
  <2> QED BY <2>1 DEF Valued
<1>4. settings \in Settings BY DEF NoSettings, Settings
<1>5. ~(Len(readers) = MaxStreams + 2) /\ Len(readers) <= MaxStreams + 2 BY <1>2
<1> QED BY <1>1, <1>2, <1>3, <1>4, <1>5 DEF CommandTypes, Mains

\* After an exception nothing is open; otherwise reading goes on with the rest.
LEMMA Thrown ==
    ASSUME CommandTypes, Throw("error"), unchangedRun, last' \in Option \cup {None},
           m_options' = m_options
    PROVE  CommandTypes'
<1>1. readers' = <<>> /\ main' = "error" BY DEF Throw
<1>2. readers' \in Readers /\ Len(readers') = 0 /\ MaxStreams \in Nat
  BY <1>1, ArgumentsAssumption DEF Readers
<1> QED BY <1>1, <1>2 DEF CommandTypes, unchangedRun, Mains, Valued

LEMMA ReadOn ==
    ASSUME CommandTypes, reading, readers' = Advanced, main' = main, unchangedRun,
           last' \in Option \cup {None}, Valued(m_options')
    PROVE  CommandTypes'
<1>1. /\ readers' \in Readers /\ Len(readers') = Len(readers)
      /\ Len(readers) \in 1..(MaxStreams + 1) /\ MaxStreams \in Nat
  BY ReadingIs, ArgumentsAssumption
<1>2. Len(readers') <= MaxStreams + 2 /\ ~(Len(readers') = MaxStreams + 2) BY <1>1
<1>3. main' = "reading" BY DEF reading
<1> QED BY <1>1, <1>2, <1>3 DEF CommandTypes, unchangedRun, Mains, Valued

LEMMA TakeOptionTypes == ASSUME CommandTypes, TakeOption PROVE CommandTypes'
<1> USE DEF TakeOption
<1>1. last' = Find(Argument.text) /\ last' \in Option \cup {None} BY FindIs
<1>2. CASE last' = None BY <1>1, <1>2, Thrown
<1>3. CASE last' # None
  <2>1. last' \in Option BY <1>1, <1>3
  <2>2. Valued(m_options) BY DEF CommandTypes
  <2>3. Given(last') \in Seq(DOMAIN Paths) BY <2>2, GivenTyped
  <2>4. PICK o \in Option : o = last' BY <2>1
  <2>5. Valued(With(o, Given(o))) BY <2>2, <2>3, <2>4, WithIs
  <2>6. m_options' = With(o, Given(o)) /\ readers' = Advanced /\ main' = main BY <1>3, <2>4
  <2> QED BY <1>1, <2>5, <2>6, ReadOn
<1> QED BY <1>2, <1>3

LEMMA TakeValueTypes == ASSUME CommandTypes, TakeValue PROVE CommandTypes'
<1> USE DEF TakeValue
<1>1. last' = last /\ last \in Option \cup {None} BY DEF CommandTypes
<1>2. CASE last = None BY <1>1, <1>2, Thrown
<1>3. CASE last # None
  <2>1. last \in Option BY <1>1, <1>3
  <2>2. Valued(m_options) BY DEF CommandTypes
  <2>3. Argument \in Arguments BY ReadingIs
  <2>4. Argument.text \in DOMAIN Paths BY <2>3 DEF Arguments
  <2>5. Given(last) \in Seq(DOMAIN Paths) BY <2>2, GivenTyped
  <2>6. Append(Given(last), Argument.text) \in Seq(DOMAIN Paths) BY <2>4, <2>5
  <2>7. Valued(With(last, Append(Given(last), Argument.text))) BY <2>1, <2>2, <2>6, WithIs
  <2> QED BY <1>1, <1>3, <2>7, ReadOn
<1> QED BY <1>2, <1>3

\* What a response file is when it is opened.
Opened ==
    LET content == Responses[Argument.text]
    IN  IF content.kind = "missing" \/ Len(readers) > MaxStreams THEN <<>> ELSE content.args

LEMMA OpenedIs ==
    ASSUME CommandTypes, OpenResponse, main' = main
    PROVE  /\ Argument.text \in DOMAIN Responses
           /\ Responses[Argument.text].kind # "misused"
           /\ Opened \in Seq(Arguments)
           /\ readers' = Append(Advanced, Opened)
           /\ last' = last
<1> USE DEF OpenResponse
<1>1. Argument \in Arguments BY ReadingIs
<1>2. Argument.text \in DOMAIN Responses BY <1>1 DEF Arguments
<1>3. PICK content : content = Responses[Argument.text] OBVIOUS
<1>4. content.kind # "misused" BY <1>3 DEF Throw, reading
<1>5. readers' = Append(Advanced, Opened) /\ last' = last BY <1>3, <1>4 DEF Opened, LastInside
<1>6. Opened \in Seq(Arguments)
  <2>1. CASE content.kind = "lines"
    <3>1. content.args \in Seq(Arguments) BY <1>2, <1>3, <2>1, ArgumentsAssumption
    <3> QED BY <1>3, <3>1 DEF Opened
  <2>2. CASE content.kind = "missing" BY <1>3, <2>2 DEF Opened
  <2> QED BY <1>2, <1>3, <1>4, <2>1, <2>2, ArgumentsAssumption
<1> QED BY <1>2, <1>3, <1>4, <1>5, <1>6

LEMMA OpenResponseTypes == ASSUME CommandTypes, OpenResponse PROVE CommandTypes'
<1>1. CASE Responses[Argument.text].kind = "misused"
  <2>1. Throw("error") /\ last' = last /\ unchangedRun /\ m_options' = m_options
    BY <1>1 DEF OpenResponse
  <2> QED BY <2>1, Thrown DEF CommandTypes
<1>2. CASE Responses[Argument.text].kind # "misused"
  <2>1. main' = main /\ unchangedRun /\ m_options' = m_options /\ reading
    BY <1>2 DEF OpenResponse
  <2>2. Opened \in Seq(Arguments) /\ readers' = Append(Advanced, Opened) /\ last' = last
    BY <2>1, OpenedIs
  <2>3. /\ Advanced \in Seq(Seq(Arguments)) /\ Len(Advanced) = Len(readers)
        /\ Len(readers) \in 1..(MaxStreams + 1) /\ MaxStreams \in Nat
    BY <2>1, ReadingIs, ArgumentsAssumption DEF Readers
  <2>4. readers' \in Readers /\ Len(readers') = Len(readers) + 1 /\ readers'[Len(readers) + 1] = Opened
    BY <2>2, <2>3 DEF Readers
  <2>5. Len(readers') <= MaxStreams + 2 BY <2>3, <2>4
  <2>6. ASSUME Len(readers') = MaxStreams + 2 PROVE Last(readers') = <<>>
    <3>1. Len(readers) > MaxStreams BY <2>3, <2>4, <2>6
    <3> QED BY <2>4, <3>1 DEF Last, Opened
  <2>7. main' = "reading" BY <2>1 DEF reading
  <2> QED BY <2>1, <2>2, <2>4, <2>5, <2>6, <2>7 DEF CommandTypes, unchangedRun, Mains, Valued
<1> QED BY <1>1, <1>2

LEMMA CloseResponseTypes == ASSUME CommandTypes, CloseResponse PROVE CommandTypes'
<1> USE DEF CloseResponse
<1>1. readers \in Seq(Seq(Arguments)) /\ Len(readers) \in Nat /\ Len(readers) > 1 /\ MaxStreams \in Nat
  BY ArgumentsAssumption DEF CommandTypes, Readers
<1>2. readers' \in Readers /\ Len(readers') = Len(readers) - 1 BY <1>1 DEF Front, Readers
<1>3. Len(readers) <= MaxStreams + 2 BY DEF CommandTypes
<1>4. Len(readers') <= MaxStreams + 2 /\ ~(Len(readers') = MaxStreams + 2) BY <1>1, <1>2, <1>3
<1>5. main' = "reading" OBVIOUS
<1> QED BY <1>2, <1>4, <1>5 DEF CommandTypes, unchangedRun, Mains, Valued

LEMMA CheckCountsTypes == ASSUME CommandTypes, CheckCounts PROVE CommandTypes'
<1>1. readers' = <<>> /\ main' \in {"error", "usage", "input"} BY DEF CheckCounts
<1>2. readers' \in Readers /\ Len(readers') = 0 /\ MaxStreams \in Nat
  BY <1>1, ArgumentsAssumption DEF Readers
<1> QED BY <1>1, <1>2 DEF CheckCounts, CommandTypes, unchangedRun, Mains, Valued

-----------------------------------------------------------------------------
(* Which files are found *)

FoundFor(setting) == UNION {Found(q) : q \in ToSet(Given(setting))}
Legal(setting) == \A q \in ToSet(Given(setting)) : Paths[q].kind # "nothing"
AllCounts == \A n \in DOMAIN options : Counts(options[n])

\* Each stage of run() keeps what the stages before it checked, and until the
\* options are read there are no settings.
FilesInv ==
    /\ main \in {"reading", "input"} => settings = NoSettings /\ ~folder
    /\ settings.input # {} => settings.input = FoundFor("input") /\ Legal("input")
    /\ settings.reference # {} => settings.reference = FoundFor("reference") /\ Legal("reference")
    /\ main \in {"input", "reference", "output", "cache"} \/ folder => AllCounts
    /\ main \in {"reference", "output", "cache"} \/ folder => Legal("input")
    /\ main \in {"output", "cache"} \/ folder => Legal("reference")

\* What is found in a folder is there.
LEMMA FilesAreThere ==
    ASSUME NEW q \in DOMAIN Paths, Paths[q].kind = "folder"
    PROVE  Paths[FolderAt(q)].files \subseteq DOMAIN Paths
<1>1. FolderAt(q) \in DOMAIN Paths /\ Paths[FolderAt(q)].kind = "folder"
  BY PathsAssumption DEF FolderAt
<1> QED BY <1>1, PathsAssumption

LEMMA FoundTyped ==
    ASSUME NEW q \in DOMAIN Paths
    PROVE  Found(q) \subseteq DOMAIN Paths
<1>1. CASE Paths[q].kind = "folder" BY <1>1, FilesAreThere DEF Found, InFolder
<1>2. CASE Paths[q].kind # "folder" BY <1>2, PathsAssumption DEF Found
<1> QED BY <1>1, <1>2

LEMMA ValuesAreThere ==
    ASSUME CommandTypes, NEW setting
    PROVE  ToSet(Given(setting)) \subseteq DOMAIN Paths
<1>1. Given(setting) \in Seq(DOMAIN Paths) BY GivenTyped DEF CommandTypes
<1> QED BY <1>1 DEF ToSet

LEMMA SameValues ==
    ASSUME m_options' = m_options
    PROVE  /\ FoundFor("input")' = FoundFor("input") /\ FoundFor("reference")' = FoundFor("reference")
           /\ Legal("input")' <=> Legal("input")
           /\ Legal("reference")' <=> Legal("reference")
           /\ AllCounts' <=> AllCounts
BY DEF FoundFor, Legal, AllCounts, Counts, Given

LEMMA CommandStarts == Init => FilesInv
BY DEF Init, FilesInv, NoSettings

\* While options are read, there are no settings that could be wrong.
LEMMA ReadingFiles ==
    ASSUME FilesInv, main = "reading", unchangedRun, main' \in {"reading", "error"}
    PROVE  FilesInv'
BY DEF FilesInv, unchangedRun, NoSettings

LEMMA TakingFiles ==
    ASSUME FilesInv, TakeOption \/ TakeValue \/ OpenResponse \/ CloseResponse
    PROVE  FilesInv'
<1>1. CASE TakeOption BY <1>1, ReadingFiles DEF TakeOption, reading, Throw
<1>2. CASE TakeValue BY <1>2, ReadingFiles DEF TakeValue, reading, Throw
<1>3. CASE OpenResponse
  <2>1. PICK content : content = Responses[Argument.text] OBVIOUS
  <2>2. main = "reading" /\ unchangedRun BY <1>3 DEF OpenResponse, reading
  <2>3. main' \in {"reading", "error"} BY <1>3, <2>1, <2>2 DEF OpenResponse, Throw
  <2> QED BY <2>2, <2>3, ReadingFiles
<1>4. CASE CloseResponse BY <1>4, ReadingFiles DEF CloseResponse
<1> QED BY <1>1, <1>2, <1>3, <1>4

LEMMA CheckCountsFiles == ASSUME FilesInv, CheckCounts PROVE FilesInv'
<1>1. main = "reading" /\ unchangedRun /\ m_options' = m_options BY DEF CheckCounts
<1>2. settings' = NoSettings /\ ~folder' BY <1>1 DEF FilesInv, unchangedRun
<1>3. main' \in {"error", "usage", "input"} /\ (main' = "input" => AllCounts)
  BY DEF CheckCounts, AllCounts
<1>4. main' = "input" => AllCounts' BY <1>1, <1>3, SameValues
<1> QED BY <1>2, <1>3, <1>4 DEF FilesInv, NoSettings

\* A look-up fills one of the settings, or throws.
LEMMA LookUpInputKeeps == ASSUME CommandTypes, FilesInv, LookUpInput PROVE CommandTypes' /\ FilesInv'
<1>1. /\ main = "input" /\ settings = NoSettings /\ ~folder /\ folder' = folder /\ AllCounts
      /\ m_options' = m_options
      /\ UNCHANGED <<argv, readers, last, folder, projected, result, status>>
  BY DEF LookUpInput, FilesInv
<1>2. /\ FoundFor("input")' = FoundFor("input") /\ (Legal("input")' <=> Legal("input"))
      /\ (AllCounts' <=> AllCounts)
  BY <1>1, SameValues
<1>3. ToSet(Given("input")) \subseteq DOMAIN Paths BY ValuesAreThere
<1>4. CASE \E q \in ToSet(Given("input")) : Paths[q].kind = "nothing"
  <2>1. main' = "error" /\ settings' = settings BY <1>4 DEF LookUpInput, Files
  <2>2. CommandTypes' BY <1>1, <2>1 DEF CommandTypes, Mains, Valued
  <2>3. FilesInv' BY <1>1, <2>1 DEF FilesInv, NoSettings
  <2> QED BY <2>2, <2>3
<1>5. CASE ~(\E q \in ToSet(Given("input")) : Paths[q].kind = "nothing")
  <2>1. main' = "reference" /\ settings' = [settings EXCEPT !["input"] = FoundFor("input")]
    BY <1>5 DEF LookUpInput, Files, FoundFor
  <2>2. Legal("input") BY <1>5 DEF Legal
  <2>3. FoundFor("input") \subseteq DOMAIN Paths BY <1>3, FoundTyped DEF FoundFor
  <2>4. /\ settings'.input = FoundFor("input") /\ settings'.reference = {}
        /\ settings' \in Settings
    BY <1>1, <2>1, <2>3 DEF NoSettings, Settings
  <2>5. CommandTypes' BY <1>1, <2>1, <2>4 DEF CommandTypes, Mains, Valued
  <2>6. FilesInv' BY <1>1, <1>2, <2>1, <2>2, <2>4 DEF FilesInv
  <2> QED BY <2>5, <2>6
<1> QED BY <1>4, <1>5

LEMMA LookUpReferenceKeeps ==
    ASSUME CommandTypes, FilesInv, LookUpReference PROVE CommandTypes' /\ FilesInv'
<1>1. /\ main = "reference" /\ folder' = folder /\ AllCounts /\ Legal("input")
      /\ m_options' = m_options /\ (folder => Legal("reference"))
      /\ settings.input # {} => settings.input = FoundFor("input")
      /\ settings.reference # {} =>
            settings.reference = FoundFor("reference") /\ Legal("reference")
      /\ UNCHANGED <<argv, readers, last, folder, projected, result, status>>
  BY DEF LookUpReference, FilesInv
<1>2. /\ FoundFor("input")' = FoundFor("input") /\ (Legal("input")' <=> Legal("input"))
      /\ FoundFor("reference")' = FoundFor("reference") /\ (Legal("reference")' <=> Legal("reference"))
      /\ (AllCounts' <=> AllCounts)
  BY <1>1, SameValues
<1>3. ToSet(Given("reference")) \subseteq DOMAIN Paths BY ValuesAreThere
<1>4. CASE \E q \in ToSet(Given("reference")) : Paths[q].kind = "nothing"
  <2>1. main' = "error" /\ settings' = settings BY <1>4 DEF LookUpReference, Files
  <2>2. CommandTypes' BY <1>1, <2>1 DEF CommandTypes, Mains, Valued
  <2>3. FilesInv' BY <1>1, <1>2, <2>1 DEF FilesInv
  <2> QED BY <2>2, <2>3
<1>5. CASE ~(\E q \in ToSet(Given("reference")) : Paths[q].kind = "nothing")
  <2>1. main' = "output" /\ settings' = [settings EXCEPT !["reference"] = FoundFor("reference")]
    BY <1>5 DEF LookUpReference, Files, FoundFor
  <2>2. Legal("reference") BY <1>5 DEF Legal
  <2>3. FoundFor("reference") \subseteq DOMAIN Paths BY <1>3, FoundTyped DEF FoundFor
  <2>4. /\ settings'.reference = FoundFor("reference") /\ settings'.input = settings.input
        /\ settings' \in Settings
    BY <2>1, <2>3 DEF CommandTypes, Settings
  <2>5. CommandTypes' BY <1>1, <2>1, <2>4 DEF CommandTypes, Mains, Valued
  <2>6. FilesInv' BY <1>1, <1>2, <2>1, <2>2, <2>4 DEF FilesInv
  <2> QED BY <2>5, <2>6
<1> QED BY <1>4, <1>5

LEMMA MakeFolderKeeps == ASSUME CommandTypes, FilesInv, MakeFolder PROVE CommandTypes' /\ FilesInv'
<1>1. /\ main = "output" /\ AllCounts /\ Legal("input") /\ Legal("reference")
      /\ m_options' = m_options
      /\ settings.input # {} => settings.input = FoundFor("input")
      /\ settings.reference # {} => settings.reference = FoundFor("reference")
      /\ UNCHANGED <<argv, readers, last, projected, result, status>>
  BY DEF MakeFolder, FilesInv
<1>2. /\ FoundFor("input")' = FoundFor("input") /\ Legal("input")'
      /\ FoundFor("reference")' = FoundFor("reference") /\ Legal("reference")' /\ AllCounts'
  BY <1>1, SameValues
<1>3. /\ ToSet(Given("include")) \subseteq DOMAIN Paths
      /\ ToSet(Given("filter")) \subseteq DOMAIN Paths
      /\ ToSet(Given("exclude")) \subseteq DOMAIN Paths
  BY ValuesAreThere
<1>4. CASE /\ folder' = TRUE /\ main' = "cache"
           /\ settings' = [settings EXCEPT
                !.include = ToSet(Given("include")) \cup ToSet(Given("filter")),
                !.exclude = ToSet(Given("exclude"))]
  <2>1. /\ settings'.reference = settings.reference /\ settings'.input = settings.input
        /\ settings' \in Settings
    BY <1>3, <1>4 DEF CommandTypes, Settings
  <2>2. CommandTypes' BY <1>1, <1>4, <2>1 DEF CommandTypes, Mains, Valued
  <2>3. FilesInv' BY <1>1, <1>2, <1>4, <2>1 DEF FilesInv
  <2> QED BY <2>2, <2>3
<1>5. CASE main' = "error" /\ UNCHANGED <<folder, settings>>
  <2>1. CommandTypes' BY <1>1, <1>5 DEF CommandTypes, Mains, Valued
  <2>2. FilesInv' BY <1>1, <1>2, <1>5 DEF FilesInv
  <2> QED BY <2>1, <2>2
<1> QED BY <1>4, <1>5 DEF MakeFolder

\* What comes after changes neither options nor settings.
LEMMA RunKeeps ==
    ASSUME CommandTypes, FilesInv, BuildCache \/ Catch \/ Exit
    PROVE  CommandTypes' /\ FilesInv'
<1>1. /\ UNCHANGED <<argv, readers, last, m_options, settings, folder>>
      /\ main # "reading" /\ main' \in {"exit", "error", "exited"}
      /\ result' \in {0, 1} /\ status' = 0
  BY DEF BuildCache, Catch, Exit, CommandTypes
<1>2. CommandTypes' BY <1>1 DEF CommandTypes, Mains, Valued
<1>3. FilesInv'
  <2>1. /\ FoundFor("input")' = FoundFor("input") /\ (Legal("input")' <=> Legal("input"))
        /\ FoundFor("reference")' = FoundFor("reference") /\ (Legal("reference")' <=> Legal("reference"))
        /\ (AllCounts' <=> AllCounts)
    BY <1>1, SameValues
  <2> QED BY <1>1, <2>1 DEF FilesInv
<1> QED BY <1>2, <1>3

LEMMA DoneKeeps ==
    ASSUME CommandTypes, FilesInv, UNCHANGED vars
    PROVE  CommandTypes' /\ FilesInv'
<1>1. UNCHANGED <<argv, readers, last, m_options, settings, folder, main, result, status>>
  BY DEF vars
<1>2. CommandTypes' BY <1>1 DEF CommandTypes, Valued
<1>3. /\ FoundFor("input")' = FoundFor("input") /\ (Legal("input")' <=> Legal("input"))
      /\ FoundFor("reference")' = FoundFor("reference") /\ (Legal("reference")' <=> Legal("reference"))
      /\ (AllCounts' <=> AllCounts)
  BY <1>1, SameValues
<1> QED BY <1>1, <1>2, <1>3 DEF FilesInv

LEMMA FilesStep ==
    ASSUME CommandTypes, FilesInv, [Next]_vars
    PROVE  CommandTypes' /\ FilesInv'
<1>1. CASE TakeOption BY <1>1, TakeOptionTypes, TakingFiles
<1>2. CASE TakeValue BY <1>2, TakeValueTypes, TakingFiles
<1>3. CASE OpenResponse BY <1>3, OpenResponseTypes, TakingFiles
<1>4. CASE CloseResponse BY <1>4, CloseResponseTypes, TakingFiles
<1>5. CASE CheckCounts BY <1>5, CheckCountsTypes, CheckCountsFiles
<1>6. CASE LookUpInput BY <1>6, LookUpInputKeeps
<1>7. CASE LookUpReference BY <1>7, LookUpReferenceKeeps
<1>8. CASE MakeFolder BY <1>8, MakeFolderKeeps
<1>9. CASE BuildCache \/ Catch \/ Exit BY <1>9, RunKeeps
<1>10. CASE UNCHANGED vars BY <1>10, DoneKeeps
<1> QED BY <1>1, <1>2, <1>3, <1>4, <1>5, <1>6, <1>7, <1>8, <1>9, <1>10 DEF Next, Done

LEMMA GoodArguments == ASSUME FilesInv PROVE FolderOnlyForGoodArguments
BY DEF FilesInv, AllCounts, Legal, FolderOnlyForGoodArguments

LEMMA FoundAreDatabases ==
    ASSUME CommandTypes, NEW setting \in {"input", "reference"}, Legal(setting),
           NEW f \in FoundFor(setting)
    PROVE  f \in Databases \cup {Canonical[q] : q \in {r \in DOMAIN Paths : Paths[r].kind = "file" /\
                       r \in ToSet(Given("input")) \cup ToSet(Given("reference"))}}
<1>1. PICK q \in ToSet(Given(setting)) : f \in Found(q) BY DEF FoundFor
<1>2. q \in DOMAIN Paths /\ Paths[q].kind # "nothing" BY <1>1, ValuesAreThere DEF Legal
<1>3. CASE Paths[q].kind = "folder" BY <1>1, <1>3 DEF Found, InFolder
<1>4. CASE Paths[q].kind = "file"
  <2>1. f = Canonical[q] BY <1>1, <1>4 DEF Found
  <2> QED BY <1>1, <1>2, <1>4, <2>1
<1> QED BY <1>2, <1>3, <1>4, PathsAssumption

LEMMA OnlyDatabases == ASSUME CommandTypes, FilesInv PROVE InputsAreDatabases
<1> DEFINE Right == Databases \cup {Canonical[q] : q \in {r \in DOMAIN Paths : Paths[r].kind = "file" /\
                       r \in ToSet(Given("input")) \cup ToSet(Given("reference"))}}
<1>1. ASSUME NEW f \in settings.input PROVE f \in Right
  <2>1. f \in FoundFor("input") /\ Legal("input") BY <1>1 DEF FilesInv
  <2> QED BY <2>1, FoundAreDatabases
<1>2. ASSUME NEW f \in settings.reference PROVE f \in Right
  <2>1. f \in FoundFor("reference") /\ Legal("reference") BY <1>2 DEF FilesInv
  <2> QED BY <2>1, FoundAreDatabases
<1> QED BY <1>1, <1>2 DEF InputsAreDatabases

\* What is found has the one name of its file, unless a folder has a link to it.
LEMMA FoundAreCanonical ==
    ASSUME CommandTypes, NEW setting \in {"input", "reference"}, NEW f \in FoundFor(setting)
    PROVE  Canonical[f] = f \/ LinkInFolder(f)
<1>1. PICK q \in ToSet(Given(setting)) : f \in Found(q) BY DEF FoundFor
<1>2. q \in DOMAIN Paths BY <1>1, ValuesAreThere
<1>3. CASE Paths[q].kind = "folder"
  <2>1. f \in InFolder(q) BY <1>1, <1>3 DEF Found
  <2>2. q \in ToSet(Given("input")) \cup ToSet(Given("reference")) BY <1>1
  <2> QED BY <1>3, <2>1, <2>2 DEF LinkInFolder
<1>4. CASE Paths[q].kind # "folder"
  <2>1. f = Canonical[q] BY <1>1, <1>4 DEF Found
  <2> QED BY <1>2, <2>1, PathsAssumption
<1> QED BY <1>3, <1>4

\* The sequence of a finite set has each element once.
LEMMA SetToSeqIs ==
    ASSUME NEW U, IsFiniteSet(U)
    PROVE  /\ SetToSeq(U) \in Seq(U)
           /\ \A a, c \in 1..Len(SetToSeq(U)) : SetToSeq(U)[a] = SetToSeq(U)[c] => a = c
<1>1. Cardinality(U) \in Nat /\ ExistsBijection(1..Cardinality(U), U) BY FS_CardinalityType
<1>2. \E f \in [1..Cardinality(U) -> U] : IsInjective(f)
  BY <1>1 DEF ExistsBijection, Bijection, Injection, IsInjective
<1>3. SetToSeq(U) \in [1..Cardinality(U) -> U] /\ IsInjective(SetToSeq(U))
  BY <1>2 DEF SetToSeq
<1>4. PICK f \in [1..Cardinality(U) -> U] : f = SetToSeq(U) /\ IsInjective(f) BY <1>3
<1>5. f \in Seq(U) /\ Len(f) = Cardinality(U) BY <1>1, <1>4
<1>6. \A a, c \in 1..Len(f) : f[a] = f[c] => a = c BY <1>4, <1>5 DEF IsInjective
<1> QED BY <1>4, <1>5, <1>6

LEMMA LoadedOnce == ASSUME CommandTypes, FilesInv PROVE LoadedTwiceOnlyByGaps
<1> SUFFICES ASSUME NEW a \in DOMAIN Loaded, NEW c \in DOMAIN Loaded,
                    a < c, Canonical[Loaded[a]] = Canonical[Loaded[c]],
                    ~LinkInFolder(Loaded[a]), ~LinkInFolder(Loaded[c])
             PROVE  Loaded[a] = Loaded[c] /\ Loaded[a] \in settings.input \cap settings.reference
  BY DEF LoadedTwiceOnlyByGaps
<1>1. IsFiniteSet(settings.input) /\ IsFiniteSet(settings.reference)
  BY FS_Subset, PathsAssumption DEF CommandTypes, Settings
<1>2. PICK s : s = SetToSeq(settings.input) OBVIOUS
<1>3. PICK t : t = SetToSeq(settings.reference) OBVIOUS
<1>4. s \in Seq(settings.input) /\ \A m, n \in 1..Len(s) : s[m] = s[n] => m = n
  BY <1>1, <1>2, SetToSeqIs
<1>5. t \in Seq(settings.reference) /\ \A m, n \in 1..Len(t) : t[m] = t[n] => m = n
  BY <1>1, <1>3, SetToSeqIs
<1>6. Loaded = s \o t BY <1>2, <1>3 DEF Loaded
<1>7. /\ Len(s) \in Nat /\ Len(t) \in Nat
      /\ \A n \in 1..Len(s) : s[n] \in settings.input
      /\ \A n \in 1..Len(t) : t[n] \in settings.reference
  BY <1>4, <1>5
<1>8. /\ a \in 1..(Len(s) + Len(t)) /\ c \in 1..(Len(s) + Len(t))
      /\ Loaded[a] = IF a <= Len(s) THEN s[a] ELSE t[a - Len(s)]
      /\ Loaded[c] = IF c <= Len(s) THEN s[c] ELSE t[c - Len(s)]
  <2>1. s \in Seq(settings.input \cup settings.reference)
    BY <1>4
  <2>2. t \in Seq(settings.input \cup settings.reference)
    BY <1>5
  <2>3. /\ s \o t \in Seq(settings.input \cup settings.reference)
        /\ Len(s \o t) = Len(s) + Len(t)
        /\ \A n \in 1..(Len(s) + Len(t)) :
             (s \o t)[n] = IF n <= Len(s) THEN s[n] ELSE t[n - Len(s)]
    BY <2>1, <2>2, ConcatProperties
  <2>4. DOMAIN Loaded = 1..(Len(s) + Len(t)) BY <1>6, <2>3
  <2> QED BY <1>6, <2>3, <2>4
<1>9. \A f \in settings.input \cup settings.reference : Canonical[f] = f \/ LinkInFolder(f)
  BY FoundAreCanonical DEF FilesInv
<1>10. Loaded[a] \in settings.input \cup settings.reference
       /\ Loaded[c] \in settings.input \cup settings.reference
  <2>1. \A n \in 1..(Len(s) + Len(t)) : n <= Len(s) => n \in 1..Len(s) BY <1>7
  <2>2. \A n \in 1..(Len(s) + Len(t)) : ~(n <= Len(s)) => n - Len(s) \in 1..Len(t) BY <1>7
  <2> QED BY <1>7, <1>8, <2>1, <2>2
<1>11. Loaded[a] = Loaded[c] BY <1>9, <1>10
<1>12. CASE c <= Len(s)
  <2>1. a \in 1..Len(s) /\ c \in 1..Len(s) BY <1>7, <1>8, <1>12
  <2>2. s[a] = s[c] BY <1>8, <1>11, <2>1
  <2> QED BY <1>4, <2>1, <2>2
<1>13. CASE ~(a <= Len(s))
  <2>1. a - Len(s) \in 1..Len(t) /\ c - Len(s) \in 1..Len(t) /\ a - Len(s) # c - Len(s) /\ ~(c <= Len(s))
    BY <1>7, <1>8, <1>13
  <2>2. t[a - Len(s)] = t[c - Len(s)] BY <1>8, <1>11, <1>13, <2>1
  <2> QED BY <1>5, <2>1, <2>2
<1>14. CASE a <= Len(s) /\ ~(c <= Len(s))
  <2>1. a \in 1..Len(s) /\ c - Len(s) \in 1..Len(t) BY <1>7, <1>8, <1>14
  <2> QED BY <1>7, <1>8, <1>11, <1>14, <2>1
<1> QED BY <1>12, <1>13, <1>14

-----------------------------------------------------------------------------
(* Sequences that are put together *)

\* How FlattenSeq goes through the first n sequences of s.
Flattened(s, n, f) == f = [k \in 1..n |-> IF k = 1 THEN s[k] ELSE f[k - 1] \o s[k]]

LEMMA FlattenedIs ==
    ASSUME NEW s, NEW n \in Nat, NEW f, Flattened(s, n, f), NEW k \in 1..n
    PROVE  f[k] = IF k = 1 THEN s[k] ELSE f[k - 1] \o s[k]
BY DEF Flattened

LEMMA FlattenedExists == ASSUME NEW s, NEW N \in Nat PROVE \E f : Flattened(s, N, f)
<1> DEFINE B == {m \in 0..N : ~\E f : Flattened(s, m, f)}
<1>1. SUFFICES ASSUME B # {} PROVE FALSE
  <2>1. N \in 0..N OBVIOUS
  <2> QED BY <1>1, <2>1
<1>2. PICK m \in B : \A k \in B : m <= k
  <2>1. B \in SUBSET (0..N) OBVIOUS
  <2> HIDE DEF B
  <2> QED BY <1>1, <2>1, Least
<1>3. CASE m = 0
  <2>1. PICK f : f = [k \in 1..0 |-> s] OBVIOUS
  <2>2. f = [k \in 1..0 |-> IF k = 1 THEN s[k] ELSE f[k - 1] \o s[k]]
    <3>1. 1..0 = {} OBVIOUS
    <3> QED BY <2>1, <3>1
  <2> QED BY <1>3, <2>2 DEF Flattened
<1>4. CASE m # 0
  <2>1. m - 1 \in 0..N /\ m \in Nat /\ ~(m <= m - 1) BY <1>4
  <2>2. PICK g : Flattened(s, m - 1, g) BY <1>2, <2>1
  <2>3. \A k \in 1..(m - 1) : g[k] = IF k = 1 THEN s[k] ELSE g[k - 1] \o s[k]
    BY <2>2 DEF Flattened
  <2>4. PICK f : f = [k \in 1..m |-> IF k = 1 THEN s[k] ELSE g[k - 1] \o s[k]] OBVIOUS
  <2>5. ASSUME NEW k \in 1..(m - 1) PROVE f[k] = g[k]
    <3>1. k \in 1..m BY <2>1
    <3> QED BY <2>3, <2>4, <3>1
  <2>6. ASSUME NEW k \in 1..m PROVE f[k] = IF k = 1 THEN s[k] ELSE f[k - 1] \o s[k]
    <3>1. CASE k = 1 BY <2>4, <3>1
    <3>2. CASE k # 1
      <4>1. k - 1 \in 1..(m - 1) BY <2>1, <3>2
      <4>2. f[k - 1] = g[k - 1] BY <2>5, <4>1
      <4> QED BY <2>4, <3>2, <4>2
    <3> QED BY <3>1, <3>2
  <2>7. f = [k \in 1..m |-> f[k]] BY <2>4
  <2>8. Flattened(s, m, f) BY <2>6, <2>7 DEF Flattened
  <2> QED BY <2>8
<1> QED BY <1>3, <1>4

LEMMA FlattenSeqIs ==
    ASSUME NEW s, Len(s) \in Nat \ {0}
    PROVE  \E f : Flattened(s, Len(s), f) /\ FlattenSeq(s) = f[Len(s)]
<1> DEFINE f == CHOOSE g : Flattened(s, Len(s), g)
<1>1. Flattened(s, Len(s), f) BY FlattenedExists
<1>2. FlattenSeq(s) = f[Len(s)] BY DEF FlattenSeq, Flattened
<1> QED BY <1>1, <1>2

LEMMA FlattenedTyped ==
    ASSUME NEW T, NEW s \in Seq(Seq(T)), NEW f, Flattened(s, Len(s), f)
    PROVE  \A n \in 1..Len(s) : f[n] \in Seq(T)
<1> DEFINE B == {m \in 1..Len(s) : f[m] \notin Seq(T)}
<1>1. SUFFICES ASSUME B # {} PROVE FALSE OBVIOUS
<1>2. Len(s) \in Nat /\ \A n \in 1..Len(s) : s[n] \in Seq(T) OBVIOUS
<1>3. PICK m \in B : \A k \in B : m <= k
  <2>1. B \in SUBSET (0..Len(s)) BY <1>2
  <2> HIDE DEF B
  <2> QED BY <1>1, <1>2, <2>1, Least
<1>4. m \in 1..Len(s) /\ s[m] \in Seq(T) BY <1>2
<1>5. f[m] = IF m = 1 THEN s[m] ELSE f[m - 1] \o s[m] BY <1>2, <1>4, FlattenedIs
<1>6. CASE m = 1 BY <1>4, <1>5, <1>6
<1>7. CASE m # 1
  <2>1. m - 1 \in 1..Len(s) /\ ~(m <= m - 1) BY <1>4, <1>7
  <2>2. f[m - 1] \in Seq(T) BY <1>3, <2>1
  <2>3. f[m - 1] \o s[m] \in Seq(T) BY <1>4, <2>2
  <2> QED BY <1>5, <1>7, <2>3
<1> QED BY <1>6, <1>7

LEMMA FlattenEmpty == FlattenSeq(<<>>) = <<>>
BY DEF FlattenSeq

LEMMA FlattenTyped ==
    ASSUME NEW T, NEW s \in Seq(Seq(T))
    PROVE  FlattenSeq(s) \in Seq(T)
<1>1. Len(s) \in Nat OBVIOUS
<1>2. CASE Len(s) = 0
  <2>1. s = <<>> BY <1>2
  <2>2. <<>> \in Seq(T) OBVIOUS
  <2> QED BY <2>1, <2>2, FlattenEmpty
<1>3. CASE Len(s) # 0
  <2>1. PICK f : Flattened(s, Len(s), f) /\ FlattenSeq(s) = f[Len(s)] BY <1>1, <1>3, FlattenSeqIs
  <2>2. Len(s) \in 1..Len(s) BY <1>1, <1>3
  <2> QED BY <2>1, <2>2, FlattenedTyped
<1> QED BY <1>2, <1>3

\* The first of the sequences comes first.
LEMMA FlattenFirst ==
    ASSUME NEW T, NEW s \in Seq(Seq(T)), NEW t \in Seq(Seq(T)), NEW x \in Seq(T),
           Len(s) = Len(t) + 1, s[1] = x, \A n \in 1..Len(t) : s[n + 1] = t[n]
    PROVE  FlattenSeq(s) = x \o FlattenSeq(t)
<1>1. /\ Len(t) \in Nat /\ Len(s) \in Nat \ {0}
      /\ \A n \in 1..Len(t) : t[n] \in Seq(T)
  OBVIOUS
<1>associative. ASSUME NEW a \in Seq(T), NEW c \in Seq(T), NEW e \in Seq(T)
               PROVE  (a \o c) \o e = a \o (c \o e)
  OBVIOUS
<1>2. PICK f : Flattened(s, Len(s), f) /\ FlattenSeq(s) = f[Len(s)] BY <1>1, FlattenSeqIs
<1>3. 1 \in 1..Len(s) /\ Len(s) \in Nat BY <1>1
<1>4. f[1] = x
  <2>1. f[1] = IF 1 = 1 THEN s[1] ELSE f[1 - 1] \o s[1] BY <1>2, <1>3, FlattenedIs
  <2> QED BY <2>1
<1>5. CASE Len(t) = 0
  <2>1. t = <<>> BY <1>5
  <2>2. FlattenSeq(s) = x BY <1>1, <1>2, <1>4, <1>5
  <2>3. x \o <<>> = x OBVIOUS
  <2> QED BY <2>1, <2>2, <2>3, FlattenEmpty
<1>6. CASE Len(t) # 0
  <2>1. PICK g : Flattened(t, Len(t), g) /\ FlattenSeq(t) = g[Len(t)] BY <1>1, <1>6, FlattenSeqIs
  <2>2. \A n \in 1..Len(t) : g[n] \in Seq(T) BY <2>1, FlattenedTyped
  <2> DEFINE B == {m \in 1..Len(t) : f[m + 1] # x \o g[m]}
  <2>3. ASSUME B # {} PROVE FALSE
    <3>1. PICK m \in B : \A k \in B : m <= k
      <4>1. B \in SUBSET (0..Len(t)) BY <1>1
      <4> HIDE DEF B
      <4> QED BY <1>1, <2>3, <4>1, Least
    <3>2. m \in 1..Len(t) /\ m + 1 \in 1..Len(s) /\ m + 1 # 1 /\ (m + 1) - 1 = m BY <1>1
    <3>3. f[m + 1] = f[m] \o s[m + 1]
      <4>1. PICK k : k = m + 1 OBVIOUS
      <4>2. k \in 1..Len(s) BY <3>2, <4>1
      <4>3. f[k] = IF k = 1 THEN s[k] ELSE f[k - 1] \o s[k] BY <1>2, <1>3, <4>2, FlattenedIs, ZenonT(60)
      <4>4. k # 1 /\ k - 1 = m BY <3>2, <4>1
      <4> QED BY <4>1, <4>3, <4>4
    <3>4. s[m + 1] = t[m] BY <1>1, <3>2
    <3>5. g[m] = IF m = 1 THEN t[m] ELSE g[m - 1] \o t[m] BY <1>1, <2>1, <3>2, FlattenedIs, SMTT(30)
    <3>6. CASE m = 1
      <4>1. f[m + 1] = x \o t[m] /\ g[m] = t[m] BY <1>4, <3>3, <3>4, <3>5, <3>6
      <4> QED BY <4>1
    <3>7. CASE m # 1
      <4>1. m - 1 \in 1..Len(t) /\ ~(m <= m - 1) /\ (m - 1) + 1 = m BY <3>2, <3>7
      <4>2. f[m] = x \o g[m - 1] BY <3>1, <4>1
      <4>3. g[m - 1] \in Seq(T) /\ t[m] \in Seq(T) BY <1>1, <2>2, <3>2, <4>1
      <4>4. (x \o g[m - 1]) \o t[m] = x \o (g[m - 1] \o t[m])
        <5>1. PICK u \in Seq(T) : u = g[m - 1] BY <4>3
        <5>2. PICK v \in Seq(T) : v = t[m] BY <4>3
        <5>3. x \in Seq(T) OBVIOUS
        <5>4. (x \o u) \o v = x \o (u \o v) BY <1>associative, <5>3, Zenon
        <5> QED BY <5>1, <5>2, <5>4
      <4> QED BY <3>3, <3>4, <3>5, <3>7, <4>2, <4>4
    <3> QED BY <3>6, <3>7
  <2>4. Len(t) \in 1..Len(t) BY <1>1, <1>6
  <2>5. f[Len(t) + 1] = x \o g[Len(t)] BY <2>3, <2>4
  <2> QED BY <1>1, <1>2, <2>1, <2>5
<1> QED BY <1>5, <1>6

\* What one argument is when response files are written out.
Written(a, of) == IF a.kind = "response" THEN of[a.text] ELSE <<a>>

\* What the response files may be taken for.
Contents == [DOMAIN Responses -> Seq(Arguments)]

LEMMA WrittenTyped ==
    ASSUME NEW of \in Contents, NEW a \in Arguments
    PROVE  Written(a, of) \in Seq(Arguments)
<1>1. CASE a.kind = "response"
  <2>1. a.text \in DOMAIN Responses BY <1>1 DEF Arguments
  <2> QED BY <1>1, <2>1 DEF Written, Contents
<1>2. CASE a.kind # "response"
  <2>1. <<a>> \in Seq(Arguments) OBVIOUS
  <2> QED BY <1>2, <2>1 DEF Written
<1> QED BY <1>1, <1>2

LEMMA InlineEmpty == ASSUME NEW of PROVE Inline(<<>>, of) = <<>>
<1>1. DOMAIN <<>> = {} OBVIOUS
<1>2. [n \in DOMAIN <<>> |-> Written(<<>>[n], of)] = <<>>
  <2>1. PICK f : f = [n \in DOMAIN <<>> |-> Written(<<>>[n], of)] OBVIOUS
  <2>2. f = [n \in {} |-> f[n]] BY <1>1, <2>1
  <2>3. {} = 1..0 OBVIOUS
  <2>4. f \in Seq({}) /\ Len(f) = 0 BY <2>2, <2>3
  <2> QED BY <2>1, <2>4
<1> QED BY <1>2, FlattenEmpty DEF Inline, Written

LEMMA InlineTyped ==
    ASSUME NEW of \in Contents, NEW args \in Seq(Arguments)
    PROVE  Inline(args, of) \in Seq(Arguments)
<1> DEFINE pieces == [n \in DOMAIN args |-> Written(args[n], of)]
<1>1. DOMAIN args = 1..Len(args) /\ Len(args) \in Nat /\ \A n \in 1..Len(args) : args[n] \in Arguments
  OBVIOUS
<1>2. \A n \in 1..Len(args) : Written(args[n], of) \in Seq(Arguments) BY <1>1, WrittenTyped
<1>3. pieces \in Seq(Seq(Arguments)) BY <1>1, <1>2
<1>4. Inline(args, of) = FlattenSeq(pieces) BY DEF Inline, Written
<1> HIDE DEF pieces
<1> QED BY <1>3, <1>4, FlattenTyped

\* The first argument is written first.
LEMMA InlineFirst ==
    ASSUME NEW of \in Contents, NEW args \in Seq(Arguments), NEW a \in Arguments,
           NEW rest \in Seq(Arguments), args = <<a>> \o rest
    PROVE  Inline(args, of) = Written(a, of) \o Inline(rest, of)
<1> DEFINE all == [n \in DOMAIN args |-> Written(args[n], of)]
           others == [n \in DOMAIN rest |-> Written(rest[n], of)]
<1>1. /\ Len(rest) \in Nat /\ Len(args) = Len(rest) + 1 /\ args[1] = a
      /\ \A n \in 1..Len(rest) : args[n + 1] = rest[n]
  OBVIOUS
<1>2. /\ DOMAIN args = 1..Len(args) /\ DOMAIN rest = 1..Len(rest)
      /\ \A n \in 1..Len(args) : args[n] \in Arguments
      /\ \A n \in 1..Len(rest) : rest[n] \in Arguments
  OBVIOUS
<1>3. all \in Seq(Seq(Arguments)) /\ Len(all) = Len(args) /\ all[1] = Written(a, of)
  <2>1. \A n \in 1..Len(args) : Written(args[n], of) \in Seq(Arguments) BY <1>2, WrittenTyped
  <2>2. Len(args) \in Nat /\ 1 \in 1..Len(args) BY <1>1
  <2> QED BY <1>1, <1>2, <2>1, <2>2
<1>4. others \in Seq(Seq(Arguments)) /\ Len(others) = Len(rest)
  <2>1. \A n \in 1..Len(rest) : Written(rest[n], of) \in Seq(Arguments) BY <1>2, WrittenTyped
  <2> QED BY <1>1, <1>2, <2>1
<1>5. \A n \in 1..Len(rest) : all[n + 1] = others[n]
  <2>1. \A n \in 1..Len(rest) : n + 1 \in 1..Len(args) BY <1>1
  <2> QED BY <1>1, <1>2, <2>1
<1>6. Written(a, of) \in Seq(Arguments) BY WrittenTyped
<1>7. Inline(args, of) = FlattenSeq(all) /\ Inline(rest, of) = FlattenSeq(others)
  BY DEF Inline, Written
<1>8. Len(all) = Len(others) + 1 /\ Len(others) = Len(rest) BY <1>1, <1>3, <1>4
<1> HIDE DEF all, others
<1>9. \A n \in 1..Len(others) : all[n + 1] = others[n] BY <1>5, <1>8
<1>10. FlattenSeq(all) = Written(a, of) \o FlattenSeq(others)
  BY <1>3, <1>4, <1>6, <1>8, <1>9, FlattenFirst
<1> QED BY <1>7, <1>10

\* What the response files are n streams deep, for each n.
Expanding(N, g) ==
    g = [n \in 0..N |-> [f \in DOMAIN Responses |->
           IF n = 0 \/ Responses[f].kind # "lines" THEN <<>>
           ELSE Inline(Responses[f].args, g[n - 1])]]

LEMMA ExpandingExists == ASSUME NEW N \in Nat PROVE \E g : Expanding(N, g)
<1> DEFINE B == {m \in 0..N : ~\E g : Expanding(m, g)}
           Step(n, before) ==
             [f \in DOMAIN Responses |->
                IF n = 0 \/ Responses[f].kind # "lines" THEN <<>>
                ELSE Inline(Responses[f].args, before)]
<1>1. SUFFICES ASSUME B # {} PROVE FALSE
  <2>1. N \in 0..N OBVIOUS
  <2> QED BY <1>1, <2>1
<1>2. PICK m \in B : \A k \in B : m <= k
  <2>1. B \in SUBSET (0..N) OBVIOUS
  <2> HIDE DEF B
  <2> QED BY <1>1, <2>1, Least
<1>3. ASSUME NEW k, NEW g PROVE Expanding(k, g) <=> g = [n \in 0..k |-> Step(n, g[n - 1])]
  BY DEF Expanding
<1>4. \A a, c : Step(0, a) = Step(0, c) OBVIOUS
<1>5. m \in 0..N /\ m \in Nat BY <1>2
<1>6. ~\E g : Expanding(m, g) BY <1>2
<1>7. m # 0 => \E g : Expanding(m - 1, g)
  <2>1. SUFFICES ASSUME m # 0 PROVE m - 1 \notin B BY <1>5
  <2>2. ~(m <= m - 1) BY <1>5
  <2> QED BY <1>2, <2>2
<1> HIDE DEF B, Step
<1>8. CASE m = 0
  <2>1. PICK g : g = [n \in 0..0 |-> Step(0, N)] OBVIOUS
  <2>2. \A n \in 0..0 : Step(0, N) = Step(n, g[n - 1]) BY <1>4
  <2>3. g = [n \in 0..0 |-> Step(n, g[n - 1])] BY <2>1, <2>2
  <2> QED BY <1>3, <1>6, <1>8, <2>3
<1>9. CASE m # 0
  <2>1. PICK g : Expanding(m - 1, g) BY <1>7, <1>9
  <2>2. \A n \in 0..(m - 1) : g[n] = Step(n, g[n - 1])
    <3>1. g = [n \in 0..(m - 1) |-> Step(n, g[n - 1])] BY <1>3, <2>1
    <3> QED BY <3>1
  <2>3. PICK h : h = [n \in 0..m |-> Step(n, g[n - 1])] OBVIOUS
  <2>4. ASSUME NEW n \in 0..(m - 1) PROVE h[n] = g[n]
    <3>1. n \in 0..m BY <1>5
    <3> QED BY <2>2, <2>3, <3>1
  <2>5. ASSUME NEW n \in 0..m PROVE Step(n, g[n - 1]) = Step(n, h[n - 1])
    <3>1. CASE n = 0 BY <1>4, <3>1
    <3>2. CASE n # 0
      <4>1. n - 1 \in 0..(m - 1) BY <1>5, <3>2
      <4>2. h[n - 1] = g[n - 1] BY <2>4, <4>1
      <4> QED BY <4>2
    <3> QED BY <3>1, <3>2
  <2>6. h = [n \in 0..m |-> Step(n, h[n - 1])] BY <2>3, <2>5
  <2> QED BY <1>3, <1>6, <2>6
<1> QED BY <1>8, <1>9

LEMMA ExpansionIs ==
    ASSUME NEW n \in 0..MaxStreams
    PROVE  Expansion[n] = [f \in DOMAIN Responses |->
             IF n = 0 \/ Responses[f].kind # "lines" THEN <<>>
             ELSE Inline(Responses[f].args, Expansion[n - 1])]
<1>1. MaxStreams \in Nat BY ArgumentsAssumption
<1>2. Expanding(MaxStreams, CHOOSE g : Expanding(MaxStreams, g)) BY <1>1, ExpandingExists
<1>3. Expansion = CHOOSE g : Expanding(MaxStreams, g) BY DEF Expansion, Expanding
<1>4. Expanding(MaxStreams, Expansion) BY <1>2, <1>3
<1> QED BY <1>4 DEF Expanding

LEMMA ExpansionTyped == ASSUME NEW n \in 0..MaxStreams PROVE Expansion[n] \in Contents
<1> DEFINE B == {m \in 0..MaxStreams : Expansion[m] \notin Contents}
<1>1. SUFFICES ASSUME B # {} PROVE FALSE OBVIOUS
<1>2. MaxStreams \in Nat BY ArgumentsAssumption
<1>3. PICK m \in B : \A k \in B : m <= k
  <2>1. B \in SUBSET (0..MaxStreams) OBVIOUS
  <2> HIDE DEF B
  <2> QED BY <1>1, <1>2, <2>1, Least
<1>4. m \in 0..MaxStreams BY <1>3
<1>5. m # 0 => Expansion[m - 1] \in Contents
  <2>1. SUFFICES ASSUME m # 0 PROVE m - 1 \notin B BY <1>2, <1>4
  <2>2. ~(m <= m - 1) BY <1>2, <1>4
  <2> QED BY <1>3, <2>2
<1>6. ASSUME NEW f \in DOMAIN Responses
      PROVE  (IF m = 0 \/ Responses[f].kind # "lines" THEN <<>>
              ELSE Inline(Responses[f].args, Expansion[m - 1])) \in Seq(Arguments)
  <2>1. CASE m = 0 \/ Responses[f].kind # "lines"
    <3>1. <<>> \in Seq(Arguments) OBVIOUS
    <3> QED BY <2>1, <3>1
  <2>2. CASE ~(m = 0 \/ Responses[f].kind # "lines")
    <3>1. Responses[f].args \in Seq(Arguments) BY <2>2, ArgumentsAssumption
    <3>2. PICK of \in Contents : of = Expansion[m - 1] BY <1>5, <2>2
    <3>3. Inline(Responses[f].args, of) \in Seq(Arguments) BY <3>1, InlineTyped
    <3> QED BY <2>2, <3>2, <3>3
  <2> QED BY <2>1, <2>2
<1>7. Expansion[m] = [f \in DOMAIN Responses |->
             IF m = 0 \/ Responses[f].kind # "lines" THEN <<>>
             ELSE Inline(Responses[f].args, Expansion[m - 1])]
  BY <1>4, ExpansionIs
<1>8. Expansion[m] \in Contents BY <1>6, <1>7 DEF Contents
<1> QED BY <1>3, <1>8

-----------------------------------------------------------------------------
(* Options and their values on a line that grows *)

\* The last of some of the first n places.
LEMMA MaxIs ==
    ASSUME NEW n \in Nat, NEW B \in SUBSET (1..n), B # {}
    PROVE  Max(B) \in B /\ \A m \in B : m <= Max(B)
<1> DEFINE C == {n - m : m \in B}
<1>1. \E x \in C : \A y \in C : x <= y
  <2>1. \A m \in B : n - m \in 0..n OBVIOUS
  <2>2. C \in SUBSET (0..n) /\ C # {} BY <2>1
  <2> HIDE DEF C
  <2> QED BY <2>2, Least
<1>2. PICK m \in B : \A j \in B : n - m <= n - j BY <1>1
<1>3. m \in Int /\ \A j \in B : j \in Int /\ j <= m BY <1>2
<1>4. \E x \in B : \A y \in B : x >= y BY <1>3
<1>5. Max(B) \in B /\ \A y \in B : Max(B) >= y BY <1>4 DEF Max
<1> QED BY <1>3, <1>5

OptionsBefore(s, n) == {j \in 1..n : s[j].kind = "option"}

LEMMA SameOptionBefore ==
    ASSUME NEW s, NEW t, NEW n \in Nat, NEW m \in Nat,
           OptionsBefore(s, n) = OptionsBefore(t, m), \A j \in 1..n : t[j] = s[j]
    PROVE  OptionBefore(t, m) = OptionBefore(s, n)
<1>1. CASE OptionsBefore(s, n) = {} BY <1>1 DEF OptionBefore, OptionsBefore
<1>2. CASE OptionsBefore(s, n) # {}
  <2>1. PICK B : B = OptionsBefore(s, n) OBVIOUS
  <2>2. B \in SUBSET (1..n) BY <2>1 DEF OptionsBefore
  <2>3. Max(B) \in 1..n BY <1>2, <2>1, <2>2, MaxIs
  <2>4. OptionBefore(s, n) = Find(s[Max(B)].text) BY <1>2, <2>1 DEF OptionBefore, OptionsBefore
  <2>5. OptionBefore(t, m) = Find(t[Max(B)].text) BY <1>2, <2>1 DEF OptionBefore, OptionsBefore
  <2> QED BY <2>3, <2>4, <2>5
<1> QED BY <1>1, <1>2

LEMMA OptionBeforeAppend ==
    ASSUME NEW s \in Seq(Arguments), NEW a \in Arguments, NEW t, t = Append(s, a)
    PROVE  /\ \A n \in 1..Len(s) : OptionBefore(t, n) = OptionBefore(s, n)
           /\ OptionBefore(t, Len(s) + 1) =
                 IF a.kind = "option" THEN Find(a.text) ELSE OptionBefore(s, Len(s))
<1>1. /\ Len(s) \in Nat /\ t[Len(s) + 1] = a
      /\ \A j \in 1..Len(s) : t[j] = s[j]
  OBVIOUS
<1>2. ASSUME NEW n \in 1..Len(s) PROVE OptionBefore(t, n) = OptionBefore(s, n)
  <2>1. n \in Nat /\ \A j \in 1..n : j \in 1..Len(s) BY <1>1
  <2>2. \A j \in 1..n : t[j] = s[j] BY <1>1, <2>1
  <2>3. OptionsBefore(s, n) = OptionsBefore(t, n) BY <2>2 DEF OptionsBefore
  <2> HIDE <1>1
  <2> QED BY <2>1, <2>2, <2>3, SameOptionBefore
<1>3. PICK m \in Nat : m = Len(s) + 1 BY <1>1
<1>4. CASE a.kind = "option"
  <2>1. m \in OptionsBefore(t, m) BY <1>1, <1>3, <1>4 DEF OptionsBefore
  <2>2. Max(OptionsBefore(t, m)) \in OptionsBefore(t, m)
        /\ \A j \in OptionsBefore(t, m) : j <= Max(OptionsBefore(t, m))
    <3>1. OptionsBefore(t, m) \in SUBSET (1..m) BY DEF OptionsBefore
    <3> QED BY <2>1, <3>1, MaxIs
  <2>3. Max(OptionsBefore(t, m)) = m
    <3>1. Max(OptionsBefore(t, m)) \in 1..m BY <2>2 DEF OptionsBefore
    <3> QED BY <2>1, <2>2, <3>1
  <2>4. OptionBefore(t, m) = Find(t[m].text) BY <2>1, <2>3 DEF OptionBefore, OptionsBefore
  <2> QED BY <1>1, <1>2, <1>3, <1>4, <2>4
<1>5. CASE a.kind # "option"
  <2>1. OptionsBefore(s, Len(s)) = OptionsBefore(t, m)
    <3>1. ASSUME NEW j \in 1..m, t[j].kind = "option" PROVE j \in 1..Len(s)
      <4>1. j # Len(s) + 1 BY <1>1, <1>5, <3>1
      <4> QED BY <1>1, <1>3, <4>1
    <3>2. \A j \in 1..Len(s) : j \in 1..m BY <1>1, <1>3
    <3> QED BY <1>1, <3>1, <3>2 DEF OptionsBefore
  <2>2. PICK n \in Nat : n = Len(s) BY <1>1
  <2>3. OptionsBefore(s, n) = OptionsBefore(t, m) /\ \A j \in 1..n : t[j] = s[j]
    BY <1>1, <2>1, <2>2
  <2>4. OptionBefore(t, m) = OptionBefore(s, n) BY <2>3, SameOptionBefore
  <2> QED BY <1>2, <1>3, <1>5, <2>2, <2>4
<1> QED BY <1>4, <1>5

ValuesAfter(s, a, o) ==
    IF a.kind = "value" /\ OptionBefore(s, Len(s)) = o
    THEN ValuesOf(s, o) \cup {Len(s) + 1} ELSE ValuesOf(s, o)

LEMMA ValuesOfAppend ==
    ASSUME NEW s \in Seq(Arguments), NEW a \in Arguments, NEW t, t = Append(s, a), NEW o
    PROVE  ValuesOf(t, o) = ValuesAfter(s, a, o)
<1>1. /\ Len(s) \in Nat /\ t[Len(s) + 1] = a
      /\ \A j \in 1..Len(s) : t[j] = s[j]
      /\ DOMAIN s = 1..Len(s) /\ DOMAIN t = 1..(Len(s) + 1)
  OBVIOUS
<1>2. 1..(Len(s) + 1) = 1..Len(s) \cup {Len(s) + 1} BY <1>1
<1>3. \A n \in 1..Len(s) : OptionBefore(t, n) = OptionBefore(s, n) BY OptionBeforeAppend
<1>4. a.kind = "value" => OptionBefore(t, Len(s) + 1) = OptionBefore(s, Len(s))
  BY OptionBeforeAppend
<1>5. \A n \in 1..Len(s) : n \in ValuesOf(t, o) <=> n \in ValuesOf(s, o)
  BY <1>1, <1>2, <1>3 DEF ValuesOf
<1>6. Len(s) + 1 \in ValuesOf(t, o) <=> a.kind = "value" /\ OptionBefore(s, Len(s)) = o
  BY <1>1, <1>2, <1>4 DEF ValuesOf
<1>7. ValuesOf(t, o) \subseteq 1..Len(s) \cup {Len(s) + 1} /\ ValuesOf(s, o) \subseteq 1..Len(s)
  BY <1>1, <1>2 DEF ValuesOf
<1>8. PICK V : V = ValuesOf(t, o) OBVIOUS
<1>9. PICK U : U = ValuesOf(s, o) OBVIOUS
<1>10. CASE a.kind = "value" /\ OptionBefore(s, Len(s)) = o
  <2>1. V = U \cup {Len(s) + 1} BY <1>5, <1>6, <1>7, <1>8, <1>9, <1>10
  <2> QED BY <1>8, <1>9, <1>10, <2>1 DEF ValuesAfter
<1>11. CASE ~(a.kind = "value" /\ OptionBefore(s, Len(s)) = o)
  <2>1. V = U BY <1>5, <1>6, <1>7, <1>8, <1>9, <1>11
  <2> QED BY <1>8, <1>9, <1>11, <2>1 DEF ValuesAfter
<1> QED BY <1>10, <1>11

\* The values of an option are those at the places V of line s, in their order.
Ranked(values, V, s) ==
    /\ Len(values) = Cardinality(V)
    /\ \A n \in V : values[Cardinality({j \in V : j <= n})] = s[n].text

LEMMA RankedStays ==
    ASSUME NEW values, NEW s, NEW t, NEW V, Ranked(values, V, s), \A n \in V : t[n] = s[n]
    PROVE  Ranked(values, V, t)
BY DEF Ranked

LEMMA RankedGrows ==
    ASSUME NEW N \in Nat, NEW V \in SUBSET (1..N), NEW T, NEW values \in Seq(T), NEW x \in T,
           NEW s, NEW t, Ranked(values, V, s), \A n \in V : t[n] = s[n], t[N + 1].text = x
    PROVE  Ranked(Append(values, x), V \cup {N + 1}, t)
<1> DEFINE W == V \cup {N + 1}
           Rank(n) == Cardinality({j \in V : j <= n})
<1>1. IsFiniteSet(V) /\ N + 1 \notin V
  <2>1. IsFiniteSet(1..N) BY FS_Interval
  <2>2. IsFiniteSet(V) BY <2>1, FS_Subset
  <2>3. N + 1 \notin 1..N OBVIOUS
  <2> QED BY <2>2, <2>3
<1>2. Cardinality(V) \in Nat /\ Cardinality(W) = Cardinality(V) + 1
  BY <1>1, FS_CardinalityType, FS_AddElement
<1>3. Len(values) = Cardinality(V) BY DEF Ranked
<1>4. Len(Append(values, x)) = Cardinality(W) BY <1>2, <1>3
<1>5. ASSUME NEW n \in V
      PROVE  Append(values, x)[Cardinality({j \in W : j <= n})] = t[n].text
  <2>1. {j \in W : j <= n} = {j \in V : j <= n} BY N + 1 > n
  <2>2. PICK B : B = {j \in V : j <= n} OBVIOUS
  <2>3. B \in SUBSET V /\ n \in B BY <2>2
  <2>4. IsFiniteSet(B) /\ Cardinality(B) <= Cardinality(V) BY <1>1, <2>3, FS_Subset
  <2>5. Cardinality(B) \in Nat /\ Cardinality(B) # 0 BY <2>3, <2>4, FS_CardinalityType, FS_EmptySet
  <2>6. PICK r \in Nat : r = Cardinality(B) BY <2>5
  <2>7. r \in 1..Len(values) BY <1>2, <1>3, <2>4, <2>5, <2>6
  <2>8. Append(values, x)[r] = values[r] BY <2>7
  <2>9. values[r] = s[n].text BY <2>2, <2>6 DEF Ranked
  <2> QED BY <2>1, <2>2, <2>6, <2>8, <2>9
<1>6. Append(values, x)[Cardinality({j \in W : j <= N + 1})] = t[N + 1].text
  <2>1. {j \in W : j <= N + 1} = W
    <3>1. \A j \in V : j \in Int /\ j <= N + 1 OBVIOUS
    <3>2. \A j \in W : j <= N + 1 BY <3>1
    <3> HIDE DEF W
    <3> QED BY <3>2
  <2>2. PICK r \in Nat : r = Cardinality(W) BY <1>2
  <2>3. r = Len(values) + 1 BY <1>2, <1>3, <2>2
  <2>4. Append(values, x)[r] = x BY <2>3
  <2> QED BY <2>1, <2>2, <2>4
<1>7. \A n \in W : Append(values, x)[Cardinality({j \in W : j <= n})] = t[n].text BY <1>5, <1>6
<1> HIDE DEF W
<1>8. Ranked(Append(values, x), W, t) BY <1>4, <1>7 DEF Ranked
<1> QED BY <1>8 DEF W

-----------------------------------------------------------------------------
(* What each option gets *)

\* What the response files named in the k-th reader are taken for.
Within(k) == Expansion[MaxStreams + 1 - k]

\* What is left of the line that is written out, from each reader outwards.
Behind(rs, after) ==
    /\ after \in [0..Len(rs) -> Seq(Arguments)] /\ after[0] = <<>>
    /\ \A k \in 1..Len(rs) : after[k] = Inline(rs[k], Within(k)) \o after[k - 1]

\* What was taken off that line has been understood.
Understood(done) ==
    /\ last = OptionBefore(done, Len(done))
    /\ \A o \in Option : Ranked(Given(o), ValuesOf(done, o), done)
    /\ \A o \in DOMAIN m_options :
         \E n \in 1..Len(done) : done[n].kind = "option" /\ Find(done[n].text) = o
    /\ \A n \in 1..Len(done) :
         done[n].kind = "option" => Find(done[n].text) \in DOMAIN m_options

ReadInv ==
    main = "reading" =>
    /\ Len(readers) >= 1
    /\ \E done \in Seq(Arguments) : \E after :
         Behind(readers, after) /\ WrittenOut = done \o after[Len(readers)] /\ Understood(done)

LEMMA WithinTyped == ASSUME NEW k \in 1..(MaxStreams + 1) PROVE Within(k) \in Contents
<1>1. MaxStreams \in Nat BY ArgumentsAssumption
<1>2. PICK n \in 0..MaxStreams : n = MaxStreams + 1 - k BY <1>1
<1> QED BY <1>2, ExpansionTyped DEF Within

LEMMA ReadStarts == Init => ReadInv
<1> SUFFICES ASSUME Init PROVE ReadInv OBVIOUS
<1>1. readers = <<argv>> /\ argv \in Seq(Arguments) /\ last = None /\ m_options = << >>
  BY ArgumentsAssumption DEF Init
<1>2. MaxStreams \in Nat /\ 1 \in 1..(MaxStreams + 1) BY ArgumentsAssumption
<1>3. Within(1) = Expansion[MaxStreams]
  <2>1. MaxStreams + 1 - 1 = MaxStreams BY <1>2
  <2> QED BY <2>1 DEF Within
<1>4. WrittenOut = Inline(argv, Within(1)) BY <1>3 DEF WrittenOut
<1>5. WrittenOut \in Seq(Arguments) BY <1>1, <1>2, <1>4, WithinTyped, InlineTyped
<1>6. PICK w \in Seq(Arguments) : w = WrittenOut BY <1>5
<1>7. PICK after : after = [k \in 0..1 |-> IF k = 0 THEN <<>> ELSE w] OBVIOUS
<1>8. after[0] = <<>> /\ after[1] = w /\ after \in [0..1 -> Seq(Arguments)]
  <2>1. <<>> \in Seq(Arguments) OBVIOUS
  <2> QED BY <1>6, <1>7, <2>1
<1>9. Len(readers) = 1 /\ readers[1] = argv BY <1>1
<1>10. w = w \o <<>> /\ w = <<>> \o w OBVIOUS
<1>11. Behind(readers, after)
  <2>1. ASSUME NEW k \in 1..1 PROVE after[k] = Inline(readers[k], Within(k)) \o after[k - 1]
    <3>1. k = 1 /\ k - 1 = 0 OBVIOUS
    <3> QED BY <1>4, <1>6, <1>8, <1>9, <1>10, <3>1
  <2> QED BY <1>8, <1>9, <2>1 DEF Behind
<1>12. Understood(<<>>)
  <2>1. <<>> \in Seq(Arguments) /\ Len(<<>>) = 0 /\ 1..0 = {} /\ DOMAIN <<>> = {} OBVIOUS
  <2>2. last = OptionBefore(<<>>, 0) BY <1>1, <2>1 DEF OptionBefore
  <2>3. ASSUME NEW o PROVE Ranked(Given(o), ValuesOf(<<>>, o), <<>>)
    <3>1. Given(o) = <<>> BY <1>1, <2>1 DEF Given
    <3>2. ValuesOf(<<>>, o) = {} BY <2>1 DEF ValuesOf
    <3>3. Cardinality({}) = 0 BY FS_EmptySet
    <3> QED BY <2>1, <3>1, <3>2, <3>3 DEF Ranked
  <2>4. DOMAIN m_options = {} BY <1>1, <2>1
  <2> QED BY <2>1, <2>2, <2>3, <2>4 DEF Understood
<1>13. <<>> \in Seq(Arguments) OBVIOUS
<1>14. WrittenOut = <<>> \o after[Len(readers)] BY <1>6, <1>8, <1>9, <1>10
<1>15. Len(readers) >= 1 BY <1>9
<1> QED BY <1>11, <1>12, <1>13, <1>14, <1>15 DEF ReadInv

\* When an argument is taken, what is left of the line loses its first part.
LEMMA TakenFrom ==
    ASSUME CommandTypes, reading, NEW after, Behind(readers, after)
    PROVE  LET n == Len(readers)
               tail == Inline(Tail(Last(readers)), Within(n)) \o after[n - 1]
           IN  /\ tail \in Seq(Arguments)
               /\ after[n] = Written(Argument, Within(n)) \o tail
<1>1. PICK n : n = Len(readers) OBVIOUS
<1>2. /\ n \in 1..(MaxStreams + 1) /\ Last(readers) \in Seq(Arguments)
      /\ Last(readers) = readers[n] /\ Argument \in Arguments
      /\ Tail(Last(readers)) \in Seq(Arguments)
      /\ Last(readers) = <<Argument>> \o Tail(Last(readers))
  BY <1>1, ReadingIs
<1>3. PICK s \in Seq(Arguments) : s = Last(readers) BY <1>2
<1>4. PICK rest \in Seq(Arguments) : rest = Tail(Last(readers)) BY <1>2
<1>5. PICK a \in Arguments : a = Argument BY <1>2
<1>6. PICK of \in Contents : of = Within(n) BY <1>2, WithinTyped
<1>7. s = <<a>> \o rest BY <1>2, <1>3, <1>4, <1>5
<1>8. Inline(s, of) = Written(a, of) \o Inline(rest, of) BY <1>7, InlineFirst
<1>9. Written(a, of) \in Seq(Arguments) /\ Inline(rest, of) \in Seq(Arguments)
  BY WrittenTyped, InlineTyped
<1>10. n - 1 \in 0..n /\ n \in 1..n /\ MaxStreams \in Nat BY <1>2, ArgumentsAssumption
<1>11. after[n - 1] \in Seq(Arguments) /\ after[n] = Inline(s, of) \o after[n - 1]
  BY <1>1, <1>2, <1>3, <1>6, <1>10 DEF Behind
<1>12. PICK x \in Seq(Arguments) : x = after[n - 1] BY <1>11
<1>13. PICK u \in Seq(Arguments) : u = Written(a, of) BY <1>9
<1>14. PICK v \in Seq(Arguments) : v = Inline(rest, of) BY <1>9
<1>15. (u \o v) \o x = u \o (v \o x) /\ v \o x \in Seq(Arguments) OBVIOUS
<1>16. after[n] = u \o (v \o x) BY <1>8, <1>11, <1>12, <1>13, <1>14, <1>15
<1> QED BY <1>1, <1>4, <1>5, <1>6, <1>12, <1>13, <1>14, <1>15, <1>16

\* The readers are the same but for the last one, which is rs's last.
LEMMA StillBehind ==
    ASSUME CommandTypes, reading, NEW after, Behind(readers, after),
           NEW tail, tail = Inline(Tail(Last(readers)), Within(Len(readers))) \o after[Len(readers) - 1],
           tail \in Seq(Arguments)
    PROVE  \E then : /\ Behind(Advanced, then) /\ then[Len(readers)] = tail
<1>1. PICK n : n = Len(readers) OBVIOUS
<1>2. PICK rs : rs = Advanced OBVIOUS
<1>3. /\ n \in 1..(MaxStreams + 1) /\ MaxStreams \in Nat /\ Len(rs) = n
      /\ rs[n] = Tail(Last(readers)) /\ \A k \in 1..(n - 1) : rs[k] = readers[k]
  BY <1>1, <1>2, ReadingIs, ArgumentsAssumption
<1>4. PICK then : then = [after EXCEPT ![n] = tail] OBVIOUS
<1>5. /\ after \in [0..n -> Seq(Arguments)] /\ after[0] = <<>>
      /\ \A k \in 1..n : after[k] = Inline(readers[k], Within(k)) \o after[k - 1]
  BY <1>1 DEF Behind
<1>6. /\ then \in [0..n -> Seq(Arguments)] /\ then[n] = tail
      /\ \A k \in 0..(n - 1) : then[k] = after[k]
  BY <1>3, <1>4, <1>5, SMTT(30)
<1>7. ASSUME NEW k \in 1..n PROVE then[k] = Inline(rs[k], Within(k)) \o then[k - 1]
  <2>1. k - 1 \in 0..(n - 1) BY <1>3
  <2>2. then[k - 1] = after[k - 1] BY <1>6, <2>1
  <2>3. CASE k = n BY <1>1, <1>3, <1>6, <2>2, <2>3
  <2>4. CASE k # n
    <3>1. k \in 1..(n - 1) /\ k \in 0..(n - 1) BY <1>3, <2>4
    <3>2. then[k] = after[k] /\ rs[k] = readers[k] BY <1>3, <1>6, <3>1
    <3> QED BY <1>5, <2>2, <3>2
  <2> QED BY <2>3, <2>4
<1>8. then[0] = <<>>
  <2>1. 0 \in 0..(n - 1) BY <1>3
  <2> QED BY <1>5, <1>6, <2>1
<1>9. Behind(rs, then) BY <1>3, <1>6, <1>7, <1>8 DEF Behind
<1> QED BY <1>1, <1>2, <1>6, <1>9

\* An option or a value that has been understood is one more on the line.
LEMMA LineGrows ==
    ASSUME CommandTypes, reading, ReadInv, Argument.kind # "response",
           readers' = Advanced, argv' = argv, main' = main,
           ASSUME NEW done \in Seq(Arguments), NEW a \in Arguments, a = Argument,
                  Understood(done)
           PROVE  Understood(Append(done, a))'
    PROVE  ReadInv'
<1>1. PICK n : n = Len(readers) OBVIOUS
<1>2. Len(readers) >= 1 /\ main = "reading" BY DEF reading, ReadInv
<1>3. PICK done \in Seq(Arguments) : \E after :
         Behind(readers, after) /\ WrittenOut = done \o after[Len(readers)] /\ Understood(done)
  BY <1>2 DEF ReadInv
<1>after. PICK after :
         Behind(readers, after) /\ WrittenOut = done \o after[Len(readers)] /\ Understood(done)
  BY <1>3
<1>4. PICK tail : tail = Inline(Tail(Last(readers)), Within(n)) \o after[n - 1] OBVIOUS
<1>5. PICK a \in Arguments : a = Argument BY ReadingIs
<1>6. Written(a, Within(n)) = <<a>> BY <1>5 DEF Written
<1>7. tail \in Seq(Arguments) /\ after[n] = <<a>> \o tail BY <1>1, <1>after, <1>4, <1>5, <1>6, TakenFrom
<1>8. PICK then : Behind(Advanced, then) /\ then[n] = tail
  BY <1>1, <1>after, <1>4, <1>7, StillBehind
<1>9. PICK line2 : line2 = Append(done, a) OBVIOUS
<1>10. line2 \in Seq(Arguments) /\ done \o (<<a>> \o tail) = line2 \o tail BY <1>7, <1>9
<1>11. WrittenOut' = WrittenOut BY DEF WrittenOut
<1>12. Len(readers') = n BY <1>1, ReadingIs
<1>13. Behind(readers', then) /\ WrittenOut' = line2 \o then[Len(readers')]
  BY <1>1, <1>after, <1>7, <1>8, <1>10, <1>11, <1>12
<1>14. Understood(line2)' BY <1>after, <1>5, <1>9
<1>15. Len(readers') >= 1 BY <1>1, <1>2, <1>12
<1> HIDE DEF Behind, Understood, WrittenOut
<1> QED BY <1>10, <1>13, <1>14, <1>15 DEF ReadInv

LEMMA GrownLine ==
    ASSUME NEW s \in Seq(Arguments), NEW a \in Arguments, NEW t, t = Append(s, a)
    PROVE  /\ Len(s) \in Nat /\ Len(t) = Len(s) + 1 /\ t[Len(s) + 1] = a
           /\ \A n \in 1..Len(s) : t[n] = s[n]
           /\ 1..Len(t) = 1..Len(s) \cup {Len(s) + 1}
           /\ \A o : ValuesOf(s, o) \subseteq 1..Len(s)
<1>1. /\ Len(s) \in Nat /\ Len(t) = Len(s) + 1 /\ t[Len(s) + 1] = a
      /\ \A n \in 1..Len(s) : t[n] = s[n]
      /\ DOMAIN s = 1..Len(s)
  OBVIOUS
<1>2. 1..(Len(s) + 1) = 1..Len(s) \cup {Len(s) + 1} BY <1>1
<1> QED BY <1>1, <1>2 DEF ValuesOf

LEMMA TakeOptionReads == ASSUME CommandTypes, ReadInv, TakeOption PROVE ReadInv'
<1>1. reading /\ Argument.kind = "option" /\ unchangedRun /\ last' = Find(Argument.text)
  BY DEF TakeOption
<1>2. CASE last' = None
  <2>1. main' = "error" BY <1>2 DEF TakeOption, Throw
  <2> QED BY <2>1 DEF ReadInv
<1>3. CASE last' # None
  <2>1. /\ m_options' = With(last', Given(last')) /\ readers' = Advanced /\ main' = main
        /\ argv' = argv
    BY <1>1, <1>3 DEF TakeOption, unchangedRun
  <2>2. PICK o \in Option : o = last' BY <1>1, <1>3, FindIs
  <2>3. Valued(m_options) /\ Given(o) \in Seq(DOMAIN Paths) BY GivenTyped DEF CommandTypes
  <2>4. /\ DOMAIN m_options' = DOMAIN m_options \cup {o} /\ m_options'[o] = Given(o)
        /\ \A q \in DOMAIN m_options \ {o} : m_options'[q] = m_options[q]
    BY <2>1, <2>2, <2>3, WithIs, ZenonT(60)
  <2>5. ASSUME NEW q PROVE Given(q)' = Given(q) BY <2>4 DEF Given
  <2>6. ASSUME NEW done \in Seq(Arguments), NEW a \in Arguments, a = Argument, Understood(done)
        PROVE  Understood(Append(done, a))'
    <3>1. PICK t : t = Append(done, a) OBVIOUS
    <3>2. PICK N \in Nat : N = Len(done) OBVIOUS
    <3>3. /\ Len(t) = N + 1 /\ t[N + 1] = a /\ \A n \in 1..N : t[n] = done[n]
          /\ 1..Len(t) = 1..N \cup {N + 1} /\ \A q : ValuesOf(done, q) \subseteq 1..N
      BY <3>1, <3>2, GrownLine
    <3>4. a.kind = "option" /\ o = Find(a.text) BY <1>1, <2>2, <2>6
    <3>5. OptionBefore(t, N + 1) = Find(a.text) BY <3>1, <3>2, <3>4, OptionBeforeAppend
    <3>6. last' = OptionBefore(t, Len(t)) BY <2>2, <3>3, <3>4, <3>5
    <3>7. ASSUME NEW q \in Option PROVE Ranked(Given(q)', ValuesOf(t, q), t)
      <4>values. ValuesOf(t, q) = ValuesAfter(done, a, q) BY <3>1, ValuesOfAppend
      <4>1. ValuesOf(t, q) = ValuesOf(done, q) BY <3>4, <4>values DEF ValuesAfter
      <4>2. Ranked(Given(q), ValuesOf(done, q), done) BY <2>6 DEF Understood
      <4>3. \A n \in ValuesOf(done, q) : t[n] = done[n] BY <3>3
      <4>4. Ranked(Given(q), ValuesOf(done, q), t) BY <4>2, <4>3, RankedStays
      <4> QED BY <2>5, <4>1, <4>4
    <3>8. /\ \A q \in DOMAIN m_options :
               \E n \in 1..N : done[n].kind = "option" /\ Find(done[n].text) = q
          /\ \A n \in 1..N : done[n].kind = "option" => Find(done[n].text) \in DOMAIN m_options
      BY <2>6, <3>2 DEF Understood
    <3>9. \A q \in DOMAIN m_options' :
            \E n \in 1..Len(t) : t[n].kind = "option" /\ Find(t[n].text) = q
      BY <2>4, <3>3, <3>4, <3>8
    <3>10. \A n \in 1..Len(t) : t[n].kind = "option" => Find(t[n].text) \in DOMAIN m_options'
      BY <2>4, <3>3, <3>4, <3>8
    <3>11. Understood(t)' BY <3>6, <3>7, <3>9, <3>10 DEF Understood
    <3> QED BY <3>1, <3>11
  <2> QED BY <1>1, <2>1, <2>6, LineGrows
<1> QED BY <1>2, <1>3

LEMMA TakeValueReads == ASSUME CommandTypes, ReadInv, TakeValue PROVE ReadInv'
<1>1. reading /\ Argument.kind = "value" /\ unchangedRun /\ last' = last
  BY DEF TakeValue
<1>2. CASE last = None
  <2>1. main' = "error" BY <1>2 DEF TakeValue, Throw
  <2> QED BY <2>1 DEF ReadInv
<1>3. CASE last # None
  <2>1. /\ m_options' = With(last, Append(Given(last), Argument.text)) /\ readers' = Advanced
        /\ main' = main /\ argv' = argv
    BY <1>1, <1>3 DEF TakeValue, unchangedRun
  <2>2. PICK o \in Option : o = last BY <1>3 DEF CommandTypes
  <2>3. Valued(m_options) /\ Given(o) \in Seq(DOMAIN Paths) BY GivenTyped DEF CommandTypes
  <2>4. PICK x \in DOMAIN Paths : x = Argument.text
    <3>1. Argument \in Arguments BY <1>1, ReadingIs
    <3> QED BY <1>1, <3>1 DEF Arguments
  <2>5. Append(Given(o), x) \in Seq(DOMAIN Paths) BY <2>3
  <2>6. /\ DOMAIN m_options' = DOMAIN m_options \cup {o} /\ m_options'[o] = Append(Given(o), x)
        /\ \A q \in DOMAIN m_options \ {o} : m_options'[q] = m_options[q]
    BY <2>1, <2>2, <2>3, <2>4, <2>5, WithIs, ZenonT(60)
  <2>7. ASSUME NEW q, q # o PROVE Given(q)' = Given(q) BY <2>6, <2>7 DEF Given
  <2>8. Given(o)' = Append(Given(o), x) BY <2>6 DEF Given
  <2>9. ASSUME NEW done \in Seq(Arguments), NEW a \in Arguments, a = Argument, Understood(done)
        PROVE  Understood(Append(done, a))'
    <3>1. PICK t : t = Append(done, a) OBVIOUS
    <3>2. PICK N \in Nat : N = Len(done) OBVIOUS
    <3>3. /\ Len(t) = N + 1 /\ t[N + 1] = a /\ \A n \in 1..N : t[n] = done[n]
          /\ 1..Len(t) = 1..N \cup {N + 1} /\ \A q : ValuesOf(done, q) \subseteq 1..N
      BY <3>1, <3>2, GrownLine
    <3>4. a.kind = "value" /\ a.kind # "option" /\ a.text = x BY <1>1, <2>4, <2>9
    <3>5. OptionBefore(done, N) = o BY <2>2, <2>9, <3>2 DEF Understood
    <3>6. OptionBefore(t, N + 1) = OptionBefore(done, N)
      BY <3>1, <3>2, <3>4, OptionBeforeAppend
    <3>7. last' = OptionBefore(t, Len(t)) BY <1>1, <2>2, <3>3, <3>5, <3>6
    <3>8. ASSUME NEW q \in Option PROVE Ranked(Given(q)', ValuesOf(t, q), t)
      <4>1. Ranked(Given(q), ValuesOf(done, q), done) BY <2>9 DEF Understood
      <4>2. \A n \in ValuesOf(done, q) : t[n] = done[n] BY <3>3
      <4>values. ValuesOf(t, q) = ValuesAfter(done, a, q) BY <3>1, ValuesOfAppend
      <4>3. CASE q = o
        <5>1. ValuesOf(t, q) = ValuesOf(done, q) \cup {N + 1}
          BY <3>2, <3>4, <3>5, <4>3, <4>values DEF ValuesAfter
        <5>2. PICK V \in SUBSET (1..N) : V = ValuesOf(done, q) BY <3>3
        <5>3. PICK values \in Seq(DOMAIN Paths) : values = Given(q) BY <2>3, <4>3
        <5>4. Ranked(values, V, done) /\ (\A n \in V : t[n] = done[n]) /\ t[N + 1].text = x
          BY <3>3, <3>4, <4>1, <4>2, <5>2, <5>3
        <5>5. Ranked(Append(values, x), V \cup {N + 1}, t) BY <5>4, RankedGrows
        <5> QED BY <2>8, <4>3, <5>1, <5>2, <5>3, <5>5
      <4>4. CASE q # o
        <5>1. ValuesOf(t, q) = ValuesOf(done, q) BY <3>2, <3>5, <4>4, <4>values DEF ValuesAfter
        <5>2. Ranked(Given(q), ValuesOf(done, q), t) BY <4>1, <4>2, RankedStays
        <5> QED BY <2>7, <4>4, <5>1, <5>2
      <4> QED BY <4>3, <4>4
    <3>9. /\ \A q \in DOMAIN m_options :
               \E n \in 1..N : done[n].kind = "option" /\ Find(done[n].text) = q
          /\ \A n \in 1..N : done[n].kind = "option" => Find(done[n].text) \in DOMAIN m_options
      BY <2>9, <3>2 DEF Understood
    <3>10. o \in DOMAIN m_options
      <4>1. PICK B : B = OptionsBefore(done, N) OBVIOUS
      <4>2. B # {} /\ o = Find(done[Max(B)].text)
        BY <1>3, <2>2, <3>5, <4>1 DEF OptionBefore, OptionsBefore
      <4>3. B \in SUBSET (1..N) BY <4>1 DEF OptionsBefore
      <4>4. Max(B) \in B BY <4>2, <4>3, MaxIs
      <4>5. Max(B) \in 1..N /\ done[Max(B)].kind = "option" BY <4>1, <4>4 DEF OptionsBefore
      <4> QED BY <3>9, <4>2, <4>5
    <3>11. DOMAIN m_options' = DOMAIN m_options BY <2>6, <3>10
    <3>12. \A q \in DOMAIN m_options' :
             \E n \in 1..Len(t) : t[n].kind = "option" /\ Find(t[n].text) = q
      BY <3>3, <3>9, <3>11
    <3>13. \A n \in 1..Len(t) : t[n].kind = "option" => Find(t[n].text) \in DOMAIN m_options'
      BY <3>3, <3>4, <3>9, <3>11
    <3>14. Understood(t)' BY <3>7, <3>8, <3>12, <3>13 DEF Understood
    <3> QED BY <3>1, <3>14
  <2> QED BY <1>1, <2>1, <2>9, LineGrows
<1> QED BY <1>2, <1>3

\* A response file stands for what is in it, as many streams deep as are left.
LEMMA OpenResponseReads == ASSUME CommandTypes, ReadInv, OpenResponse PROVE ReadInv'
<1>1. reading /\ Argument.kind = "response" /\ unchangedRun /\ m_options' = m_options
  BY DEF OpenResponse
<1>2. main = "reading" BY <1>1 DEF reading
<1>3. CASE main' # main
  <2>1. main' # "reading" BY <1>2, <1>3
  <2> QED BY <2>1 DEF ReadInv
<1>4. CASE main' = main
  <2>1. /\ Argument.text \in DOMAIN Responses /\ Responses[Argument.text].kind # "misused"
        /\ Opened \in Seq(Arguments) /\ readers' = Append(Advanced, Opened) /\ last' = last
    BY <1>4, OpenedIs
  <2>2. PICK n : n = Len(readers) OBVIOUS
  <2>3. PICK rs \in Seq(Seq(Arguments)) : rs = Advanced BY <1>1, ReadingIs DEF Readers
  <2>4. PICK args \in Seq(Arguments) : args = Opened BY <2>1
  <2>5. PICK f \in DOMAIN Responses : f = Argument.text BY <2>1
  <2>6. /\ n \in 1..(MaxStreams + 1) /\ MaxStreams \in Nat /\ Len(rs) = n /\ Argument \in Arguments
    BY <1>1, <2>2, <2>3, ReadingIs, ArgumentsAssumption
  <2>7. PICK done \in Seq(Arguments) : \E after :
           Behind(readers, after) /\ WrittenOut = done \o after[Len(readers)] /\ Understood(done)
    BY <1>2 DEF ReadInv
  <2>8. PICK after :
           Behind(readers, after) /\ WrittenOut = done \o after[Len(readers)] /\ Understood(done)
    BY <2>7
  <2>9. PICK tail : tail = Inline(Tail(Last(readers)), Within(n)) \o after[n - 1] OBVIOUS
  <2>10. tail \in Seq(Arguments) /\ after[n] = Written(Argument, Within(n)) \o tail
    BY <1>1, <2>2, <2>8, <2>9, TakenFrom
  <2>11. Written(Argument, Within(n)) = Within(n)[f] BY <1>1, <2>5 DEF Written
  <2>12. PICK before : Behind(Advanced, before) /\ before[n] = tail
    BY <1>1, <2>2, <2>8, <2>9, <2>10, StillBehind
  <2>13. Within(n)[f] = Inline(args, Within(n + 1))
    <3>1. PICK m \in 0..MaxStreams : m = MaxStreams + 1 - n BY <2>6
    <3>2. Expansion[m] = [g \in DOMAIN Responses |->
             IF m = 0 \/ Responses[g].kind # "lines" THEN <<>>
             ELSE Inline(Responses[g].args, Expansion[m - 1])]
      BY ExpansionIs
    <3>3. Within(n)[f] = IF m = 0 \/ Responses[f].kind # "lines" THEN <<>>
                         ELSE Inline(Responses[f].args, Expansion[m - 1])
      BY <3>1, <3>2 DEF Within
    <3>4. m = 0 <=> n > MaxStreams BY <2>6, <3>1
    <3>5. Responses[f].kind \in {"lines", "missing"} BY <2>1, <2>5, ArgumentsAssumption
    <3>6. CASE m = 0 \/ Responses[f].kind # "lines"
      <4>1. args = <<>> BY <2>2, <2>4, <2>5, <3>4, <3>5, <3>6 DEF Opened
      <4> QED BY <3>3, <3>6, <4>1, InlineEmpty
    <3>7. CASE ~(m = 0 \/ Responses[f].kind # "lines")
      <4>1. args = Responses[f].args BY <2>2, <2>4, <2>5, <3>4, <3>7 DEF Opened
      <4>2. m - 1 = MaxStreams + 1 - (n + 1) BY <2>6, <3>1
      <4> QED BY <3>3, <3>7, <4>1, <4>2 DEF Within
    <3> QED BY <3>6, <3>7
  <2>14. PICK u \in Seq(Arguments) : u = Inline(args, Within(n + 1))
    <3>1. Argument \in Arguments /\ Within(n) \in Contents BY <2>6, WithinTyped
    <3>2. Within(n)[f] \in Seq(Arguments) BY <3>1 DEF Contents
    <3> QED BY <2>13, <3>2
  <2>15. /\ before \in [0..n -> Seq(Arguments)] /\ before[0] = <<>>
         /\ \A k \in 1..n : before[k] = Inline(rs[k], Within(k)) \o before[k - 1]
    BY <2>3, <2>6, <2>12 DEF Behind
  <2>16. PICK then : then = [k \in 0..(n + 1) |-> IF k = n + 1 THEN u \o tail ELSE before[k]]
    OBVIOUS
  <2>17. PICK all : all = Append(rs, args) OBVIOUS
  <2>18. /\ Len(all) = n + 1 /\ all[n + 1] = args /\ \A k \in 1..n : all[k] = rs[k]
         /\ readers' = all
    BY <2>1, <2>3, <2>4, <2>6, <2>17
  <2>19. Behind(all, then)
    <3>1. u \o tail \in Seq(Arguments) BY <2>10
    <3>2. \A k \in 0..(n + 1) : k # n + 1 => k \in 0..n BY <2>6
    <3>3. then \in [0..(n + 1) -> Seq(Arguments)] BY <2>15, <2>16, <3>1, <3>2
    <3>4. then[0] = <<>> BY <2>6, <2>15, <2>16
    <3>5. ASSUME NEW k \in 1..(n + 1) PROVE then[k] = Inline(all[k], Within(k)) \o then[k - 1]
      <4>1. k - 1 \in 0..(n + 1) /\ k - 1 # n + 1 /\ k \in 0..(n + 1) BY <2>6
      <4>2. then[k - 1] = before[k - 1] BY <2>16, <4>1
      <4>3. CASE k = n + 1
        <5>1. k - 1 = n BY <2>6, <4>3
        <5>2. then[k] = u \o tail BY <2>16, <4>1, <4>3
        <5> QED BY <2>12, <2>14, <2>18, <4>2, <4>3, <5>1, <5>2
      <4>4. CASE k # n + 1
        <5>1. k \in 1..n BY <2>6, <4>4
        <5>2. then[k] = before[k] /\ all[k] = rs[k] BY <2>16, <2>18, <4>1, <4>4, <5>1
        <5> QED BY <2>15, <4>2, <5>1, <5>2
      <4> QED BY <4>3, <4>4
    <3> QED BY <2>18, <3>3, <3>4, <3>5 DEF Behind
  <2>20. then[n + 1] = u \o tail BY <2>6, <2>16
  <2>21. WrittenOut' = WrittenOut BY <1>1 DEF WrittenOut, unchangedRun
  <2>22. WrittenOut' = done \o then[Len(readers')]
    BY <2>2, <2>8, <2>10, <2>11, <2>13, <2>14, <2>18, <2>20, <2>21
  <2>23. Understood(done)' BY <1>1, <2>1, <2>8 DEF Understood, Given
  <2>24. Len(readers') >= 1 BY <2>6, <2>18
  <2>25. Behind(readers', then) BY <2>18, <2>19
  <2> HIDE DEF Behind, Understood, WrittenOut
  <2> QED BY <2>22, <2>23, <2>24, <2>25 DEF ReadInv
<1> QED BY <1>3, <1>4

LEMMA CloseResponseReads == ASSUME CommandTypes, ReadInv, CloseResponse PROVE ReadInv'
<1>1. /\ main = "reading" /\ Len(readers) > 1 /\ Last(readers) = <<>> /\ readers' = Front(readers)
      /\ argv' = argv /\ last' = last /\ m_options' = m_options
  BY DEF CloseResponse, unchangedRun
<1>2. PICK rs \in Seq(Seq(Arguments)) : rs = readers BY DEF CommandTypes, Readers
<1>3. PICK n \in Nat : n = Len(rs) OBVIOUS
<1>4. n - 1 \in Nat /\ n - 1 >= 1 /\ rs[n] = <<>> BY <1>1, <1>2, <1>3 DEF Last
<1>5. PICK done \in Seq(Arguments) : \E after :
         Behind(readers, after) /\ WrittenOut = done \o after[Len(readers)] /\ Understood(done)
  BY <1>1 DEF ReadInv
<1>6. PICK after :
         Behind(readers, after) /\ WrittenOut = done \o after[Len(readers)] /\ Understood(done)
  BY <1>5
<1>7. /\ after \in [0..n -> Seq(Arguments)] /\ after[0] = <<>>
      /\ \A k \in 1..n : after[k] = Inline(rs[k], Within(k)) \o after[k - 1]
  BY <1>2, <1>3, <1>6 DEF Behind
<1>8. after[n] = after[n - 1]
  <2>1. n \in 1..n /\ n - 1 \in 0..n BY <1>4
  <2>2. after[n] = <<>> \o after[n - 1] BY <1>4, <1>7, <2>1, InlineEmpty
  <2>3. PICK x \in Seq(Arguments) : x = after[n - 1] BY <1>7, <2>1
  <2>4. <<>> \o x = x OBVIOUS
  <2> QED BY <2>2, <2>3, <2>4
<1>9. PICK front : front = SubSeq(rs, 1, n - 1) OBVIOUS
<1>10. /\ Len(front) = n - 1 /\ readers' = front
       /\ \A k \in 1..(n - 1) : front[k] = rs[k]
  BY <1>1, <1>2, <1>3, <1>4, <1>9 DEF Front
<1>11. PICK then : then = [k \in 0..(n - 1) |-> after[k]] OBVIOUS
<1>12. Behind(front, then)
  <2>1. \A k \in 0..(n - 1) : k \in 0..n /\ then[k] = after[k] BY <1>4, <1>11
  <2>2. then \in [0..(n - 1) -> Seq(Arguments)] BY <1>7, <1>11, <2>1
  <2>3. then[0] = <<>> BY <1>4, <1>7, <2>1
  <2>4. ASSUME NEW k \in 1..(n - 1) PROVE then[k] = Inline(front[k], Within(k)) \o then[k - 1]
    <3>1. k \in 1..n /\ k \in 0..(n - 1) /\ k - 1 \in 0..(n - 1) BY <1>4
    <3> QED BY <1>7, <1>10, <2>1, <3>1
  <2> QED BY <1>10, <2>2, <2>3, <2>4 DEF Behind
<1>13. then[n - 1] = after[n - 1] BY <1>4, <1>11
<1>14. WrittenOut' = WrittenOut BY <1>1 DEF WrittenOut
<1>15. WrittenOut' = done \o then[Len(readers')]
  BY <1>2, <1>3, <1>6, <1>8, <1>10, <1>13, <1>14
<1>16. Understood(done)' BY <1>1, <1>6 DEF Understood, Given
<1>17. Behind(readers', then) /\ Len(readers') >= 1 BY <1>4, <1>10, <1>12
<1> HIDE DEF Behind, Understood, WrittenOut
<1> QED BY <1>15, <1>16, <1>17 DEF ReadInv

\* When the last reader is at its end, all of the line has been understood.
LEMMA AllUnderstood ==
    ASSUME CommandTypes, ReadInv, main = "reading", readers = << <<>> >>
    PROVE  WrittenOut \in Seq(Arguments) /\ Understood(WrittenOut)
<1>1. PICK done \in Seq(Arguments) : \E after :
         Behind(readers, after) /\ WrittenOut = done \o after[Len(readers)] /\ Understood(done)
  BY DEF ReadInv
<1>2. PICK after :
         Behind(readers, after) /\ WrittenOut = done \o after[Len(readers)] /\ Understood(done)
  BY <1>1
<1>3. Len(readers) = 1 /\ readers[1] = <<>> OBVIOUS
<1>4. after[1] = <<>>
  <2>1. 1 \in 1..1 /\ 1 - 1 = 0 OBVIOUS
  <2>2. after[0] = <<>> /\ after[1] = Inline(readers[1], Within(1)) \o after[1 - 1]
    BY <1>2, <1>3, <2>1 DEF Behind
  <2>3. after[1] = <<>> \o <<>> BY <1>3, <2>1, <2>2, InlineEmpty
  <2>4. <<>> \o <<>> = <<>> OBVIOUS
  <2> QED BY <2>3, <2>4
<1>5. done \o <<>> = done OBVIOUS
<1>6. WrittenOut = done BY <1>2, <1>3, <1>4, <1>5
<1> QED BY <1>2, <1>6

\* What is understood is what the properties ask for.
LEMMA UnderstoodProperties ==
    ASSUME Valued(m_options), WrittenOut \in Seq(Arguments), Understood(WrittenOut)
    PROVE  ValuesFollowTheirOption /\ OptionsWereNamed
<1>1. PICK t \in Seq(Arguments) : t = WrittenOut OBVIOUS
<1>2. DOMAIN t = 1..Len(t) OBVIOUS
<1>3. \A o \in Option : Ranked(Given(o), ValuesOf(t, o), t) BY <1>1 DEF Understood
<1>4. ValuesFollowTheirOption BY <1>1, <1>3 DEF ValuesFollowTheirOption, Ranked
<1>5. /\ \A o \in DOMAIN m_options :
           \E n \in 1..Len(t) : t[n].kind = "option" /\ Find(t[n].text) = o
      /\ \A n \in 1..Len(t) : t[n].kind = "option" => Find(t[n].text) \in DOMAIN m_options
  BY <1>1 DEF Understood
<1> DEFINE texts == {word.text : word \in {a \in ToSet(t) : a.kind = "option"}}
<1>6. ASSUME NEW n \in 1..Len(t), t[n].kind = "option" PROVE t[n].text \in texts
  BY <1>2, <1>6 DEF ToSet
<1>7. ASSUME NEW text \in texts
      PROVE  \E n \in 1..Len(t) : t[n].kind = "option" /\ t[n].text = text
  BY <1>2, <1>7 DEF ToSet
<1> HIDE DEF texts
<1>8. ASSUME NEW o \in DOMAIN m_options
      PROVE  \E text \in texts : StartsWith(o, text)
  <2>1. PICK n \in 1..Len(t) : t[n].kind = "option" /\ Find(t[n].text) = o BY <1>5, <1>8
  <2>2. o # None BY <1>8, OptionsAssumption DEF Valued
  <2>3. StartsWith(o, t[n].text) BY <2>1, <2>2, FindIs
  <2> QED BY <1>6, <2>1, <2>3
<1>9. ASSUME NEW text \in texts, text \in Option PROVE text \in DOMAIN m_options
  <2>1. PICK n \in 1..Len(t) : t[n].kind = "option" /\ t[n].text = text BY <1>7, <1>9
  <2>2. Find(text) = text BY <1>9, FindIs
  <2> QED BY <1>5, <2>1, <2>2
<1>10. OptionsWereNamed
  <2>1. OptionsWereNamed <=>
          (main = "input" =>
             /\ \A o \in DOMAIN m_options : \E text \in texts : StartsWith(o, text)
             /\ texts \cap Option \subseteq DOMAIN m_options)
    BY <1>1 DEF OptionsWereNamed, texts
  <2> QED BY <1>8, <1>9, <2>1
<1> QED BY <1>4, <1>10

AtInput == main = "input" => \E t \in Seq(Arguments) : t = WrittenOut /\ Understood(t)

LEMMA CheckCountsReads ==
    ASSUME CommandTypes, ReadInv, CheckCounts
    PROVE  ReadInv' /\ AtInput'
<1>1. /\ main = "reading" /\ readers = << <<>> >> /\ argv' = argv /\ last' = last
      /\ m_options' = m_options /\ main' # "reading"
  BY DEF CheckCounts, unchangedRun
<1>2. PICK t \in Seq(Arguments) : t = WrittenOut /\ Understood(t) BY <1>1, AllUnderstood
<1>3. WrittenOut' = WrittenOut BY <1>1 DEF WrittenOut
<1>4. Understood(t)' BY <1>1, <1>2 DEF Understood, Given
<1> HIDE DEF Understood, WrittenOut
<1> QED BY <1>1, <1>2, <1>3, <1>4 DEF ReadInv, AtInput

CommandInv == CommandTypes /\ FilesInv /\ ReadInv /\ AtInput

LEMMA CommandAlone ==
    ASSUME part = "command" => CommandInv, [OptionsNext]_optionsVars
    PROVE  part' = "command" => CommandInv'
<1>1. part' = part BY DEF OptionsNext, optionsVars
<1>2. SUFFICES ASSUME part = "command" PROVE CommandInv' BY <1>1
<1>3. [Next]_vars /\ CommandTypes /\ FilesInv /\ ReadInv /\ AtInput
  BY <1>2 DEF OptionsNext, optionsVars, CommandInv
<1>4. CommandTypes' /\ FilesInv' BY <1>3, FilesStep
<1>5. ASSUME main' \notin {"reading", "input"} PROVE ReadInv' /\ AtInput'
  BY <1>5 DEF ReadInv, AtInput
<1>6. ASSUME main' # "input" PROVE AtInput' BY <1>6 DEF AtInput
<1>7. CASE TakeOption
  <2>1. main' # "input" BY <1>7 DEF TakeOption, reading, Throw
  <2> QED BY <1>3, <1>4, <1>6, <1>7, <2>1, TakeOptionReads DEF CommandInv
<1>8. CASE TakeValue
  <2>1. main' # "input" BY <1>8 DEF TakeValue, reading, Throw
  <2> QED BY <1>3, <1>4, <1>6, <1>8, <2>1, TakeValueReads DEF CommandInv
<1>9. CASE OpenResponse
  <2>1. PICK content : content = Responses[Argument.text] OBVIOUS
  <2>2. main' # "input" BY <1>9, <2>1 DEF OpenResponse, reading, Throw
  <2> QED BY <1>3, <1>4, <1>6, <1>9, <2>2, OpenResponseReads DEF CommandInv
<1>10. CASE CloseResponse
  <2>1. main' # "input" BY <1>10 DEF CloseResponse
  <2> QED BY <1>3, <1>4, <1>6, <1>10, <2>1, CloseResponseReads DEF CommandInv
<1>11. CASE CheckCounts BY <1>3, <1>4, <1>11, CheckCountsReads DEF CommandInv
<1>12. CASE LookUpInput
  <2>1. main' \notin {"reading", "input"} BY <1>12 DEF LookUpInput, Files
  <2> QED BY <1>4, <1>5, <2>1 DEF CommandInv
<1>13. CASE LookUpReference
  <2>1. main' \notin {"reading", "input"} BY <1>13 DEF LookUpReference, Files
  <2> QED BY <1>4, <1>5, <2>1 DEF CommandInv
<1>14. CASE MakeFolder
  <2>1. main' \notin {"reading", "input"} BY <1>14 DEF MakeFolder
  <2> QED BY <1>4, <1>5, <2>1 DEF CommandInv
<1>15. CASE BuildCache \/ Catch \/ Exit
  <2>1. main' \notin {"reading", "input"} BY <1>15 DEF BuildCache, Catch, Exit
  <2> QED BY <1>4, <1>5, <2>1 DEF CommandInv
<1>16. CASE UNCHANGED vars
  <2>1. UNCHANGED <<argv, readers, last, m_options, main>> BY <1>16 DEF vars
  <2>2. WrittenOut' = WrittenOut BY <2>1 DEF WrittenOut
  <2>3. ASSUME NEW done PROVE Understood(done)' <=> Understood(done)
    BY <2>1 DEF Understood, Given
  <2>4. ReadInv'
    <3> HIDE DEF Understood, WrittenOut, Behind
    <3> QED BY <1>3, <2>1, <2>2, <2>3 DEF ReadInv
  <2>5. AtInput'
    <3> HIDE DEF Understood, WrittenOut
    <3> QED BY <1>3, <2>1, <2>2, <2>3 DEF AtInput
  <2> QED BY <1>4, <2>4, <2>5 DEF CommandInv
<1> QED BY <1>3, <1>7, <1>8, <1>9, <1>10, <1>11, <1>12, <1>13, <1>14, <1>15, <1>16 DEF Next, Done

LEMMA CommandTypeOK == ASSUME CommandTypes PROVE TypeOK
<1>1. /\ last \in Option \cup {None} /\ DOMAIN m_options \subseteq Option
      /\ Len(readers) <= MaxStreams + 2 /\ (main # "reading" => readers = <<>>)
      /\ folder \in BOOLEAN /\ main \in Mains /\ result \in {0, 1} /\ status = 0
  BY DEF CommandTypes, Valued
<1>2. ASSUME NEW o \in DOMAIN m_options PROVE ToSet(m_options[o]) \subseteq DOMAIN Paths
  <2>1. PICK s \in Seq(DOMAIN Paths) : s = m_options[o] BY DEF CommandTypes, Valued
  <2> QED BY <2>1 DEF ToSet
<1>3. settings.input \cup settings.reference \subseteq DOMAIN Paths
  BY DEF CommandTypes, Settings
<1> QED BY <1>1, <1>2, <1>3 DEF TypeOK, Mains

-----------------------------------------------------------------------------
(* A line of a response file *)

LEMMA Chars ==
    /\ Character = L!Char
    /\ Blank \in L!Char /\ Quote \in L!Char /\ Backslash \in L!Char /\ Nul \notin L!Char
    /\ Blank \notin {Quote, Backslash} /\ Quote # Backslash
    /\ Quote \notin Letter /\ Backslash \notin Letter /\ Blank \notin Letter
BY LinesAssumption DEF L!Char, Character

\* A run of a character ends with the sequence or at another character.
LEMMA RunIs ==
    ASSUME NEW T, NEW s \in Seq(T), NEW k \in 1..(Len(s) + 1), NEW c
    PROVE  /\ L!Run(s, k, c) \in Nat /\ k + L!Run(s, k, c) \in 1..(Len(s) + 1)
           /\ \A h \in k..(k + L!Run(s, k, c) - 1) : h \in 1..Len(s) /\ s[h] = c
           /\ k + L!Run(s, k, c) <= Len(s) => s[k + L!Run(s, k, c)] # c
<1> DEFINE Q(n) == /\ \A j \in 0..(n - 1) : k + j <= Len(s) /\ s[k + j] = c
                   /\ k + n > Len(s) \/ s[k + n] # c
           B == {n \in 0..Len(s) : k + n > Len(s) \/ s[k + n] # c}
<1>1. Len(s) \in Nat /\ Len(s) \in 0..Len(s) /\ k \in Nat /\ k >= 1 /\ k <= Len(s) + 1 OBVIOUS
<1>2. \E n \in 0..Len(s) : Q(n)
  <2>1. Len(s) \in B BY <1>1
  <2>2. B \in SUBSET (0..Len(s)) OBVIOUS
  <2>3. PICK n \in B : \A m \in B : n <= m
    <3> HIDE DEF B
    <3> QED BY <1>1, <2>1, <2>2, Least
  <2>4. ASSUME NEW j \in 0..(n - 1) PROVE k + j <= Len(s) /\ s[k + j] = c
    <3>1. j \in 0..Len(s) /\ ~(n <= j) BY <1>1, <2>2
    <3>2. j \notin B BY <2>3, <3>1
    <3> QED BY <1>1, <3>1, <3>2
  <2> QED BY <2>2, <2>3, <2>4
<1>3. L!Run(s, k, c) = CHOOSE n \in 0..Len(s) : Q(n) BY DEF L!Run
<1>4. PICK r : r = L!Run(s, k, c) OBVIOUS
<1>5. r \in 0..Len(s) /\ Q(r)
  <2> HIDE DEF Q
  <2> QED BY <1>2, <1>3, <1>4
<1>6. k + r <= Len(s) + 1
  <2>1. CASE r = 0 BY <1>1, <2>1
  <2>2. CASE r # 0
    <3>1. r - 1 \in 0..(r - 1) BY <1>5, <2>2
    <3>2. k + (r - 1) <= Len(s) BY <1>5, <3>1
    <3> QED BY <1>1, <1>5, <3>2
  <2> QED BY <2>1, <2>2
<1>7. ASSUME NEW h \in k..(k + r - 1) PROVE h \in 1..Len(s) /\ s[h] = c
  <2>1. h - k \in 0..(r - 1) /\ k + (h - k) = h BY <1>1, <1>5
  <2>2. k + (h - k) <= Len(s) /\ s[k + (h - k)] = c BY <1>5, <2>1
  <2> QED BY <1>1, <2>1, <2>2
<1>8. r \in Nat /\ k + r \in 1..(Len(s) + 1) BY <1>1, <1>5, <1>6
<1>9. k + r <= Len(s) => s[k + r] # c BY <1>1, <1>5
<1> HIDE DEF Q, B
<1> QED BY <1>4, <1>7, <1>8, <1>9

LEMMA RunUnique ==
    ASSUME NEW T, NEW s \in Seq(T), NEW k \in 1..(Len(s) + 1), NEW c, NEW n \in Nat,
           k + n <= Len(s) + 1, \A h \in k..(k + n - 1) : s[h] = c,
           k + n <= Len(s) => s[k + n] # c
    PROVE  L!Run(s, k, c) = n
<1>1. PICK r : r = L!Run(s, k, c) OBVIOUS
<1>2. /\ r \in Nat /\ k + r \in 1..(Len(s) + 1)
      /\ \A h \in k..(k + r - 1) : h \in 1..Len(s) /\ s[h] = c
      /\ k + r <= Len(s) => s[k + r] # c
  BY <1>1, RunIs
<1>3. Len(s) \in Nat /\ k \in Nat OBVIOUS
<1>4. CASE r < n
  <2>1. k + r \in k..(k + n - 1) /\ k + r <= Len(s) BY <1>2, <1>3, <1>4
  <2> QED BY <1>2, <2>1
<1>5. CASE n < r
  <2>1. k + n \in k..(k + r - 1) /\ k + n \in 1..Len(s) BY <1>2, <1>3, <1>5
  <2>2. k + n <= Len(s) /\ s[k + n] = c BY <1>2, <2>1
  <2> QED BY <2>2
<1> QED BY <1>1, <1>2, <1>4, <1>5

\* The last of the sequences comes last.
LEMMA FlattenLast ==
    ASSUME NEW T, NEW s \in Seq(Seq(T)), NEW t \in Seq(Seq(T)), NEW x \in Seq(T),
           Len(s) = Len(t) + 1, s[Len(s)] = x, \A n \in 1..Len(t) : s[n] = t[n]
    PROVE  FlattenSeq(s) = FlattenSeq(t) \o x
<1>1. /\ Len(t) \in Nat /\ Len(s) \in Nat \ {0} /\ Len(s) \in 1..Len(s) /\ Len(s) - 1 = Len(t)
  OBVIOUS
<1>2. PICK f : Flattened(s, Len(s), f) /\ FlattenSeq(s) = f[Len(s)] BY <1>1, FlattenSeqIs
<1>3. ASSUME NEW k \in 1..Len(s) PROVE f[k] = IF k = 1 THEN s[k] ELSE f[k - 1] \o s[k]
  <2>1. Len(s) \in Nat BY <1>1
  <2>2. f = [h \in 1..Len(s) |-> IF h = 1 THEN s[h] ELSE f[h - 1] \o s[h]] BY <1>2 DEF Flattened
  <2> QED BY <2>2, Zenon
<1>4. CASE Len(t) = 0
  <2>1. t = <<>> /\ Len(s) = 1 BY <1>1, <1>4
  <2>2. FlattenSeq(s) = x BY <1>1, <1>2, <1>3, <2>1
  <2>3. <<>> \o x = x OBVIOUS
  <2> QED BY <2>1, <2>2, <2>3, FlattenEmpty
<1>5. CASE Len(t) # 0
  <2>1. PICK g : Flattened(t, Len(t), g) /\ FlattenSeq(t) = g[Len(t)] BY <1>1, <1>5, FlattenSeqIs
  <2>2. ASSUME NEW k \in 1..Len(t) PROVE g[k] = IF k = 1 THEN t[k] ELSE g[k - 1] \o t[k]
    <3>1. g = [h \in 1..Len(t) |-> IF h = 1 THEN t[h] ELSE g[h - 1] \o t[h]] BY <2>1 DEF Flattened
    <3> QED BY <3>1, Zenon
  <2> DEFINE B == {m \in 1..Len(t) : f[m] # g[m]}
  <2>3. ASSUME B # {} PROVE FALSE
    <3>1. PICK m \in B : \A k \in B : m <= k
      <4>1. B \in SUBSET (0..Len(t)) BY <1>1
      <4> HIDE DEF B
      <4> QED BY <1>1, <2>3, <4>1, Least
    <3>2. m \in 1..Len(t) /\ m \in 1..Len(s) /\ s[m] = t[m] BY <1>1
    <3>3. f[m] = IF m = 1 THEN s[m] ELSE f[m - 1] \o s[m] BY <1>3, <3>2
    <3>4. g[m] = IF m = 1 THEN t[m] ELSE g[m - 1] \o t[m] BY <2>2, <3>2
    <3>5. CASE m = 1 BY <3>2, <3>3, <3>4, <3>5
    <3>6. CASE m # 1
      <4>1. m - 1 \in 1..Len(t) /\ ~(m <= m - 1) BY <1>1, <3>2, <3>6
      <4>2. f[m - 1] = g[m - 1] BY <3>1, <4>1
      <4> QED BY <3>2, <3>3, <3>4, <3>6, <4>2
    <3> QED BY <3>5, <3>6
  <2>4. Len(t) \in 1..Len(t) /\ Len(s) # 1 BY <1>1, <1>5
  <2>5. f[Len(t)] = g[Len(t)] BY <2>3, <2>4
  <2>6. f[Len(s)] = f[Len(s) - 1] \o s[Len(s)] BY <1>1, <1>3, <2>4
  <2> QED BY <1>1, <1>2, <2>1, <2>5, <2>6
<1> QED BY <1>4, <1>5

LEMMA FlattenAppend ==
    ASSUME NEW T, NEW t \in Seq(Seq(T)), NEW x \in Seq(T)
    PROVE  FlattenSeq(Append(t, x)) = FlattenSeq(t) \o x
<1>1. PICK s : s = Append(t, x) OBVIOUS
<1>2. /\ s \in Seq(Seq(T)) /\ Len(s) = Len(t) + 1 /\ s[Len(s)] = x
      /\ \A n \in 1..Len(t) : s[n] = t[n]
  BY <1>1
<1> QED BY <1>1, <1>2, FlattenLast

LEMMA FlattensAlike == ASSUME NEW s PROVE L!FlattenSeq(s) = FlattenSeq(s)
BY DEF L!FlattenSeq, FlattenSeq

LEMMA LettersTyped == ASSUME NEW s \in Seq(L!Char) PROVE L!Letters(s) \in Seq(L!Char)
<1>1. PICK t : t = [n \in 1..Len(s) |-> L!IfLetter(s[n])] OBVIOUS
<1>2. ASSUME NEW n \in 1..Len(s) PROVE L!IfLetter(s[n]) \in Seq(L!Char)
  <2>1. s[n] \in L!Char OBVIOUS
  <2> QED BY <2>1 DEF L!IfLetter
<1>3. t \in Seq(Seq(L!Char)) BY <1>1, <1>2
<1>4. L!Letters(s) = FlattenSeq(t) BY <1>1, FlattensAlike DEF L!Letters
<1> QED BY <1>3, <1>4, FlattenTyped

LEMMA LettersAppend ==
    ASSUME NEW s \in Seq(L!Char), NEW c \in L!Char
    PROVE  L!Letters(Append(s, c)) = L!Letters(s) \o L!IfLetter(c)
<1>1. PICK t : t = [n \in 1..Len(s) |-> L!IfLetter(s[n])] OBVIOUS
<1>2. PICK u : u = [n \in 1..Len(Append(s, c)) |-> L!IfLetter(Append(s, c)[n])] OBVIOUS
<1>3. Len(s) \in Nat /\ Len(Append(s, c)) = Len(s) + 1 OBVIOUS
<1>4. ASSUME NEW d \in L!Char PROVE L!IfLetter(d) \in Seq(L!Char) BY DEF L!IfLetter
<1>5. ASSUME NEW n \in 1..Len(s) PROVE s[n] \in L!Char /\ L!IfLetter(s[n]) \in Seq(L!Char)
  BY <1>4
<1>6. t \in Seq(Seq(L!Char)) /\ Len(t) = Len(s) BY <1>1, <1>3, <1>5
<1>7. /\ \A n \in 1..Len(s) : u[n] = t[n]
      /\ u[Len(s) + 1] = L!IfLetter(c)
  <2>1. \A n \in 1..Len(s) : Append(s, c)[n] = s[n] OBVIOUS
  <2>2. Append(s, c)[Len(s) + 1] = c OBVIOUS
  <2> QED BY <1>1, <1>2, <1>3, <2>1, <2>2
<1>8. u \in Seq(Seq(L!Char)) /\ Len(u) = Len(s) + 1
  <2>1. \A n \in 1..(Len(s) + 1) : u[n] \in Seq(L!Char)
    <3>1. \A n \in 1..(Len(s) + 1) : n \in 1..Len(s) \/ n = Len(s) + 1 BY <1>3
    <3> QED BY <1>1, <1>4, <1>5, <1>7, <3>1
  <2>2. u = [n \in 1..(Len(s) + 1) |-> u[n]] BY <1>2, <1>3
  <2> QED BY <1>3, <2>1, <2>2
<1>9. FlattenSeq(u) = FlattenSeq(t) \o L!IfLetter(c)
  <2>1. PICK C : C = L!Char OBVIOUS
  <2>2. PICK x \in Seq(C) : x = L!IfLetter(c) BY <1>4, <2>1
  <2>3. t \in Seq(Seq(C)) /\ u \in Seq(Seq(C)) BY <1>6, <1>8, <2>1
  <2>4. Len(u) = Len(t) + 1 /\ u[Len(u)] = x /\ \A n \in 1..Len(t) : u[n] = t[n]
    BY <1>6, <1>7, <1>8, <2>2
  <2>5. FlattenSeq(u) = FlattenSeq(t) \o x BY <2>2, <2>3, <2>4, FlattenLast
  <2> QED BY <2>2, <2>5
<1>10. L!Letters(s) = FlattenSeq(t) BY <1>1, FlattensAlike DEF L!Letters
<1>11. L!Letters(Append(s, c)) = FlattenSeq(u) BY <1>2, FlattensAlike DEF L!Letters
<1> QED BY <1>9, <1>10, <1>11

\* What has no letters adds none.
LEMMA LettersNone ==
    ASSUME NEW s \in Seq(L!Char), NEW t \in Seq(L!Char), \A n \in 1..Len(t) : t[n] \notin Letter
    PROVE  L!Letters(s \o t) = L!Letters(s)
<1> DEFINE Silent(u) == \A n \in 1..Len(u) : u[n] \notin Letter
           B == {m \in 0..Len(t) : \E u \in Seq(L!Char) :
                   Len(u) = m /\ Silent(u) /\ L!Letters(s \o u) # L!Letters(s)}
<1>1. SUFFICES ASSUME B # {} PROVE FALSE
  <2>1. Len(t) \in 0..Len(t) OBVIOUS
  <2> QED BY <1>1, <2>1
<1>2. PICK m \in B : \A k \in B : m <= k
  <2>1. B \in SUBSET (0..Len(t)) /\ Len(t) \in Nat OBVIOUS
  <2> HIDE DEF B
  <2> QED BY <1>1, <2>1, Least
<1>3. PICK u \in Seq(L!Char) : Len(u) = m /\ Silent(u) /\ L!Letters(s \o u) # L!Letters(s)
  BY <1>2
<1>4. CASE m = 0
  <2>1. s \o u = s BY <1>3, <1>4
  <2> QED BY <1>3, <2>1
<1>5. CASE m # 0
  <2>1. PICK v : v = SubSeq(u, 1, m - 1) OBVIOUS
  <2>2. m \in Nat /\ m - 1 \in 0..Len(t) /\ ~(m <= m - 1) /\ m \in 1..Len(u) BY <1>3, <1>5
  <2>3. v \in Seq(L!Char) /\ Len(v) = m - 1 /\ \A n \in 1..(m - 1) : v[n] = u[n]
    BY <1>3, <2>1, <2>2
  <2>4. Silent(v) BY <1>3, <2>2, <2>3
  <2>5. L!Letters(s \o v) = L!Letters(s) BY <1>2, <2>2, <2>3, <2>4
  <2>6. u[m] \in L!Char /\ u[m] \notin Letter /\ s \o v \in Seq(L!Char) BY <1>3, <2>2, <2>3
  <2>7. s \o u = Append(s \o v, u[m])
    <3>1. u = Append(v, u[m]) BY <1>3, <2>2, <2>3
    <3>2. PICK c \in L!Char : c = u[m] BY <2>6
    <3>3. s \o Append(v, c) = Append(s \o v, c) BY <2>3
    <3> QED BY <3>1, <3>2, <3>3
  <2>8. L!Letters(Append(s \o v, u[m])) = L!Letters(s \o v) \o L!IfLetter(u[m]) BY <2>6, LettersAppend
  <2>9. L!IfLetter(u[m]) = <<>> BY <2>6 DEF L!IfLetter
  <2>10. L!Letters(s) \o <<>> = L!Letters(s)
    <3>1. L!Letters(s) \in Seq(L!Char) BY LettersTyped
    <3> QED BY <3>1
  <2> QED BY <1>3, <2>5, <2>7, <2>8, <2>9, <2>10
<1> QED BY <1>4, <1>5

LEMMA SubSeqIs ==
    ASSUME NEW C, NEW s \in Seq(C), NEW k \in Nat \ {0}, NEW m \in Nat, m <= Len(s), k <= m + 1
    PROVE  /\ SubSeq(s, k, m) \in Seq(C) /\ Len(SubSeq(s, k, m)) = m - k + 1
           /\ \A h \in 1..(m - k + 1) : SubSeq(s, k, m)[h] = s[k + h - 1]
<1>1. k \in Int /\ m \in Int OBVIOUS
<1>2. \A h \in k..m : s[h] \in C OBVIOUS
<1>3. /\ SubSeq(s, k, m) \in Seq(C)
      /\ Len(SubSeq(s, k, m)) = IF k <= m THEN m - k + 1 ELSE 0
      /\ \A h \in 1..(m - k + 1) : SubSeq(s, k, m)[h] = s[k + h - 1]
  BY <1>1, <1>2, SubSeqProperties
<1> QED BY <1>3

LEMMA LettersSkip ==
    ASSUME NEW s \in Seq(L!Char), NEW k \in 0..Len(s), NEW m \in k..Len(s),
           \A h \in (k + 1)..m : s[h] \notin Letter
    PROVE  L!Letters(SubSeq(s, 1, m)) = L!Letters(SubSeq(s, 1, k))
<1>1. PICK C : C = L!Char OBVIOUS
<1>2. s \in Seq(C) /\ Len(s) \in Nat /\ k \in Nat /\ m \in Nat /\ k <= m /\ m <= Len(s) BY <1>1
<1>part. ASSUME NEW x \in Nat \ {0}, NEW y \in Nat, y <= Len(s), x <= y + 1
         PROVE  \E z \in Seq(C) : /\ z = SubSeq(s, x, y) /\ Len(z) = y - x + 1
                                 /\ \A h \in 1..(y - x + 1) : z[h] = s[x + h - 1]
  <2>1. PICK z : z = SubSeq(s, x, y) OBVIOUS
  <2>2. z \in Seq(C) /\ Len(z) = y - x + 1 /\ \A h \in 1..(y - x + 1) : z[h] = s[x + h - 1]
    BY <1>2, <1>part, <2>1, SubSeqIs
  <2> QED BY <2>1, <2>2
<1>3. PICK u \in Seq(C) : u = SubSeq(s, 1, k) /\ Len(u) = k /\ \A h \in 1..k : u[h] = s[h]
  <2>1. PICK x \in Nat \ {0} : x = 1 OBVIOUS
  <2>2. k <= Len(s) /\ x <= k + 1 BY <1>2, <2>1
  <2>3. PICK z \in Seq(C) : /\ z = SubSeq(s, x, k) /\ Len(z) = k - x + 1
                            /\ \A h \in 1..(k - x + 1) : z[h] = s[x + h - 1]
    BY <1>2, <1>part, <2>2
  <2>4. k - x + 1 = k /\ \A h \in 1..k : h \in 1..(k - x + 1) /\ x + h - 1 = h BY <1>2, <2>1
  <2>5. Len(z) = k /\ \A h \in 1..k : z[h] = s[h] BY <2>3, <2>4
  <2> QED BY <2>1, <2>3, <2>5
<1>4. PICK v \in Seq(C) : /\ v = SubSeq(s, k + 1, m) /\ Len(v) = m - k
                          /\ \A h \in 1..(m - k) : v[h] = s[k + h]
  <2>1. PICK x \in Nat \ {0} : x = k + 1 BY <1>2
  <2>2. x <= m + 1 /\ m - x + 1 = m - k BY <1>2, <2>1
  <2>3. PICK z \in Seq(C) : /\ z = SubSeq(s, x, m) /\ Len(z) = m - x + 1
                            /\ \A h \in 1..(m - x + 1) : z[h] = s[x + h - 1]
    BY <1>2, <1>part, <2>1, <2>2
  <2>4. \A h \in 1..(m - k) : h \in 1..(m - x + 1) /\ x + h - 1 = k + h BY <1>2, <2>1
  <2>5. Len(z) = m - k /\ \A h \in 1..(m - k) : z[h] = s[k + h] BY <2>2, <2>3, <2>4
  <2> QED BY <2>1, <2>3, <2>5
<1>5. PICK w \in Seq(C) : w = SubSeq(s, 1, m) /\ Len(w) = m /\ \A h \in 1..m : w[h] = s[h]
  <2>1. PICK x \in Nat \ {0} : x = 1 OBVIOUS
  <2>2. m <= Len(s) /\ x <= m + 1 BY <1>2, <2>1
  <2>3. PICK z \in Seq(C) : /\ z = SubSeq(s, x, m) /\ Len(z) = m - x + 1
                            /\ \A h \in 1..(m - x + 1) : z[h] = s[x + h - 1]
    BY <1>2, <1>part, <2>2
  <2>4. m - x + 1 = m /\ \A h \in 1..m : h \in 1..(m - x + 1) /\ x + h - 1 = h BY <1>2, <2>1
  <2>5. Len(z) = m /\ \A h \in 1..m : z[h] = s[h] BY <2>3, <2>4
  <2> QED BY <2>1, <2>3, <2>5
<1>6. w = u \o v
  <2>1. Len(u \o v) = m /\ u \o v \in Seq(C) BY <1>2, <1>3, <1>4
  <2>2. ASSUME NEW h \in 1..m PROVE w[h] = (u \o v)[h]
    <3>1. CASE h <= k BY <1>2, <1>3, <1>4, <1>5, <3>1
    <3>2. CASE ~(h <= k)
      <4>1. h - k \in 1..(m - k) /\ k + (h - k) = h BY <1>2, <3>2
      <4>2. v[h - k] = s[h] /\ w[h] = s[h] BY <1>4, <1>5, <4>1
      <4>3. (u \o v)[h] = v[h - k] BY <1>2, <1>3, <1>4, <3>2, <4>1
      <4> QED BY <4>2, <4>3
    <3> QED BY <3>1, <3>2
  <2> QED BY <1>5, <2>1, <2>2
<1>7. ASSUME NEW n \in 1..Len(v) PROVE v[n] \notin Letter
  <2>1. k + n \in (k + 1)..m /\ v[n] = s[k + n] BY <1>2, <1>4, SMTT(30)
  <2> QED BY <2>1
<1> QED BY <1>1, <1>3, <1>5, <1>6, <1>7, LettersNone

LEMMA LettersCopy ==
    ASSUME NEW s \in Seq(L!Char), NEW k \in 1..Len(s)
    PROVE  L!Letters(SubSeq(s, 1, k)) = L!Letters(SubSeq(s, 1, k - 1)) \o L!IfLetter(s[k])
<1>1. PICK C : C = L!Char OBVIOUS
<1>2. s \in Seq(C) /\ Len(s) \in Nat /\ k \in Nat /\ k >= 1 /\ k <= Len(s) BY <1>1
<1>3. PICK u \in Seq(C) : u = SubSeq(s, 1, k - 1)
  <2>1. k - 1 \in Nat /\ k - 1 <= Len(s) /\ 1 <= (k - 1) + 1 /\ 1 \in Nat \ {0} BY <1>2
  <2> QED BY <1>2, <2>1, SubSeqIs
<1>4. PICK c \in C : c = s[k] BY <1>2
<1>5. SubSeq(s, 1, k) = Append(u, c)
  <2>1. 1 \in 1..Len(s) /\ k \in 1..Len(s) BY <1>2
  <2>2. SubSeq(s, 1, k) = SubSeq(s, 1, k - 1) \o <<s[k]>> BY <1>2, <2>1, SubSeqRecursiveSecond
  <2>3. u \o <<c>> = Append(u, c) BY <1>3, <1>4
  <2> QED BY <1>3, <1>4, <2>2, <2>3
<1> QED BY <1>1, <1>3, <1>4, <1>5, LettersAppend

-----------------------------------------------------------------------------
(* The parser: types, and the letters of a line *)

LineTypes == L!TypeOK /\ (wanted # None => wanted \in Seq(Seq(L!Char)))

\* Up to p the line has the letters that the arguments have.
LettersInv ==
    /\ L!Letters(FlattenSeq(argv) \o arg) = L!Letters(SubSeq(line, 1, p - 1))
    /\ pc = "between" /\ first_arg => arg = <<>> /\ argv = <<>>
    /\ pc = "done" => arg = <<>> /\ p = Len(line) + 1

\* A turn of the inner loop that reads the n characters before q, and copies up to here.
Turn(n, q, here, slashes, quotes) ==
    /\ n = L!Run(line, p, Backslash) /\ q = p + n /\ here = L!Copied(n, q)
    /\ slashes = L!Repeat(Backslash, IF L!At(q) = Quote THEN n \div 2 ELSE n)
    /\ quotes = IF L!Toggles(n, q) THEN ~in_quotes ELSE in_quotes
    /\ in_quotes' = quotes
    /\ arg' = arg \o slashes \o
              (IF L!Ends(here, quotes) \/ L!Toggles(n, q) THEN <<>> ELSE <<L!At(here)>>)
    /\ p' = IF L!Ends(here, quotes) THEN here ELSE here + 1
    /\ pc' = IF L!Ends(here, quotes) THEN "between" ELSE "inside"
    /\ first_arg' = (first_arg /\ ~L!Ends(here, quotes))

LEMMA InArgumentIs ==
    ASSUME L!InArgument
    PROVE  \E n, q, here, slashes, quotes : Turn(n, q, here, slashes, quotes)
<1>1. PICK n : n = L!Run(line, p, Backslash) OBVIOUS
<1>2. PICK q : q = p + n OBVIOUS
<1>3. PICK here : here = L!Copied(n, q) OBVIOUS
<1>4. PICK slashes : slashes = L!Repeat(Backslash, IF L!At(q) = Quote THEN n \div 2 ELSE n) OBVIOUS
<1>5. PICK quotes : quotes = IF L!Toggles(n, q) THEN ~in_quotes ELSE in_quotes OBVIOUS
<1>6. Turn(n, q, here, slashes, quotes)
  BY <1>1, <1>2, <1>3, <1>4, <1>5, Zenon DEF L!InArgument, Turn
<1> QED BY <1>6

\* Beyond the line is no character, and in it is one.
LEMMA AtIs ==
    ASSUME LineTypes, NEW h \in Nat \ {0}
    PROVE  /\ h <= Len(line) => L!At(h) = line[h] /\ line[h] \in L!Char /\ L!At(h) # Nul
           /\ L!At(h) = Nul => h > Len(line)
           /\ h > Len(line) => L!At(h) = Nul
<1>1. line \in Seq(L!Char) /\ Len(line) \in Nat BY DEF LineTypes, L!TypeOK
<1>2. h <= Len(line) => line[h] \in L!Char BY <1>1
<1> QED BY <1>1, <1>2, Chars DEF L!At

LEMMA RepeatIs ==
    ASSUME NEW n \in Nat
    PROVE  /\ L!Repeat(Backslash, n) \in Seq(L!Char) /\ Len(L!Repeat(Backslash, n)) = n
           /\ \A h \in 1..n : L!Repeat(Backslash, n)[h] = Backslash
BY Chars DEF L!Repeat

LEMMA TurnReads ==
    ASSUME LineTypes, NEW n, NEW q, NEW here, NEW slashes, NEW quotes,
           Turn(n, q, here, slashes, quotes)
    PROVE  /\ n \in Nat /\ q \in 1..(Len(line) + 1) /\ here \in {q, q + 1}
           /\ here \in 1..(Len(line) + 1)
           /\ \A h \in p..(here - 1) : h \in 1..Len(line) /\ line[h] \in {Backslash, Quote}
           /\ slashes \in Seq(L!Char) /\ \A h \in 1..Len(slashes) : slashes[h] = Backslash
           /\ quotes \in BOOLEAN
           /\ ~L!Ends(here, quotes) => here \in 1..Len(line) /\ L!At(here) = line[here]
           /\ L!Toggles(n, q) => here = q /\ q \in 1..Len(line) /\ line[q] = Quote
<1>1. /\ line \in Seq(L!Char) /\ Len(line) \in Nat /\ p \in 1..(Len(line) + 1)
      /\ in_quotes \in BOOLEAN
  BY DEF LineTypes, L!TypeOK
<1>2. /\ n = L!Run(line, p, Backslash) /\ q = p + n /\ here = L!Copied(n, q)
      /\ slashes = L!Repeat(Backslash, IF L!At(q) = Quote THEN n \div 2 ELSE n)
      /\ quotes = IF L!Toggles(n, q) THEN ~in_quotes ELSE in_quotes
  BY DEF Turn
<1>3. /\ n \in Nat /\ q \in 1..(Len(line) + 1)
      /\ \A h \in p..(q - 1) : h \in 1..Len(line) /\ line[h] = Backslash
  BY <1>1, <1>2, RunIs
<1>4. q \in Nat \ {0} /\ q + 1 \in Nat \ {0} /\ p \in Nat /\ p <= q BY <1>1, <1>2, <1>3
<1>5. L!At(q) = Quote => q \in 1..Len(line) /\ line[q] = Quote BY <1>1, <1>4, AtIs, Chars
<1>6. here \in {q, q + 1} /\ (here = q + 1 => L!At(q) = Quote /\ L!Doubled(n, q))
  BY <1>2, <1>4 DEF L!Copied, L!Doubled
<1>7. here \in 1..(Len(line) + 1)
  BY <1>1, <1>3, <1>5, <1>6
<1>8. ASSUME NEW h \in p..(here - 1) PROVE h \in 1..Len(line) /\ line[h] \in {Backslash, Quote}
  <2>1. CASE h <= q - 1
    <3>1. h \in p..(q - 1) BY <1>4, <1>7, <2>1
    <3> QED BY <1>3, <3>1
  <2>2. CASE ~(h <= q - 1)
    <3>1. h = q /\ here = q + 1 BY <1>4, <1>6, <2>2
    <3> QED BY <1>5, <1>6, <3>1
  <2> QED BY <2>1, <2>2
<1>9. slashes \in Seq(L!Char) /\ \A h \in 1..Len(slashes) : slashes[h] = Backslash
  <2>1. PICK m \in Nat : slashes = L!Repeat(Backslash, m)
    <3>1. n \div 2 \in Nat BY <1>3
    <3> QED BY <1>2, <1>3, <3>1
  <2> QED BY <2>1, RepeatIs
<1>10. quotes \in BOOLEAN BY <1>1, <1>2
<1>11. ASSUME ~L!Ends(here, quotes) PROVE here \in 1..Len(line) /\ L!At(here) = line[here]
  <2>1. L!At(here) # Nul BY <1>11 DEF L!Ends
  <2>2. here \in Nat \ {0} BY <1>7
  <2> QED BY <1>1, <1>7, <2>1, <2>2, AtIs
<1>12. ASSUME L!Toggles(n, q) PROVE here = q /\ q \in 1..Len(line) /\ line[q] = Quote
  <2>1. L!At(q) = Quote /\ ~L!Doubled(n, q) BY <1>12 DEF L!Toggles
  <2> QED BY <1>5, <1>6, <2>1
<1> QED BY <1>3, <1>6, <1>7, <1>8, <1>9, <1>10, <1>11, <1>12

LEMMA InArgumentTypes == ASSUME LineTypes, L!InArgument PROVE LineTypes'
<1>1. /\ line \in Seq(L!Char) /\ Len(line) \in Nat /\ p \in 1..(Len(line) + 1)
      /\ in_quotes \in BOOLEAN /\ arg \in Seq(L!Char) /\ argv \in Seq(Seq(L!Char))
      /\ first_arg \in BOOLEAN
  BY DEF LineTypes, L!TypeOK
<1>2. PICK n, q, here, slashes, quotes : Turn(n, q, here, slashes, quotes) BY InArgumentIs
<1>3. /\ here \in 1..(Len(line) + 1) /\ slashes \in Seq(L!Char) /\ quotes \in BOOLEAN
      /\ ~L!Ends(here, quotes) => here \in 1..Len(line) /\ L!At(here) = line[here]
  BY <1>2, TurnReads
<1>4. UNCHANGED <<wanted, line, argv>> BY DEF L!InArgument
<1>5. p' \in 1..(Len(line) + 1) BY <1>1, <1>2, <1>3 DEF Turn
<1>6. arg' \in Seq(L!Char)
  <2>1. PICK x \in Seq(L!Char) : arg' = arg \o slashes \o x
    <3>1. CASE L!Ends(here, quotes) \/ L!Toggles(n, q)
      <4>1. arg' = arg \o slashes \o <<>> BY <1>2, <3>1, Zenon DEF Turn
      <4>2. <<>> \in Seq(L!Char) OBVIOUS
      <4> QED BY <4>1, <4>2
    <3>2. CASE ~(L!Ends(here, quotes) \/ L!Toggles(n, q))
      <4>1. L!At(here) \in L!Char BY <1>1, <1>3, <3>2
      <4>2. <<L!At(here)>> \in Seq(L!Char) BY <4>1
      <4>3. arg' = arg \o slashes \o <<L!At(here)>> BY <1>2, <3>2, Zenon DEF Turn
      <4> QED BY <4>2, <4>3
    <3> QED BY <3>1, <3>2
  <2> QED BY <1>1, <1>3, <2>1
<1>7. pc' \in {"between", "inside", "done"} /\ first_arg' \in BOOLEAN /\ in_quotes' \in BOOLEAN
  BY <1>1, <1>2, <1>3, Zenon DEF Turn
<1>8. L!TypeOK' BY <1>1, <1>4, <1>5, <1>6, <1>7 DEF L!TypeOK
<1> QED BY <1>4, <1>8 DEF LineTypes

-----------------------------------------------------------------------------
(* A line that is written for arguments *)

\* The sequences of ss behind the first m.
From(ss, m) == [n \in 1..(Len(ss) - m) |-> ss[m + n]]

LEMMA FromTyped ==
    ASSUME NEW T, NEW ss \in Seq(Seq(T)), NEW m \in 0..Len(ss)
    PROVE  From(ss, m) \in Seq(Seq(T)) /\ Len(From(ss, m)) = Len(ss) - m
<1>1. Len(ss) \in Nat /\ Len(ss) - m \in Nat OBVIOUS
<1>2. \A n \in 1..(Len(ss) - m) : m + n \in 1..Len(ss) BY <1>1
<1>3. \A n \in 1..(Len(ss) - m) : ss[m + n] \in Seq(T) BY <1>2
<1> QED BY <1>1, <1>3 DEF From

LEMMA FromNext ==
    ASSUME NEW T, NEW ss \in Seq(Seq(T)), NEW m \in 0..Len(ss), m < Len(ss)
    PROVE  /\ ss[m + 1] \in Seq(T) /\ FlattenSeq(From(ss, m + 1)) \in Seq(T)
           /\ FlattenSeq(From(ss, m)) = ss[m + 1] \o FlattenSeq(From(ss, m + 1))
<1>1. Len(ss) \in Nat /\ m + 1 \in 0..Len(ss) /\ m + 1 \in 1..Len(ss) OBVIOUS
<1>2. PICK s \in Seq(Seq(T)) : s = From(ss, m) /\ Len(s) = Len(ss) - m BY FromTyped
<1>3. PICK t \in Seq(Seq(T)) : t = From(ss, m + 1) /\ Len(t) = Len(ss) - (m + 1) BY <1>1, FromTyped
<1>4. PICK x \in Seq(T) : x = ss[m + 1] BY <1>1
<1>5. Len(s) = Len(t) + 1 /\ s[1] = x
  <2>1. 1 \in 1..(Len(ss) - m) BY <1>1
  <2> QED BY <1>1, <1>2, <1>3, <1>4, <2>1 DEF From
<1>6. ASSUME NEW n \in 1..Len(t) PROVE s[n + 1] = t[n]
  <2>1. n \in 1..(Len(ss) - (m + 1)) /\ n + 1 \in 1..(Len(ss) - m) BY <1>1, <1>3
  <2>2. m + (n + 1) = (m + 1) + n BY <1>1, <2>1
  <2>3. t[n] = ss[(m + 1) + n] BY <1>3, <2>1 DEF From
  <2>4. s[n + 1] = ss[m + (n + 1)] BY <1>2, <2>1 DEF From
  <2> QED BY <2>2, <2>3, <2>4
<1>7. FlattenSeq(s) = x \o FlattenSeq(t) BY <1>5, <1>6, FlattenFirst
<1>8. FlattenSeq(t) \in Seq(T) BY FlattenTyped
<1> QED BY <1>2, <1>3, <1>4, <1>7, <1>8

LEMMA FromLast ==
    ASSUME NEW T, NEW ss \in Seq(Seq(T))
    PROVE  FlattenSeq(From(ss, Len(ss))) = <<>>
<1>1. Len(ss) \in Nat OBVIOUS
<1>2. PICK s \in Seq(Seq(T)) : s = From(ss, Len(ss)) /\ Len(s) = Len(ss) - Len(ss)
  BY <1>1, FromTyped
<1>3. s = <<>> BY <1>1, <1>2
<1> QED BY <1>2, <1>3, FlattenEmpty

LEMMA FromFirst ==
    ASSUME NEW T, NEW ss \in Seq(Seq(T))
    PROVE  From(ss, 0) = ss
<1>1. Len(ss) \in Nat /\ Len(ss) - 0 = Len(ss) OBVIOUS
<1>2. \A n \in 1..Len(ss) : 0 + n = n OBVIOUS
<1>3. From(ss, 0) = [n \in 1..Len(ss) |-> ss[n]] BY <1>1, <1>2 DEF From
<1>4. ss = [n \in 1..Len(ss) |-> ss[n]] OBVIOUS
<1> QED BY <1>3, <1>4

Pieces(a) == [n \in 1..Len(a) |-> L!Piece(a, n)]

\* What is written behind the first m characters of an argument, up to its last quote.
Ahead(a, m) == FlattenSeq(From(Pieces(a), m))

LEMMA PieceIs ==
    ASSUME NEW a \in Seq(L!Char), NEW n \in 1..Len(a), NEW e, e = n + L!Run(a, n, Backslash)
    PROVE  /\ a[n] = Quote => L!Piece(a, n) = <<Backslash, Quote>>
           /\ a[n] = Backslash /\ (e > Len(a) \/ a[e] = Quote) =>
                L!Piece(a, n) = <<Backslash, Backslash>>
           /\ a[n] = Backslash /\ ~(e > Len(a) \/ a[e] = Quote) => L!Piece(a, n) = <<Backslash>>
           /\ a[n] \notin {Quote, Backslash} => L!Piece(a, n) = <<a[n]>>
           /\ L!Piece(a, n) \in Seq(L!Char)
<1>1. a[n] \in L!Char OBVIOUS
<1>2. /\ Quote # Backslash
      /\ Quote \in L!Char /\ Backslash \in L!Char
  BY Chars
<1>3. CASE a[n] = Quote
  <2>1. L!Piece(a, n) = <<Backslash, Quote>> BY <1>2, <1>3, Zenon DEF L!Piece
  <2> QED BY <1>2, <1>3, <2>1
<1>4. CASE a[n] = Backslash /\ (e > Len(a) \/ a[e] = Quote)
  <2>1. L!Piece(a, n) = <<Backslash, Backslash>> BY <1>2, <1>4, SMT DEF L!Piece
  <2> QED BY <1>2, <1>4, <2>1
<1>5. CASE a[n] # Quote /\ ~(a[n] = Backslash /\ (e > Len(a) \/ a[e] = Quote))
  <2>1. L!Piece(a, n) = <<a[n]>> BY <1>2, <1>5, SMT DEF L!Piece
  <2>2. <<a[n]>> \in Seq(L!Char) BY <1>1
  <2> QED BY <1>2, <1>5, <2>1, <2>2
<1> QED BY <1>2, <1>3, <1>4, <1>5

LEMMA PiecesTyped ==
    ASSUME NEW a \in Seq(L!Char)
    PROVE  /\ Pieces(a) \in Seq(Seq(L!Char)) /\ Len(Pieces(a)) = Len(a)
           /\ \A n \in 1..Len(a) : Pieces(a)[n] = L!Piece(a, n)
<1>1. ASSUME NEW n \in 1..Len(a) PROVE L!Piece(a, n) \in Seq(L!Char)
  <2>1. PICK e : e = n + L!Run(a, n, Backslash) OBVIOUS
  <2> QED BY <2>1, PieceIs
<1>2. Len(a) \in Nat OBVIOUS
<1> QED BY <1>1, <1>2 DEF Pieces

LEMMA QuotedIs ==
    ASSUME NEW a \in Seq(L!Char)
    PROVE  /\ Ahead(a, 0) \in Seq(L!Char)
           /\ L!Quoted(a) = (<<Quote>> \o Ahead(a, 0)) \o <<Quote>>
           /\ L!Quoted(a) \in Seq(L!Char)
<1>1. Pieces(a) \in Seq(Seq(L!Char)) BY PiecesTyped
<1>2. Ahead(a, 0) = FlattenSeq(Pieces(a)) BY <1>1, FromFirst DEF Ahead
<1>3. FlattenSeq(Pieces(a)) \in Seq(L!Char) BY <1>1, FlattenTyped
<1>4. L!Quoted(a) = (<<Quote>> \o FlattenSeq(Pieces(a))) \o <<Quote>>
  BY FlattensAlike DEF L!Quoted, Pieces
<1>5. <<Quote>> \in Seq(L!Char) BY Chars
<1> QED BY <1>2, <1>3, <1>4, <1>5

WrittenAll(A) == [n \in 1..Len(A) |-> L!Written(A, n)]

\* What is written behind the first k arguments.
Others(A, k) == FlattenSeq(From(WrittenAll(A), k))

LEMMA WrittenIs ==
    ASSUME NEW A \in Seq(Seq(L!Char)), NEW n \in 1..Len(A)
    PROVE  /\ L!Written(A, n) \in Seq(L!Char)
           /\ n = 1 => L!Written(A, n) = L!Quoted(A[n])
           /\ n # 1 => L!Written(A, n) = <<Blank>> \o L!Quoted(A[n])
<1>1. A[n] \in Seq(L!Char) OBVIOUS
<1>2. PICK t \in Seq(L!Char) : t = L!Quoted(A[n]) BY <1>1, QuotedIs
<1>3. <<Blank>> \in Seq(L!Char) /\ <<>> \o t = t BY Chars
<1>4. n = 1 => L!Written(A, n) = <<>> \o t BY <1>2 DEF L!Written
<1>5. n # 1 => L!Written(A, n) = <<Blank>> \o t BY <1>2 DEF L!Written
<1>6. <<Blank>> \o t \in Seq(L!Char) BY <1>3
<1> QED BY <1>2, <1>3, <1>4, <1>5, <1>6

LEMMA AllWrittenTyped ==
    ASSUME NEW A \in Seq(Seq(L!Char))
    PROVE  /\ WrittenAll(A) \in Seq(Seq(L!Char)) /\ Len(WrittenAll(A)) = Len(A)
           /\ \A n \in 1..Len(A) : WrittenAll(A)[n] = L!Written(A, n)
<1>1. \A n \in 1..Len(A) : L!Written(A, n) \in Seq(L!Char) BY WrittenIs
<1>2. Len(A) \in Nat OBVIOUS
<1> QED BY <1>1, <1>2 DEF WrittenAll

LEMMA LineOfIs ==
    ASSUME NEW A \in Seq(Seq(L!Char))
    PROVE  L!LineOf(A) = Others(A, 0) /\ L!LineOf(A) \in Seq(L!Char)
<1>1. WrittenAll(A) \in Seq(Seq(L!Char)) BY AllWrittenTyped
<1>2. Others(A, 0) = FlattenSeq(WrittenAll(A)) BY <1>1, FromFirst DEF Others
<1>3. FlattenSeq(WrittenAll(A)) \in Seq(L!Char) BY <1>1, FlattenTyped
<1>4. L!LineOf(A) = FlattenSeq(WrittenAll(A)) BY FlattensAlike DEF L!LineOf, WrittenAll
<1> QED BY <1>2, <1>3, <1>4

LEMMA LineStarts == L!Init => LineTypes
<1> SUFFICES ASSUME L!Init PROVE LineTypes OBVIOUS
<1>1. wanted # None => wanted \in Seq(Seq(L!Char)) BY LinesAssumption, Chars DEF L!Init
<1>2. line \in Seq(L!Char)
  <2>1. CASE wanted \in Wanted /\ line = L!LineOf(wanted)
    <3>1. wanted \in Seq(Seq(L!Char)) BY <2>1, LinesAssumption, Chars
    <3> QED BY <2>1, <3>1, LineOfIs
  <2>2. CASE line \in Lines BY <2>2, LinesAssumption, Chars
  <2> QED BY <2>1, <2>2 DEF L!Init
<1>3. p \in 1..(Len(line) + 1) BY <1>2 DEF L!Init
<1>4. arg \in Seq(L!Char) /\ argv \in Seq(Seq(L!Char)) BY DEF L!Init
<1>5. L!TypeOK BY <1>2, <1>3, <1>4 DEF L!Init, L!TypeOK
<1> QED BY <1>1, <1>5 DEF LineTypes

-----------------------------------------------------------------------------
(* The steps keep the types and the letters *)

LEMMA LettersStart == ASSUME LineTypes, L!Init PROVE LettersInv
<1>1. FlattenSeq(argv) \o arg = <<>>
  <2>1. <<>> \o <<>> = <<>> OBVIOUS
  <2> QED BY <2>1, FlattenEmpty DEF L!Init
<1>2. SubSeq(line, 1, p - 1) = <<>>
  <2>1. 1 \in Int /\ p - 1 \in Int /\ p - 1 < 1 BY DEF L!Init
  <2> QED BY <2>1, SubSeqEmpty
<1> QED BY <1>1, <1>2 DEF LettersInv, L!Init

LEMMA NextArgumentIs ==
    ASSUME LineTypes, L!NextArgument
    PROVE  /\ p' \in p..(Len(line) + 1) /\ UNCHANGED <<wanted, line, in_quotes, first_arg>>
           /\ \A h \in p..(p' - 1) : line[h] = Blank
           /\ pc' = IF p' > Len(line) THEN "done" ELSE "inside"
           /\ first_arg => argv' = argv /\ arg' = arg
           /\ ~first_arg => argv' = Append(argv, arg) /\ arg' = <<>>
           /\ p' = p + L!Run(line, p, Blank)
<1>1. line \in Seq(L!Char) /\ Len(line) \in Nat /\ p \in 1..(Len(line) + 1)
  BY DEF LineTypes, L!TypeOK
<1>2. PICK n : n = L!Run(line, p, Blank) OBVIOUS
<1>3. n \in Nat /\ p + n \in 1..(Len(line) + 1) /\ \A h \in p..(p + n - 1) : line[h] = Blank
  BY <1>1, <1>2, RunIs
<1>4. p' = p + n /\ UNCHANGED <<wanted, line, in_quotes, first_arg>>
  BY <1>2 DEF L!NextArgument, L!Blanks
<1>5. p' \in p..(Len(line) + 1) BY <1>1, <1>3, <1>4
<1>6. L!At(p') = Nul <=> p' > Len(line)
  <2>1. p' \in Nat \ {0} BY <1>1, <1>5
  <2>2. PICK h \in Nat \ {0} : h = p' BY <2>1
  <2>3. L!At(h) = Nul <=> h > Len(line) BY <1>1, AtIs
  <2> QED BY <2>2, <2>3
<1>7. pc' = IF L!At(p') = Nul THEN "done" ELSE "inside" BY DEF L!NextArgument
<1>8. /\ first_arg => argv' = argv /\ arg' = arg
      /\ ~first_arg => argv' = Append(argv, arg) /\ arg' = <<>>
  BY DEF L!NextArgument
<1>9. \A h \in p..(p' - 1) : line[h] = Blank
  <2>1. PICK x : x = p + n OBVIOUS
  <2>2. \A h \in p..(x - 1) : line[h] = Blank
    <3>1. p \in Nat /\ n \in Nat /\ \A h \in p..(p + n - 1) : line[h] = Blank BY <1>1, <1>3
    <3>2. x - 1 = p + n - 1 BY <2>1, <3>1
    <3> QED BY <3>1, <3>2
  <2>3. p' = x BY <1>4, <2>1
  <2> QED BY <2>2, <2>3, Zenon
<1>10. pc' = IF p' > Len(line) THEN "done" ELSE "inside" BY <1>6, <1>7
<1>11. p' = p + L!Run(line, p, Blank) BY <1>2, <1>4
<1> QED BY <1>4, <1>5, <1>8, <1>9, <1>10, <1>11, Zenon

LEMMA NextArgumentTypes == ASSUME LineTypes, L!NextArgument PROVE LineTypes'
<1>1. /\ line \in Seq(L!Char) /\ Len(line) \in Nat /\ p \in 1..(Len(line) + 1)
      /\ in_quotes \in BOOLEAN /\ arg \in Seq(L!Char) /\ argv \in Seq(Seq(L!Char))
      /\ first_arg \in BOOLEAN
  BY DEF LineTypes, L!TypeOK
<1>2. /\ p' \in p..(Len(line) + 1) /\ UNCHANGED <<wanted, line, in_quotes, first_arg>>
      /\ pc' = IF p' > Len(line) THEN "done" ELSE "inside"
      /\ first_arg => argv' = argv /\ arg' = arg
      /\ ~first_arg => argv' = Append(argv, arg) /\ arg' = <<>>
  BY NextArgumentIs
<1>3. p' \in 1..(Len(line) + 1) BY <1>1, <1>2
<1>4. arg' \in Seq(L!Char) /\ argv' \in Seq(Seq(L!Char))
  <2>1. CASE first_arg BY <1>1, <1>2, <2>1
  <2>2. CASE ~first_arg
    <3>1. argv' = Append(argv, arg) /\ arg' = <<>> BY <1>2, <2>2
    <3>2. arg \in Seq(L!Char) /\ argv \in Seq(Seq(L!Char)) BY <1>1
    <3>3. Append(argv, arg) \in Seq(Seq(L!Char)) /\ <<>> \in Seq(L!Char) BY <3>2
    <3> QED BY <3>1, <3>3
  <2> QED BY <2>1, <2>2
<1>5. pc' \in {"between", "inside", "done"} BY <1>2
<1>6. L!TypeOK' BY <1>1, <1>2, <1>3, <1>4, <1>5 DEF L!TypeOK
<1> QED BY <1>2, <1>6 DEF LineTypes

LEMMA NextArgumentLetters == ASSUME LineTypes, LettersInv, L!NextArgument PROVE LettersInv'
<1>1. /\ line \in Seq(L!Char) /\ Len(line) \in Nat /\ p \in 1..(Len(line) + 1)
      /\ arg \in Seq(L!Char) /\ argv \in Seq(Seq(L!Char)) /\ first_arg \in BOOLEAN
  BY DEF LineTypes, L!TypeOK
<1>2. /\ p' \in p..(Len(line) + 1) /\ UNCHANGED <<line, first_arg>>
      /\ \A h \in p..(p' - 1) : line[h] = Blank
      /\ pc' = IF p' > Len(line) THEN "done" ELSE "inside"
      /\ first_arg => argv' = argv /\ arg' = arg
      /\ ~first_arg => argv' = Append(argv, arg) /\ arg' = <<>>
  BY NextArgumentIs
<1>3. L!Letters(SubSeq(line, 1, p' - 1)) = L!Letters(SubSeq(line, 1, p - 1))
  <2>0. p \in Nat /\ p >= 1 /\ p <= Len(line) + 1 /\ Len(line) \in Nat /\ p' \in p..(Len(line) + 1)
    BY <1>1, <1>2
  <2>1. PICK k \in 0..Len(line) : k = p - 1 BY <2>0
  <2>2. PICK m \in k..Len(line) : m = p' - 1
    <3>1. PICK x : x = p' OBVIOUS
    <3>2. x \in p..(Len(line) + 1) BY <2>0, <3>1
    <3>3. x - 1 \in k..Len(line) BY <2>0, <2>1, <3>2
    <3> QED BY <3>1, <3>3
  <2>3. \A h \in (k + 1)..m : line[h] \notin Letter
    <3>1. (k + 1)..m = p..(p' - 1) BY <2>0, <2>1, <2>2
    <3> QED BY <1>2, <3>1, Chars
  <2>4. L!Letters(SubSeq(line, 1, m)) = L!Letters(SubSeq(line, 1, k)) BY <1>1, <2>3, LettersSkip
  <2> QED BY <2>1, <2>2, <2>4
<1>4. FlattenSeq(argv') \o arg' = FlattenSeq(argv) \o arg
  <2>1. CASE first_arg BY <1>2, <2>1
  <2>2. CASE ~first_arg
    <3>1. FlattenSeq(Append(argv, arg)) = FlattenSeq(argv) \o arg BY <1>1, FlattenAppend
    <3>2. PICK x \in Seq(L!Char) : x = FlattenSeq(argv) \o arg
      <4>1. FlattenSeq(argv) \in Seq(L!Char) BY <1>1, FlattenTyped
      <4>2. arg \in Seq(L!Char) BY <1>1
      <4>3. FlattenSeq(argv) \o arg \in Seq(L!Char) BY <4>1, <4>2
      <4> QED BY <4>3
    <3>3. x \o <<>> = x OBVIOUS
    <3> QED BY <1>2, <2>2, <3>1, <3>2, <3>3
  <2> QED BY <2>1, <2>2
<1>5. pc' = "done" => arg' = <<>> /\ p' = Len(line) + 1
  <2>1. ASSUME pc' = "done" PROVE p' = Len(line) + 1 BY <1>1, <1>2, <2>1
  <2>2. pc = "between" BY DEF L!NextArgument
  <2>3. arg' = <<>> BY <1>2, <2>2 DEF LettersInv
  <2> QED BY <2>1, <2>3
<1>6. pc' # "between" BY <1>2
<1> QED BY <1>2, <1>3, <1>4, <1>5, <1>6 DEF LettersInv

LEMMA InArgumentLetters == ASSUME LineTypes, LettersInv, L!InArgument PROVE LettersInv'
<1>1. /\ line \in Seq(L!Char) /\ Len(line) \in Nat /\ p \in 1..(Len(line) + 1)
      /\ in_quotes \in BOOLEAN /\ arg \in Seq(L!Char) /\ argv \in Seq(Seq(L!Char))
      /\ first_arg \in BOOLEAN
  BY DEF LineTypes, L!TypeOK
<1>2. PICK n, q, here, slashes, quotes : Turn(n, q, here, slashes, quotes) BY InArgumentIs
<1>3. /\ here \in 1..(Len(line) + 1)
      /\ \A h \in p..(here - 1) : h \in 1..Len(line) /\ line[h] \in {Backslash, Quote}
      /\ slashes \in Seq(L!Char) /\ \A h \in 1..Len(slashes) : slashes[h] = Backslash
      /\ ~L!Ends(here, quotes) => here \in 1..Len(line) /\ L!At(here) = line[here]
      /\ L!Toggles(n, q) => here = q /\ line[q] = Quote
      /\ n \in Nat /\ q = p + n /\ here \in {q, q + 1}
  BY <1>2, TurnReads, SMTT(30) DEF Turn
<1>4. UNCHANGED <<line, argv>> BY DEF L!InArgument
<1>5. PICK F \in Seq(L!Char) : F = FlattenSeq(argv) BY <1>1, FlattenTyped
<1>6. L!Letters(F \o arg) = L!Letters(SubSeq(line, 1, p - 1)) BY <1>5 DEF LettersInv
<1>7. L!Letters(SubSeq(line, 1, here - 1)) = L!Letters(F \o arg)
  <2>0. p \in Nat /\ p >= 1 /\ p <= Len(line) + 1 /\ Len(line) \in Nat /\ here \in p..(Len(line) + 1)
    <3>1. p \in 1..(Len(line) + 1) /\ Len(line) \in Nat BY <1>1
    <3>2. here \in 1..(Len(line) + 1) /\ n \in Nat /\ q = p + n /\ here \in {q, q + 1} BY <1>3
    <3> QED BY <3>1, <3>2
  <2>1. PICK k \in 0..Len(line) : k = p - 1 BY <2>0
  <2>2. PICK m \in k..Len(line) : m = here - 1 BY <2>0, <2>1
  <2>3. \A h \in (k + 1)..m : line[h] \notin Letter
    <3>1. (k + 1)..m = p..(here - 1) BY <2>0, <2>1, <2>2
    <3>2. \A h \in p..(here - 1) : line[h] \in {Backslash, Quote} BY <1>3
    <3> QED BY <3>1, <3>2, Chars
  <2>4. L!Letters(SubSeq(line, 1, m)) = L!Letters(SubSeq(line, 1, k)) BY <1>1, <2>3, LettersSkip
  <2> QED BY <1>6, <2>1, <2>2, <2>4
<1>typed. arg \in Seq(L!Char) /\ slashes \in Seq(L!Char) BY <1>1, <1>3
<1>8. PICK y \in Seq(L!Char) : y = arg \o slashes
  <2>1. arg \o slashes \in Seq(L!Char) BY <1>typed
  <2> QED BY <2>1
<1>9. L!Letters(F \o y) = L!Letters(F \o arg)
  <2>1. F \o arg \in Seq(L!Char) BY <1>1
  <2>2. \A h \in 1..Len(slashes) : slashes[h] \notin Letter BY <1>3, Chars
  <2>3. L!Letters((F \o arg) \o slashes) = L!Letters(F \o arg) BY <1>3, <2>1, <2>2, LettersNone
  <2>4. (F \o arg) \o slashes = F \o (arg \o slashes) BY <1>typed
  <2> QED BY <1>8, <2>3, <2>4
<1>10. CASE L!Ends(here, quotes)
  <2>1. p' = here /\ pc' = "between" /\ first_arg' = FALSE BY <1>2, <1>10 DEF Turn
  <2>2. arg' = y \o <<>> BY <1>2, <1>8, <1>10, Zenon DEF Turn
  <2>3. arg' = y BY <2>2
  <2> QED BY <1>4, <1>5, <1>7, <1>9, <2>1, <2>3 DEF LettersInv
<1>11. CASE ~L!Ends(here, quotes) /\ L!Toggles(n, q)
  <2>1. p' = here + 1 /\ pc' = "inside" BY <1>2, <1>11 DEF Turn
  <2>2. arg' = y \o <<>> BY <1>2, <1>8, <1>11, Zenon DEF Turn
  <2>3. arg' = y BY <2>2
  <2>4. L!Letters(SubSeq(line, 1, here)) = L!Letters(SubSeq(line, 1, here - 1))
    <3>0. here \in 1..Len(line) /\ line[here] = Quote /\ Len(line) \in Nat BY <1>1, <1>3, <1>11
    <3>1. PICK k \in 0..Len(line) : k = here - 1 BY <3>0
    <3>2. PICK m \in k..Len(line) : m = here BY <3>0, <3>1
    <3>3. \A h \in (k + 1)..m : line[h] \notin Letter BY <3>0, <3>1, <3>2, Chars
    <3>4. L!Letters(SubSeq(line, 1, m)) = L!Letters(SubSeq(line, 1, k)) BY <1>1, <3>3, LettersSkip
    <3> QED BY <3>1, <3>2, <3>4
  <2>5. p' - 1 = here BY <1>3, <2>1
  <2> QED BY <1>4, <1>5, <1>7, <1>9, <2>1, <2>3, <2>4, <2>5 DEF LettersInv
<1>12. CASE ~L!Ends(here, quotes) /\ ~L!Toggles(n, q)
  <2>1. p' = here + 1 /\ pc' = "inside" BY <1>2, <1>12 DEF Turn
  <2>2. PICK c \in L!Char : c = L!At(here) /\ c = line[here] BY <1>1, <1>3, <1>12
  <2>3. arg' = y \o <<c>> BY <1>2, <1>8, <1>12, <2>2, Zenon DEF Turn
  <2>4. F \o arg' = Append(F \o y, c)
    <3>1. F \o (y \o <<c>>) = Append(F \o y, c) OBVIOUS
    <3> QED BY <2>3, <3>1
  <2>5. L!Letters(Append(F \o y, c)) = L!Letters(F \o y) \o L!IfLetter(c)
    <3>1. F \o y \in Seq(L!Char) OBVIOUS
    <3> QED BY <3>1, LettersAppend
  <2>6. L!Letters(SubSeq(line, 1, here)) = L!Letters(SubSeq(line, 1, here - 1)) \o L!IfLetter(c)
    <3>1. here \in 1..Len(line) BY <1>3, <1>12
    <3> QED BY <1>1, <2>2, <3>1, LettersCopy
  <2>7. p' - 1 = here BY <1>3, <2>1
  <2> QED BY <1>4, <1>5, <1>7, <1>9, <2>1, <2>4, <2>5, <2>6, <2>7 DEF LettersInv
<1> QED BY <1>10, <1>11, <1>12

LEMMA LettersAre == ASSUME LineTypes, LettersInv PROVE L!LettersKept
<1> SUFFICES ASSUME pc = "done" PROVE L!Letters(L!FlattenSeq(argv)) = L!Letters(line)
  BY DEF L!LettersKept
<1>1. line \in Seq(L!Char) /\ argv \in Seq(Seq(L!Char)) BY DEF LineTypes, L!TypeOK
<1>2. arg = <<>> /\ p - 1 = Len(line)
  <2>1. Len(line) \in Nat BY <1>1
  <2> QED BY <2>1 DEF LettersInv
<1>3. PICK F \in Seq(L!Char) : F = FlattenSeq(argv) BY <1>1, FlattenTyped
<1>4. F \o <<>> = F OBVIOUS
<1>5. SubSeq(line, 1, Len(line)) = line BY <1>1, SubSeqFull
<1> QED BY <1>2, <1>3, <1>4, <1>5, FlattensAlike DEF LettersInv

-----------------------------------------------------------------------------
(* What is read of a line that was written for arguments *)

\* From k on s is t.
Reads(s, k, t) ==
    /\ k \in 1..(Len(s) + 1) /\ k + Len(t) = Len(s) + 1
    /\ \A h \in 1..Len(t) : s[k + h - 1] = t[h]

LEMMA ReadsOn ==
    ASSUME NEW s \in Seq(L!Char), NEW u \in Seq(L!Char), NEW v \in Seq(L!Char), NEW k,
           Reads(s, k, u \o v)
    PROVE  Reads(s, k + Len(u), v) /\ \A h \in 1..Len(u) : s[k + h - 1] = u[h]
<1>1. /\ Len(s) \in Nat /\ Len(u) \in Nat /\ Len(v) \in Nat
      /\ Len(u \o v) = Len(u) + Len(v)
      /\ \A h \in 1..Len(u) : (u \o v)[h] = u[h]
      /\ \A h \in 1..Len(v) : (u \o v)[Len(u) + h] = v[h]
  <2>1. /\ Len(u \o v) = Len(u) + Len(v)
        /\ \A h \in 1..(Len(u) + Len(v)) : (u \o v)[h] = IF h <= Len(u) THEN u[h] ELSE v[h - Len(u)]
    BY ConcatProperties
  <2>2. Len(s) \in Nat /\ Len(u) \in Nat /\ Len(v) \in Nat OBVIOUS
  <2>3. ASSUME NEW h \in 1..Len(v) PROVE (u \o v)[Len(u) + h] = v[h]
    <3>1. Len(u) + h \in 1..(Len(u) + Len(v)) /\ ~(Len(u) + h <= Len(u)) /\ (Len(u) + h) - Len(u) = h
      BY <2>2
    <3> QED BY <2>1, <3>1
  <2>4. ASSUME NEW h \in 1..Len(u) PROVE (u \o v)[h] = u[h]
    <3>1. h \in 1..(Len(u) + Len(v)) /\ h <= Len(u) BY <2>2
    <3> QED BY <2>1, <3>1
  <2> QED BY <2>1, <2>2, <2>3, <2>4
<1>2. /\ k \in Nat /\ k >= 1 /\ k + (Len(u) + Len(v)) = Len(s) + 1
      /\ \A h \in 1..(Len(u) + Len(v)) : s[k + h - 1] = (u \o v)[h]
  BY <1>1 DEF Reads
<1>3. ASSUME NEW h \in 1..Len(u) PROVE s[k + h - 1] = u[h]
  <2>1. h \in 1..(Len(u) + Len(v)) BY <1>1
  <2> QED BY <1>1, <1>2, <2>1
<1>4. PICK m : m = k + Len(u) OBVIOUS
<1>5. m \in 1..(Len(s) + 1) /\ m + Len(v) = Len(s) + 1 BY <1>1, <1>2, <1>4
<1>6. ASSUME NEW h \in 1..Len(v) PROVE s[m + h - 1] = v[h]
  <2>1. PICK j : j = Len(u) + h OBVIOUS
  <2>2. j \in 1..(Len(u) + Len(v)) /\ k + j - 1 = m + h - 1 BY <1>1, <1>2, <1>4, <2>1
  <2>3. s[k + j - 1] = (u \o v)[j] /\ (u \o v)[j] = v[h] BY <1>1, <1>2, <2>1, <2>2
  <2> QED BY <2>2, <2>3
<1> QED BY <1>3, <1>4, <1>5, <1>6 DEF Reads

\* The next character.
LEMMA ReadsOne ==
    ASSUME NEW s \in Seq(L!Char), NEW c \in L!Char, NEW v \in Seq(L!Char), NEW k,
           Reads(s, k, <<c>> \o v)
    PROVE  k \in 1..Len(s) /\ s[k] = c /\ Reads(s, k + 1, v)
<1>1. PICK u \in Seq(L!Char) : u = <<c>>
  <2>1. <<c>> \in Seq(L!Char) OBVIOUS
  <2> QED BY <2>1
<1>2. Len(u) = 1 /\ u[1] = c BY <1>1
<1>3. Reads(s, k + Len(u), v) /\ \A h \in 1..Len(u) : s[k + h - 1] = u[h]
  <2>1. Reads(s, k, u \o v) BY <1>1
  <2> QED BY <2>1, ReadsOn
<1>4. Reads(s, k + 1, v) BY <1>2, <1>3
<1>5. k \in Nat /\ k + 1 \in 1..(Len(s) + 1) /\ k >= 1 /\ Len(s) \in Nat
  <2>1. k \in 1..(Len(s) + 1) /\ k + 1 \in 1..(Len(s) + 1) BY <1>4 DEF Reads
  <2> QED BY <2>1
<1>6. 1 \in 1..Len(u) /\ k + 1 - 1 = k BY <1>2, <1>5
<1>7. s[k] = c BY <1>2, <1>3, <1>6
<1> QED BY <1>4, <1>5, <1>7

LEMMA ReadsNothing ==
    ASSUME NEW s \in Seq(L!Char), NEW k, Reads(s, k, <<>>)
    PROVE  k = Len(s) + 1
<1>1. Len(<<>>) = 0 /\ k \in 1..(Len(s) + 1) /\ k + Len(<<>>) = Len(s) + 1 BY DEF Reads
<1> QED BY <1>1

LEMMA AheadNext ==
    ASSUME NEW a \in Seq(L!Char), NEW m \in 0..Len(a), m < Len(a)
    PROVE  /\ L!Piece(a, m + 1) \in Seq(L!Char) /\ Ahead(a, m + 1) \in Seq(L!Char)
           /\ Ahead(a, m) = L!Piece(a, m + 1) \o Ahead(a, m + 1)
<1>1. PICK P \in Seq(Seq(L!Char)) : P = Pieces(a) /\ Len(P) = Len(a) BY PiecesTyped
<1>2. m + 1 \in 1..Len(a) BY <1>1
<1>3. P[m + 1] = L!Piece(a, m + 1) BY <1>1, <1>2, PiecesTyped
<1>4. m \in 0..Len(P) /\ m < Len(P) BY <1>1
<1>5. /\ P[m + 1] \in Seq(L!Char) /\ FlattenSeq(From(P, m + 1)) \in Seq(L!Char)
      /\ FlattenSeq(From(P, m)) = P[m + 1] \o FlattenSeq(From(P, m + 1))
  BY <1>4, FromNext
<1> QED BY <1>1, <1>3, <1>5 DEF Ahead

LEMMA AheadTyped ==
    ASSUME NEW a \in Seq(L!Char), NEW m \in 0..Len(a)
    PROVE  Ahead(a, m) \in Seq(L!Char) /\ (m = Len(a) => Ahead(a, m) = <<>>)
<1>1. PICK P \in Seq(Seq(L!Char)) : P = Pieces(a) /\ Len(P) = Len(a) BY PiecesTyped
<1>2. m \in 0..Len(P) BY <1>1
<1>3. From(P, m) \in Seq(Seq(L!Char)) BY <1>2, FromTyped
<1>4. FlattenSeq(From(P, m)) \in Seq(L!Char) BY <1>3, FlattenTyped
<1>5. m = Len(P) => FlattenSeq(From(P, m)) = <<>> BY FromLast
<1> QED BY <1>1, <1>4, <1>5 DEF Ahead

LEMMA OthersNext ==
    ASSUME NEW A \in Seq(Seq(L!Char)), NEW k \in 0..Len(A), k < Len(A)
    PROVE  /\ L!Written(A, k + 1) \in Seq(L!Char) /\ Others(A, k + 1) \in Seq(L!Char)
           /\ Others(A, k) = L!Written(A, k + 1) \o Others(A, k + 1)
<1>1. PICK P \in Seq(Seq(L!Char)) : P = WrittenAll(A) /\ Len(P) = Len(A) BY AllWrittenTyped
<1>2. k + 1 \in 1..Len(A) BY <1>1
<1>3. P[k + 1] = L!Written(A, k + 1) BY <1>1, <1>2, AllWrittenTyped
<1>4. k \in 0..Len(P) /\ k < Len(P) BY <1>1
<1>5. /\ P[k + 1] \in Seq(L!Char) /\ FlattenSeq(From(P, k + 1)) \in Seq(L!Char)
      /\ FlattenSeq(From(P, k)) = P[k + 1] \o FlattenSeq(From(P, k + 1))
  BY <1>4, FromNext
<1> QED BY <1>1, <1>3, <1>5 DEF Others

LEMMA OthersTyped ==
    ASSUME NEW A \in Seq(Seq(L!Char)), NEW k \in 0..Len(A)
    PROVE  Others(A, k) \in Seq(L!Char) /\ (k = Len(A) => Others(A, k) = <<>>)
<1>1. PICK P \in Seq(Seq(L!Char)) : P = WrittenAll(A) /\ Len(P) = Len(A) BY AllWrittenTyped
<1>2. k \in 0..Len(P) BY <1>1
<1>3. From(P, k) \in Seq(Seq(L!Char)) BY <1>2, FromTyped
<1>4. FlattenSeq(From(P, k)) \in Seq(L!Char) BY <1>3, FlattenTyped
<1>5. k = Len(P) => FlattenSeq(From(P, k)) = <<>> BY FromLast
<1> QED BY <1>1, <1>4, <1>5 DEF Others

LEMMA Grouped ==
    ASSUME NEW u \in Seq(L!Char), NEW v \in Seq(L!Char), NEW w \in Seq(L!Char)
    PROVE  (u \o v) \o w = u \o (v \o w)
OBVIOUS

(* A run of r backslashes in an argument, of which each is written as w: before a *)
(* quote and at the end of the argument twice, elsewhere once.                    *)
LEMMA SlashesRead ==
    ASSUME NEW a \in Seq(L!Char), NEW m \in 0..Len(a), NEW W \in Seq(L!Char),
           NEW s \in Seq(L!Char), NEW k, Reads(s, k, Ahead(a, m) \o W),
           NEW r, r = L!Run(a, m + 1, Backslash), NEW w,
           w = IF m + 1 + r > Len(a) \/ a[m + 1 + r] = Quote THEN 2 ELSE 1
    PROVE  /\ r \in Nat /\ m + r \in 0..Len(a) /\ k \in Nat
           /\ \A h \in (m + 1)..(m + r) : a[h] = Backslash
           /\ m + r < Len(a) => a[m + r + 1] # Backslash
           /\ Reads(s, k + w * r, Ahead(a, m + r) \o W)
           /\ \A h \in Nat : k <= h /\ h < k + w * r => s[h] = Backslash
<1>1. Len(a) \in Nat /\ m \in Nat /\ m <= Len(a) /\ m + 1 \in 1..(Len(a) + 1) /\ w \in {1, 2}
  <2>1. Len(a) \in Nat OBVIOUS
  <2>2. w \in {1, 2} OBVIOUS
  <2> QED BY <2>1, <2>2
<1>2. /\ r \in Nat /\ (m + 1) + r \in 1..(Len(a) + 1)
      /\ \A h \in (m + 1)..((m + 1) + r - 1) : h \in 1..Len(a) /\ a[h] = Backslash
      /\ (m + 1) + r <= Len(a) => a[(m + 1) + r] # Backslash
  BY <1>1, RunIs
<1>3. k \in Nat /\ k >= 1 BY DEF Reads
<1>4. m + r \in 0..Len(a) BY <1>1, <1>2
<1>5. ASSUME NEW h \in (m + 1)..(m + r) PROVE h \in 1..Len(a) /\ a[h] = Backslash
  <2>1. h \in (m + 1)..((m + 1) + r - 1) BY <1>1, <1>2
  <2> QED BY <1>2, <2>1
<1> DEFINE Right(j) == /\ Reads(s, k + w * j, Ahead(a, m + j) \o W)
                       /\ \A h \in Nat : k <= h /\ h < k + w * j => s[h] = Backslash
           B == {j \in 0..r : ~Right(j)}
<1>6. Right(0)
  <2>1. w * 0 = 0 /\ k + 0 = k /\ m + 0 = m BY <1>1, <1>3
  <2>2. \A h \in Nat : ~(k <= h /\ h < k + 0) BY <1>3
  <2> QED BY <2>1, <2>2
<1>7. ASSUME NEW j \in 0..r, Right(j), j < r PROVE Right(j + 1)
  <2>1. PICK n \in 0..Len(a) : n = m + j BY <1>1, <1>2, <1>4
  <2>2. n < Len(a) /\ n + 1 \in (m + 1)..(m + r) /\ n + 1 \in 1..Len(a) BY <1>1, <1>2, <1>4, <1>7, <2>1, SMTT(30)
  <2>3. a[n + 1] = Backslash BY <1>5, <2>2
  <2>4. PICK x \in Nat : x = r - j BY <1>2
  <2>5. L!Run(a, n + 1, Backslash) = x
    <3>1. PICK y \in 1..(Len(a) + 1) : y = n + 1 BY <2>2
    <3>2. y + x = (m + 1) + r BY <1>1, <1>2, <2>1, <2>4, <3>1
    <3>3. y + x <= Len(a) + 1 BY <1>1, <1>2, <3>2
    <3>4. ASSUME NEW h \in y..(y + x - 1) PROVE a[h] = Backslash
      <4>1. h \in (m + 1)..(m + r) BY <1>1, <1>2, <2>1, <2>4, <3>1, SMTT(30)
      <4> QED BY <1>5, <4>1
    <3>5. y + x <= Len(a) => a[y + x] # Backslash BY <1>2, <3>2
    <3>6. L!Run(a, y, Backslash) = x BY <3>3, <3>4, <3>5, RunUnique
    <3> QED BY <3>1, <3>6
  <2>6. PICK e : e = (n + 1) + L!Run(a, n + 1, Backslash) OBVIOUS
  <2>7. e = m + 1 + r BY <1>1, <1>2, <2>1, <2>4, <2>5, <2>6
  <2>8. PICK u \in Seq(L!Char) : u = L!Piece(a, n + 1) BY <2>2, AheadNext
  <2>9. Len(u) = w /\ \A h \in 1..Len(u) : u[h] = Backslash
    <3>1. CASE e > Len(a) \/ a[e] = Quote
      <4>1. u = <<Backslash, Backslash>> BY <2>2, <2>3, <2>6, <2>8, <3>1, PieceIs
      <4>2. w = 2 BY <2>7, <3>1
      <4> QED BY <4>1, <4>2
    <3>2. CASE ~(e > Len(a) \/ a[e] = Quote)
      <4>1. u = <<Backslash>> BY <2>2, <2>3, <2>6, <2>8, <3>2, PieceIs
      <4>2. w = 1 BY <2>7, <3>2
      <4> QED BY <4>1, <4>2
    <3> QED BY <3>1, <3>2
  <2>10. PICK v \in Seq(L!Char) : v = Ahead(a, n + 1) BY <2>2, AheadNext
  <2>11. Ahead(a, n) = u \o v BY <2>2, <2>8, <2>10, AheadNext
  <2>12. PICK V \in Seq(L!Char) : V = v \o W /\ (u \o v) \o W = u \o V
    <3>0. u \in Seq(L!Char) /\ v \in Seq(L!Char) /\ W \in Seq(L!Char) OBVIOUS
    <3>1. (u \o v) \o W = u \o (v \o W) BY <3>0, Grouped, ZenonT(60)
    <3>2. v \o W \in Seq(L!Char) BY <3>0
    <3> QED BY <3>1, <3>2
  <2>13. PICK z : z = k + w * j OBVIOUS
  <2>14. Reads(s, z, u \o V) BY <1>7, <2>1, <2>11, <2>12, <2>13
  <2>15. Reads(s, z + Len(u), V) /\ \A h \in 1..Len(u) : s[z + h - 1] = u[h] BY <2>14, ReadsOn
  <2>16. z \in Nat /\ z + w = k + w * (j + 1)
    <3>1. CASE w = 1 BY <1>2, <1>3, <2>13, <3>1
    <3>2. CASE w = 2 BY <1>2, <1>3, <2>13, <3>2
    <3> QED BY <1>1, <3>1, <3>2
  <2>17. Reads(s, k + w * (j + 1), Ahead(a, m + (j + 1)) \o W)
    <3>1. m + (j + 1) = n + 1 BY <1>1, <1>2, <2>1
    <3> QED BY <2>9, <2>10, <2>12, <2>15, <2>16, <3>1
  <2>18. ASSUME NEW h \in Nat, k <= h, h < k + w * (j + 1) PROVE s[h] = Backslash
    <3>1. h < z + w BY <2>16, <2>18
    <3>2. CASE h < z BY <1>7, <2>13, <2>18, <3>2
    <3>3. CASE ~(h < z)
      <4>1. PICK y : y = h - z + 1 OBVIOUS
      <4>2. y \in 1..Len(u) /\ z + y - 1 = h BY <1>1, <2>9, <2>16, <3>1, <3>3, <4>1
      <4> QED BY <2>9, <2>15, <4>2
    <3> QED BY <3>2, <3>3
  <2> QED BY <2>17, <2>18
<1>8. Right(r)
  <2> HIDE DEF Right
  <2>1. SUFFICES ASSUME B # {} PROVE FALSE BY <1>2
  <2>2. PICK j \in B : \A h \in B : j <= h
    <3>1. B \in SUBSET (0..r) OBVIOUS
    <3> HIDE DEF B
    <3> QED BY <1>2, <2>1, <3>1, Least
  <2>3. j \in 0..r /\ ~Right(j) /\ j # 0 BY <1>6
  <2>4. PICK x : x = j - 1 OBVIOUS
  <2>5. x \in 0..r /\ x < r /\ x + 1 = j /\ ~(j <= x) BY <1>2, <2>3, <2>4
  <2>6. Right(x) BY <2>2, <2>5
  <2>7. Right(x + 1) BY <1>7, <2>5, <2>6
  <2> QED BY <2>3, <2>5, <2>7
<1>9. m + r < Len(a) => a[m + r + 1] # Backslash
  <2>1. (m + 1) + r = m + r + 1 BY <1>1, <1>2
  <2>2. m + r < Len(a) => (m + 1) + r <= Len(a) BY <1>1, <1>2
  <2> QED BY <1>2, <2>1, <2>2
<1> QED BY <1>2, <1>3, <1>4, <1>5, <1>8, <1>9

LEMMA Halves ==
    ASSUME NEW r \in Nat
    PROVE  /\ (2 * r) % 2 = 0 /\ (2 * r) \div 2 = r
           /\ (2 * r + 1) % 2 = 1 /\ (2 * r + 1) \div 2 = r
OBVIOUS

\* A turn that stops at a quote, at another character, and at the end of the argument.
LEMMA TurnAtQuote ==
    ASSUME LineTypes, NEW n, NEW q, NEW here, NEW slashes, NEW quotes,
           Turn(n, q, here, slashes, quotes), q <= Len(line), line[q] = Quote, n \in Nat
    PROVE  /\ n % 2 = 0 /\ ~(in_quotes /\ L!At(q + 1) = Quote) =>
                /\ in_quotes' = ~in_quotes /\ arg' = arg \o L!Repeat(Backslash, n \div 2)
                /\ p' = q + 1 /\ pc' = "inside" /\ first_arg' = first_arg
           /\ n % 2 = 1 =>
                /\ in_quotes' = in_quotes
                /\ arg' = (arg \o L!Repeat(Backslash, n \div 2)) \o <<Quote>>
                /\ p' = q + 1 /\ pc' = "inside" /\ first_arg' = first_arg
<1>1. /\ arg \in Seq(L!Char) /\ in_quotes \in BOOLEAN /\ first_arg \in BOOLEAN
      /\ q \in Nat \ {0} /\ slashes \in Seq(L!Char)
  <2>1. q \in 1..(Len(line) + 1) /\ slashes \in Seq(L!Char) BY TurnReads
  <2>2. line \in Seq(L!Char) BY DEF LineTypes, L!TypeOK
  <2>3. Len(line) \in Nat BY <2>2
  <2>4. q \in Nat \ {0} BY <2>1, <2>3
  <2> QED BY <2>1, <2>4 DEF LineTypes, L!TypeOK
<1>2. L!At(q) = Quote BY <1>1, AtIs
<1>3. slashes = L!Repeat(Backslash, n \div 2) BY <1>2 DEF Turn
<1>4. ASSUME NEW c PROVE ~L!Ends(q, c) BY <1>2, Chars DEF L!Ends
<1>5. PICK y \in Seq(L!Char) : y = arg \o slashes
  <2>1. arg \in Seq(L!Char) /\ slashes \in Seq(L!Char) BY <1>1
  <2>2. arg \o slashes \in Seq(L!Char) BY <2>1
  <2> QED BY <2>2
<1>6. y \o <<>> = y OBVIOUS
<1>7. ASSUME n % 2 = 0, ~(in_quotes /\ L!At(q + 1) = Quote)
      PROVE  /\ in_quotes' = ~in_quotes /\ arg' = y
             /\ p' = q + 1 /\ pc' = "inside" /\ first_arg' = first_arg
  <2>1. ~L!Doubled(n, q) BY <1>7 DEF L!Doubled
  <2>2. L!Toggles(n, q) BY <1>2, <1>7, <2>1 DEF L!Toggles
  <2>3. here = q BY <2>1 DEF Turn, L!Copied
  <2>4. ~L!Ends(here, quotes) BY <1>4, <2>3
  <2>5. quotes = ~in_quotes /\ in_quotes' = quotes BY <2>2 DEF Turn
  <2>6. arg' = y \o <<>> BY <1>5, <2>2, Zenon DEF Turn
  <2>7. p' = q + 1 /\ pc' = "inside" BY <2>3, <2>4 DEF Turn
  <2>8. first_arg' = (first_arg /\ TRUE) BY <2>4, Zenon DEF Turn
  <2>9. first_arg' = first_arg BY <1>1, <2>8
  <2> QED BY <1>6, <2>5, <2>6, <2>7, <2>9
<1>8. ASSUME n % 2 = 1
      PROVE  /\ in_quotes' = in_quotes /\ arg' = y \o <<Quote>>
             /\ p' = q + 1 /\ pc' = "inside" /\ first_arg' = first_arg
  <2>1. ~L!Doubled(n, q) BY <1>8 DEF L!Doubled
  <2>2. ~L!Toggles(n, q) BY <1>8 DEF L!Toggles
  <2>3. here = q BY <2>1 DEF Turn, L!Copied
  <2>4. ~L!Ends(here, quotes) BY <1>4, <2>3
  <2>5. in_quotes' = in_quotes BY <2>2 DEF Turn
  <2>6. arg' = y \o <<Quote>> BY <1>2, <1>5, <2>2, <2>3, <2>4, Zenon DEF Turn
  <2>7. p' = q + 1 /\ pc' = "inside" BY <2>3, <2>4 DEF Turn
  <2>8. first_arg' = (first_arg /\ TRUE) BY <2>4, Zenon DEF Turn
  <2>9. first_arg' = first_arg BY <1>1, <2>8
  <2> QED BY <2>5, <2>6, <2>7, <2>9
<1> QED BY <1>3, <1>5, <1>7, <1>8

LEMMA TurnAtOther ==
    ASSUME LineTypes, NEW n, NEW q, NEW here, NEW slashes, NEW quotes,
           Turn(n, q, here, slashes, quotes), q <= Len(line), line[q] # Quote, in_quotes
    PROVE  /\ in_quotes' = in_quotes
           /\ arg' = (arg \o L!Repeat(Backslash, n)) \o <<line[q]>>
           /\ p' = q + 1 /\ pc' = "inside" /\ first_arg' = first_arg
<1>1. /\ in_quotes \in BOOLEAN /\ first_arg \in BOOLEAN /\ q \in Nat \ {0}
  <2>1. q \in 1..(Len(line) + 1) BY TurnReads
  <2>2. line \in Seq(L!Char) BY DEF LineTypes, L!TypeOK
  <2>3. Len(line) \in Nat BY <2>2
  <2>4. q \in Nat \ {0} BY <2>1, <2>3
  <2> QED BY <2>4 DEF LineTypes, L!TypeOK
<1>2. L!At(q) = line[q] /\ L!At(q) # Nul BY <1>1, AtIs
<1>3. slashes = L!Repeat(Backslash, n) BY <1>2 DEF Turn
<1>4. ~L!Doubled(n, q) /\ ~L!Toggles(n, q) BY <1>2 DEF L!Doubled, L!Toggles
<1>5. here = q BY <1>4 DEF Turn, L!Copied
<1>6. quotes = in_quotes /\ in_quotes' = quotes BY <1>4 DEF Turn
<1>7. ~L!Ends(here, quotes) BY <1>2, <1>5, <1>6, Zenon DEF L!Ends
<1>8. arg' = (arg \o slashes) \o <<line[q]>> BY <1>2, <1>4, <1>5, <1>7, Zenon DEF Turn
<1>9. p' = q + 1 /\ pc' = "inside" BY <1>5, <1>7 DEF Turn
<1>10. first_arg' = (first_arg /\ TRUE) BY <1>7, Zenon DEF Turn
<1>11. first_arg' = first_arg BY <1>1, <1>10
<1> QED BY <1>3, <1>6, <1>8, <1>9, <1>11

LEMMA TurnEnds ==
    ASSUME LineTypes, NEW n, NEW q, NEW here, NEW slashes, NEW quotes,
           Turn(n, q, here, slashes, quotes),
           L!At(q) = Nul \/ (L!At(q) = Blank /\ ~in_quotes)
    PROVE  /\ in_quotes' = in_quotes
           /\ arg' = arg \o L!Repeat(Backslash, n) \o <<>>
           /\ p' = q /\ pc' = "between" /\ first_arg' = FALSE
<1>1. L!At(q) # Quote
  <2>1. Nul # Quote /\ Blank # Quote BY Chars
  <2> QED BY <2>1
<1>2. in_quotes \in BOOLEAN BY DEF LineTypes, L!TypeOK
<1>3. slashes = L!Repeat(Backslash, n) BY <1>1 DEF Turn
<1>4. ~L!Doubled(n, q) /\ ~L!Toggles(n, q) BY <1>1 DEF L!Doubled, L!Toggles
<1>5. here = q BY <1>4 DEF Turn, L!Copied
<1>6. quotes = in_quotes /\ in_quotes' = quotes BY <1>4 DEF Turn
<1>7. L!Ends(here, quotes) BY <1>5, <1>6, Zenon DEF L!Ends
<1>8. arg' = (arg \o slashes) \o <<>> BY <1>7, Zenon DEF Turn
<1>9. p' = q /\ pc' = "between" BY <1>5, <1>7 DEF Turn
<1>10. first_arg' = (first_arg /\ FALSE) BY <1>7, Zenon DEF Turn
<1>11. first_arg' = FALSE BY <1>10
<1> QED BY <1>3, <1>6, <1>8, <1>9, <1>11

Begins(u, t) == Len(u) <= Len(t) /\ \A h \in 1..Len(u) : u[h] = t[h]

LEMMA BeginsGrows ==
    ASSUME NEW u \in Seq(L!Char), NEW a \in Seq(L!Char), Begins(u, a), NEW r \in Nat,
           Len(u) + r <= Len(a), \A h \in (Len(u) + 1)..(Len(u) + r) : a[h] = Backslash
    PROVE  /\ u \o L!Repeat(Backslash, r) \in Seq(L!Char)
           /\ Len(u \o L!Repeat(Backslash, r)) = Len(u) + r
           /\ Begins(u \o L!Repeat(Backslash, r), a)
<1>1. PICK z \in Seq(L!Char) : /\ z = L!Repeat(Backslash, r) /\ Len(z) = r
                              /\ \A h \in 1..r : z[h] = Backslash
  BY RepeatIs
<1>2. /\ u \o z \in Seq(L!Char) /\ Len(u \o z) = Len(u) + Len(z)
      /\ \A h \in 1..(Len(u) + Len(z)) : (u \o z)[h] = IF h <= Len(u) THEN u[h] ELSE z[h - Len(u)]
  BY ConcatProperties
<1>3. Len(u) \in Nat /\ Len(a) \in Nat OBVIOUS
<1>4. ASSUME NEW h \in 1..(Len(u) + r) PROVE (u \o z)[h] = a[h]
  <2>1. CASE h <= Len(u)
    <3>1. h \in 1..Len(u) BY <1>3, <2>1
    <3>2. (u \o z)[h] = u[h] BY <1>1, <1>2, <2>1
    <3> QED BY <3>1, <3>2 DEF Begins
  <2>2. CASE ~(h <= Len(u))
    <3>1. h - Len(u) \in 1..r /\ h \in (Len(u) + 1)..(Len(u) + r) BY <1>3, <2>2
    <3>2. (u \o z)[h] = z[h - Len(u)] BY <1>1, <1>2, <2>2
    <3> QED BY <1>1, <3>1, <3>2
  <2> QED BY <2>1, <2>2
<1>5. Begins(u \o z, a) BY <1>1, <1>2, <1>4 DEF Begins
<1> QED BY <1>1, <1>2, <1>5

LEMMA BeginsAppend ==
    ASSUME NEW T, NEW u \in Seq(T), NEW a \in Seq(T), Begins(u, a), Len(u) < Len(a),
           NEW c, c = a[Len(u) + 1]
    PROVE  /\ u \o <<c>> \in Seq(T) /\ Len(u \o <<c>>) = Len(u) + 1 /\ Begins(u \o <<c>>, a)
           /\ u \o <<c>> = Append(u, c)
<1>1. Len(u) \in Nat /\ Len(a) \in Nat /\ Len(u) + 1 \in 1..Len(a) OBVIOUS
<1>2. c \in T BY <1>1
<1>3. u \o <<c>> = Append(u, c) BY <1>2
<1>4. Append(u, c) \in Seq(T) /\ Len(Append(u, c)) = Len(u) + 1 BY <1>2
<1>5. ASSUME NEW h \in 1..(Len(u) + 1) PROVE Append(u, c)[h] = a[h]
  <2>1. CASE h = Len(u) + 1 BY <1>1, <1>2, <2>1
  <2>2. CASE h # Len(u) + 1
    <3>1. h \in 1..Len(u) BY <1>1, <2>2
    <3>2. Append(u, c)[h] = u[h] BY <3>1
    <3> QED BY <3>1, <3>2 DEF Begins
  <2> QED BY <2>1, <2>2
<1>6. Begins(Append(u, c), a) BY <1>1, <1>4, <1>5 DEF Begins
<1> QED BY <1>3, <1>4, <1>6

LEMMA BeginsWhole ==
    ASSUME NEW T, NEW u \in Seq(T), NEW a \in Seq(T), Begins(u, a), Len(u) = Len(a)
    PROVE  u = a
BY SeqEqual DEF Begins

\* What stands behind the first k arguments: nothing more, or a blank and the next one.
LEMMA OthersRead ==
    ASSUME NEW s \in Seq(L!Char), NEW A \in Seq(Seq(L!Char)), NEW k \in 1..Len(A), NEW q,
           Reads(s, q, Others(A, k))
    PROVE  \/ k = Len(A) /\ q = Len(s) + 1
           \/ /\ k < Len(A) /\ q \in 1..Len(s) /\ s[q] = Blank
              /\ Reads(s, q + 1, L!Quoted(A[k + 1]) \o Others(A, k + 1))
<1>1. Len(A) \in Nat /\ k \in 0..Len(A) /\ k \in Nat /\ k <= Len(A) OBVIOUS
<1>2. CASE k = Len(A)
  <2>1. Others(A, k) = <<>> BY <1>1, <1>2, OthersTyped
  <2> QED BY <1>2, <2>1, ReadsNothing
<1>3. CASE k < Len(A)
  <2>1. k + 1 \in 1..Len(A) /\ k + 1 # 1 BY <1>1, <1>3
  <2>2. PICK t \in Seq(L!Char) : t = L!Quoted(A[k + 1])
    <3>1. A[k + 1] \in Seq(L!Char) BY <2>1
    <3> QED BY <3>1, QuotedIs
  <2>3. L!Written(A, k + 1) = <<Blank>> \o t
    <3>1. PICK n \in 1..Len(A) : n = k + 1 /\ n # 1 BY <2>1
    <3>2. L!Written(A, n) = <<Blank>> \o L!Quoted(A[n]) BY <3>1, WrittenIs
    <3> QED BY <2>2, <3>1, <3>2
  <2>4. PICK v \in Seq(L!Char) : v = Others(A, k + 1) BY <1>1, <1>3, OthersNext
  <2>5. Others(A, k) = (<<Blank>> \o t) \o v BY <1>1, <1>3, <2>3, <2>4, OthersNext
  <2>6. PICK u \in Seq(L!Char) : u = <<Blank>>
    <3>1. <<Blank>> \in Seq(L!Char) BY Chars
    <3> QED BY <3>1
  <2>7. PICK w \in Seq(L!Char) : w = t \o v /\ (u \o t) \o v = u \o w
    <3>1. u \in Seq(L!Char) /\ t \in Seq(L!Char) /\ v \in Seq(L!Char) OBVIOUS
    <3>2. (u \o t) \o v = u \o (t \o v) BY <3>1, Grouped, ZenonT(60)
    <3>3. t \o v \in Seq(L!Char) BY <3>1
    <3> QED BY <3>2, <3>3
  <2>8. Reads(s, q, <<Blank>> \o w) BY <2>5, <2>6, <2>7
  <2>9. q \in 1..Len(s) /\ s[q] = Blank /\ Reads(s, q + 1, w)
    <3>1. Blank \in L!Char BY Chars
    <3> QED BY <2>8, <3>1, ReadsOne
  <2> QED BY <1>3, <2>2, <2>4, <2>7, <2>9
<1> QED BY <1>1, <1>2, <1>3

LEMMA FirstRead ==
    ASSUME NEW s \in Seq(L!Char), NEW A \in Seq(Seq(L!Char)), NEW q, Reads(s, q, Others(A, 0))
    PROVE  \/ A = <<>> /\ q = Len(s) + 1
           \/ Len(A) > 0 /\ Reads(s, q, L!Quoted(A[1]) \o Others(A, 1))
<1>1. Len(A) \in Nat /\ 0 \in 0..Len(A) OBVIOUS
<1>2. PICK k \in 0..Len(A) : k = 0 BY <1>1
<1>3. CASE Len(A) = 0
  <2>1. Others(A, k) = <<>> BY <1>2, <1>3, OthersTyped
  <2> QED BY <1>2, <1>3, <2>1, ReadsNothing
<1>4. CASE Len(A) # 0
  <2>1. k < Len(A) /\ k + 1 = 1 /\ 1 \in 1..Len(A) BY <1>1, <1>2, <1>4
  <2>2. PICK n \in 1..Len(A) : n = 1 BY <2>1
  <2>3. L!Written(A, n) = L!Quoted(A[n]) BY <2>2, WrittenIs
  <2>4. Others(A, k) = L!Written(A, k + 1) \o Others(A, k + 1) BY <2>1, OthersNext
  <2> QED BY <1>1, <1>2, <1>4, <2>1, <2>2, <2>3, <2>4
<1> QED BY <1>3, <1>4

LEMMA QuotedRead ==
    ASSUME NEW s \in Seq(L!Char), NEW a \in Seq(L!Char), NEW V \in Seq(L!Char), NEW q,
           Reads(s, q, L!Quoted(a) \o V)
    PROVE  /\ q \in 1..Len(s) /\ s[q] = Quote
           /\ Reads(s, q + 1, Ahead(a, 0) \o (<<Quote>> \o V))
<1>1. PICK t \in Seq(L!Char) : t = Ahead(a, 0) BY QuotedIs
<1>2. PICK u \in Seq(L!Char) : u = <<Quote>>
  <2>1. <<Quote>> \in Seq(L!Char) BY Chars
  <2> QED BY <2>1
<1>3. L!Quoted(a) = (u \o t) \o u BY <1>1, <1>2, QuotedIs
<1>4. PICK w \in Seq(L!Char) : w = u \o V
  <2>1. u \o V \in Seq(L!Char) OBVIOUS
  <2> QED BY <2>1
<1>5. PICK x \in Seq(L!Char) : x = u \o t
  <2>1. u \o t \in Seq(L!Char) OBVIOUS
  <2> QED BY <2>1
<1>6. (x \o u) \o V = x \o w
  <2>1. x \in Seq(L!Char) /\ u \in Seq(L!Char) /\ V \in Seq(L!Char) OBVIOUS
  <2>2. (x \o u) \o V = x \o (u \o V) BY <2>1, Grouped, ZenonT(60)
  <2> QED BY <1>4, <2>2
<1>7. PICK y \in Seq(L!Char) : y = t \o w /\ (u \o t) \o w = u \o y
  <2>1. u \in Seq(L!Char) /\ t \in Seq(L!Char) /\ w \in Seq(L!Char) OBVIOUS
  <2>2. (u \o t) \o w = u \o (t \o w) BY <2>1, Grouped, ZenonT(60)
  <2>3. t \o w \in Seq(L!Char) BY <2>1
  <2> QED BY <2>2, <2>3
<1>8. Reads(s, q, <<Quote>> \o y) BY <1>2, <1>3, <1>5, <1>6, <1>7
<1>9. q \in 1..Len(s) /\ s[q] = Quote /\ Reads(s, q + 1, y)
  <2>1. Quote \in L!Char BY Chars
  <2> QED BY <1>8, <2>1, ReadsOne
<1> QED BY <1>1, <1>2, <1>4, <1>7, <1>9

-----------------------------------------------------------------------------
(* The round trip *)

\* Where the parser is in argument a, with V behind it on the line: before its
\* first quote, between its quotes, or behind its last one.
Opening(a, V) == ~in_quotes /\ arg = <<>> /\ Reads(line, p, L!Quoted(a) \o V)
Quoting(a, V) ==
    in_quotes /\ Begins(arg, a) /\ Reads(line, p, Ahead(a, Len(arg)) \o (<<Quote>> \o V))
Closed(a, V) == ~in_quotes /\ arg = a /\ Reads(line, p, V)

\* The first k arguments of A have been read.
Round(A, k) ==
    /\ Begins(argv, A)
    /\ pc = "between" /\ first_arg => ~in_quotes /\ Reads(line, p, Others(A, 0))
    /\ pc = "between" /\ ~first_arg => k < Len(A) /\ Closed(A[k + 1], Others(A, k + 1))
    /\ pc = "inside" =>
         /\ k < Len(A)
         /\ \/ Opening(A[k + 1], Others(A, k + 1))
            \/ Quoting(A[k + 1], Others(A, k + 1))
            \/ Closed(A[k + 1], Others(A, k + 1))
    /\ pc = "done" => argv = A

RoundInv == wanted # None => Round(wanted, Len(argv))

LEMMA RoundStarts == ASSUME L!Init PROVE RoundInv
<1> SUFFICES ASSUME wanted # None PROVE Round(wanted, Len(argv)) BY DEF RoundInv
<1>1. wanted \in Wanted /\ line = L!LineOf(wanted) BY DEF L!Init
<1>2. PICK A \in Seq(Seq(L!Char)) : A = wanted BY <1>1, LinesAssumption, Chars
<1>3. line = Others(A, 0) /\ line \in Seq(L!Char) BY <1>1, <1>2, LineOfIs
<1>4. Reads(line, 1, line)
  <2>1. Len(line) \in Nat BY <1>3
  <2>2. \A h \in 1..Len(line) : 1 + h - 1 = h BY <2>1
  <2> QED BY <2>1, <2>2 DEF Reads
<1>5. p = 1 /\ in_quotes = FALSE /\ argv = <<>> /\ pc = "between" /\ first_arg = TRUE
  BY DEF L!Init
<1>6. Begins(<<>>, A) BY DEF Begins
<1> QED BY <1>2, <1>3, <1>4, <1>5, <1>6 DEF Round

\* A turn between quotes, r backslashes of the argument ahead.
LEMMA QuotingTurn ==
    ASSUME LineTypes, NEW a \in Seq(L!Char), NEW V \in Seq(L!Char), Quoting(a, V),
           V # <<>> => V[1] = Blank, L!InArgument
    PROVE  pc' = "inside" /\ first_arg' = first_arg /\ (Quoting(a, V)' \/ Closed(a, V)')
<1>1. /\ line \in Seq(L!Char) /\ Len(line) \in Nat /\ p \in 1..(Len(line) + 1)
      /\ arg \in Seq(L!Char) /\ in_quotes
  BY DEF LineTypes, L!TypeOK, Quoting
<1>2. PICK n, q, here, slashes, quotes : Turn(n, q, here, slashes, quotes) BY InArgumentIs
<1>3. line' = line BY DEF L!InArgument
<1>4. PICK u \in Seq(L!Char) : u = arg BY <1>1
<1>5. Begins(u, a) /\ Len(u) \in 0..Len(a) /\ Len(a) \in Nat BY <1>4 DEF Quoting, Begins
<1>6. PICK m \in 0..Len(a) : m = Len(u) BY <1>5
<1>7. PICK W \in Seq(L!Char) : W = <<Quote>> \o V
  <2>1. <<Quote>> \in Seq(L!Char) BY Chars
  <2>2. <<Quote>> \o V \in Seq(L!Char) BY <2>1
  <2> QED BY <2>2
<1>8. PICK r : r = L!Run(a, m + 1, Backslash) OBVIOUS
<1>9. PICK w : w = IF m + 1 + r > Len(a) \/ a[m + 1 + r] = Quote THEN 2 ELSE 1 OBVIOUS
<1>10. Reads(line, p, Ahead(a, m) \o W) BY <1>4, <1>6, <1>7 DEF Quoting
<1>11. /\ r \in Nat /\ m + r \in 0..Len(a) /\ p \in Nat
       /\ \A h \in (m + 1)..(m + r) : a[h] = Backslash
       /\ m + r < Len(a) => a[m + r + 1] # Backslash
       /\ Reads(line, p + w * r, Ahead(a, m + r) \o W)
       /\ \A h \in Nat : p <= h /\ h < p + w * r => line[h] = Backslash
  <2>1. a \in Seq(L!Char) /\ m \in 0..Len(a) /\ W \in Seq(L!Char) /\ line \in Seq(L!Char)
    BY <1>1
  <2> QED BY <1>8, <1>9, <1>10, <2>1, SlashesRead, SMTT(60)
<1>12. PICK e \in 0..Len(a) : e = m + r BY <1>11
<1>13. PICK k : k = p + w * r OBVIOUS
<1>14. Reads(line, k, Ahead(a, e) \o W) /\ \A h \in Nat : p <= h /\ h < k => line[h] = Backslash
  BY <1>11, <1>12, <1>13
<1>15. PICK z \in Seq(L!Char) : /\ z = u \o L!Repeat(Backslash, r)
                               /\ Len(z) = e /\ Begins(z, a)
  <2>1. \A h \in (Len(u) + 1)..(Len(u) + r) : a[h] = Backslash BY <1>6, <1>11
  <2>2. Len(u) + r <= Len(a) BY <1>6, <1>11
  <2> QED BY <1>5, <1>6, <1>11, <1>12, <2>1, <2>2, BeginsGrows
<1>16. w \in {1, 2} /\ k \in Nat /\ k >= 1
  <2>1. w \in {1, 2} BY <1>9
  <2>2. k \in 1..(Len(line) + 1) BY <1>14 DEF Reads
  <2> QED BY <1>1, <2>1, <2>2
<1>17. k = p + (IF w = 2 THEN 2 * r ELSE r) BY <1>11, <1>13, <1>16
\* How many backslashes the turn reads.
<1>18. ASSUME NEW x \in Nat, p + x \in 1..Len(line), line[p + x] # Backslash,
              \A h \in Nat : p <= h /\ h < p + x => line[h] = Backslash
       PROVE  n = x /\ q = p + x
  <2>1. L!Run(line, p, Backslash) = x
    <3>1. p + x <= Len(line) + 1 BY <1>1, <1>18
    <3>2. \A h \in p..(p + x - 1) : line[h] = Backslash
      <4>1. \A h \in p..(p + x - 1) : h \in Nat /\ p <= h /\ h < p + x BY <1>1, <1>18
      <4> QED BY <1>18, <4>1
    <3> QED BY <1>1, <1>18, <3>1, <3>2, RunUnique
  <2> QED BY <1>2, <2>1 DEF Turn
<1>19. CASE e = Len(a)
  <2>1. w = 2
    <3>1. m + 1 + r > Len(a) BY <1>11, <1>12, <1>19
    <3> QED BY <1>9, <3>1
  <2>2. k = p + 2 * r BY <1>17, <2>1
  <2>3. Ahead(a, e) = <<>> BY <1>19, AheadTyped
  <2>4. Reads(line, k, <<Quote>> \o V)
    <3>1. <<>> \o W = W OBVIOUS
    <3> QED BY <1>7, <1>14, <2>3, <3>1
  <2>5. k \in 1..Len(line) /\ line[k] = Quote /\ Reads(line, k + 1, V)
    <3>1. Quote \in L!Char BY Chars
    <3> QED BY <1>1, <2>4, <3>1, ReadsOne
  <2>6. n = 2 * r /\ q = k
    <3>1. 2 * r \in Nat /\ Quote # Backslash BY <1>11, Chars
    <3> QED BY <1>14, <1>18, <2>2, <2>5, <3>1
  <2>7. L!At(q + 1) # Quote
    <3>1. PICK x \in Nat \ {0} : x = q + 1 BY <1>16, <2>6
    <3>2. CASE V = <<>>
      <4>1. x = Len(line) + 1 BY <1>1, <2>5, <2>6, <3>1, <3>2, ReadsNothing
      <4>2. x > Len(line) BY <1>1, <4>1
      <4>3. L!At(x) = Nul BY <4>2, AtIs
      <4> QED BY <3>1, <4>3, Chars
    <3>3. CASE V # <<>>
      <4>1. Len(V) \in Nat /\ Len(V) >= 1 /\ 1 \in 1..Len(V) BY <3>3
      <4>2. x + 1 - 1 = x /\ line[x + 1 - 1] = V[1] /\ x + Len(V) = Len(line) + 1
        BY <2>5, <2>6, <3>1, <4>1 DEF Reads
      <4>3. line[x] = Blank /\ x <= Len(line) BY <1>1, <3>3, <4>1, <4>2
      <4>4. L!At(x) = Blank BY <4>3, AtIs
      <4> QED BY <3>1, <4>4, Chars
    <3> QED BY <3>2, <3>3
  <2>8. n % 2 = 0 /\ n \div 2 = r /\ n \in Nat BY <1>11, <2>6, Halves
  <2>9. q <= Len(line) /\ line[q] = Quote BY <1>1, <2>5, <2>6
  <2>10. /\ in_quotes' = ~in_quotes /\ arg' = arg \o L!Repeat(Backslash, n \div 2)
         /\ p' = q + 1 /\ pc' = "inside" /\ first_arg' = first_arg
    BY <1>2, <2>7, <2>8, <2>9, TurnAtQuote
  <2>11. arg' = a
    <3>1. arg' = z BY <1>4, <1>15, <2>8, <2>10
    <3>2. Len(z) = Len(a) BY <1>15, <1>19
    <3> QED BY <1>15, <3>1, <3>2, BeginsWhole
  <2>12. Reads(line', p', V) BY <1>3, <2>5, <2>6, <2>10
  <2>13. ~in_quotes' BY <1>1, <2>10
  <2> QED BY <2>10, <2>11, <2>12, <2>13 DEF Closed
<1>20. CASE e < Len(a)
  <2>1. PICK c \in L!Char : c = a[e + 1] /\ c # Backslash
    <3>1. e + 1 \in 1..Len(a) /\ e + 1 = m + r + 1 BY <1>11, <1>12, <1>20
    <3>2. a[e + 1] \in L!Char BY <3>1
    <3>3. a[e + 1] # Backslash BY <1>11, <1>12, <1>20, <3>1
    <3> QED BY <3>2, <3>3
  <2>2. PICK v \in Seq(L!Char) : v = Ahead(a, e + 1) BY <1>20, AheadNext
  <2>3. PICK t \in Seq(L!Char) : t = L!Piece(a, e + 1) BY <1>20, AheadNext
  <2>4. Ahead(a, e) = t \o v BY <1>20, <2>2, <2>3, AheadNext
  <2>5. PICK X \in Seq(L!Char) : X = v \o W /\ (t \o v) \o W = t \o X
    <3>1. t \in Seq(L!Char) /\ v \in Seq(L!Char) /\ W \in Seq(L!Char) OBVIOUS
    <3>2. (t \o v) \o W = t \o (v \o W) BY <3>1, Grouped, ZenonT(60)
    <3>3. v \o W \in Seq(L!Char) BY <3>1
    <3> QED BY <3>2, <3>3
  <2>6. Reads(line, k, t \o X) BY <1>14, <2>4, <2>5
  <2>7. e + 1 \in 1..Len(a) /\ e + 1 = m + 1 + r BY <1>5, <1>11, <1>12, <1>20
  <2>8. PICK y \in Seq(L!Char) : /\ y = z \o <<c>> /\ Len(y) = e + 1 /\ Begins(y, a)
    <3>1. Len(z) < Len(a) /\ c = a[Len(z) + 1] BY <1>15, <1>20, <2>1
    <3> QED BY <1>15, <3>1, BeginsAppend
  <2>9. ASSUME in_quotes' = in_quotes, arg' = y, pc' = "inside", first_arg' = first_arg,
               Reads(line, p', X)
        PROVE  pc' = "inside" /\ first_arg' = first_arg /\ Quoting(a, V)'
    <3>1. Reads(line', p', Ahead(a, Len(y)) \o (<<Quote>> \o V))
      BY <1>3, <1>7, <2>2, <2>5, <2>8, <2>9
    <3> QED BY <1>1, <2>8, <2>9, <3>1 DEF Quoting
  <2>10. CASE c = Quote
    <3>1. w = 2 BY <1>9, <2>1, <2>7, <2>10
    <3>2. k = p + 2 * r BY <1>17, <3>1
    <3>3. t = <<Backslash, Quote>>
      <4>1. PICK j \in 1..Len(a) : j = e + 1 BY <2>7
      <4>2. a[j] = Quote BY <2>1, <2>10, <4>1
      <4>3. PICK f : f = j + L!Run(a, j, Backslash) OBVIOUS
      <4>4. L!Piece(a, j) = <<Backslash, Quote>> BY <4>2, <4>3, PieceIs
      <4> QED BY <2>3, <4>1, <4>4
    <3>4. Len(t) = 2 /\ t[1] = Backslash /\ t[2] = Quote BY <3>3
    <3>5. Reads(line, k + Len(t), X) /\ \A h \in 1..Len(t) : line[k + h - 1] = t[h]
      <4>1. line \in Seq(L!Char) /\ t \in Seq(L!Char) /\ X \in Seq(L!Char) BY <1>1
      <4> QED BY <2>6, <4>1, ReadsOn, SMTT(60)
    <3>6. /\ line[k] = Backslash /\ line[k + 1] = Quote /\ Reads(line, k + 2, X)
          /\ k + 1 \in 1..Len(line)
      <4>1. 1 \in 1..Len(t) /\ 2 \in 1..Len(t) /\ k + 1 - 1 = k /\ k + 2 - 1 = k + 1
        BY <1>16, <3>4
      <4>2. line[k] = Backslash /\ line[k + 1] = Quote /\ Reads(line, k + 2, X)
        BY <3>4, <3>5, <4>1
      <4>3. k + 2 \in 1..(Len(line) + 1) BY <4>2 DEF Reads
      <4> QED BY <1>1, <1>16, <4>2, <4>3
    <3>7. n = 2 * r + 1 /\ q = k + 1
      <4>1. PICK x \in Nat : x = 2 * r + 1 BY <1>11
      <4>2. p + x = k + 1 BY <1>11, <3>2, <4>1
      <4>3. \A h \in Nat : p <= h /\ h < p + x => line[h] = Backslash
        <5>1. \A h \in Nat : h < k + 1 => h < k \/ h = k BY <1>16
        <5> QED BY <1>14, <3>6, <4>2, <5>1
      <4>4. line[p + x] # Backslash BY <3>6, <4>2, Chars
      <4> QED BY <1>18, <3>6, <4>1, <4>2, <4>3, <4>4
    <3>8. n % 2 = 1 /\ n \div 2 = r /\ n \in Nat BY <1>11, <3>7, Halves
    <3>9. q <= Len(line) /\ line[q] = Quote BY <1>1, <3>6, <3>7
    <3>10. /\ in_quotes' = in_quotes
           /\ arg' = (arg \o L!Repeat(Backslash, n \div 2)) \o <<Quote>>
           /\ p' = q + 1 /\ pc' = "inside" /\ first_arg' = first_arg
      BY <1>2, <3>8, <3>9, TurnAtQuote
    <3>11. arg' = y BY <1>4, <1>15, <2>8, <2>10, <3>8, <3>10
    <3>12. p' = k + 2 BY <1>16, <3>7, <3>10
    <3> QED BY <2>9, <3>6, <3>10, <3>11, <3>12
  <2>11. CASE c # Quote
    <3>1. w = 1
      <4>1. ~(m + 1 + r > Len(a)) /\ a[m + 1 + r] # Quote BY <1>5, <2>1, <2>7, <2>11
      <4> QED BY <1>9, <4>1
    <3>2. k = p + r BY <1>17, <3>1
    <3>3. t = <<c>>
      <4>1. PICK j \in 1..Len(a) : j = e + 1 BY <2>7
      <4>2. a[j] \notin {Quote, Backslash} BY <2>1, <2>11, <4>1
      <4>3. PICK f : f = j + L!Run(a, j, Backslash) OBVIOUS
      <4>4. L!Piece(a, j) = <<a[j]>> BY <4>2, <4>3, PieceIs
      <4> QED BY <2>1, <2>3, <4>1, <4>4
    <3>4. k \in 1..Len(line) /\ line[k] = c /\ Reads(line, k + 1, X)
      BY <1>1, <2>6, <3>3, ReadsOne
    <3>5. n = r /\ q = k BY <1>11, <1>14, <1>18, <2>1, <3>2, <3>4
    <3>6. q <= Len(line) /\ line[q] # Quote BY <1>1, <2>11, <3>4, <3>5, SMTT(30)
    <3>7. /\ in_quotes' = in_quotes
          /\ arg' = (arg \o L!Repeat(Backslash, n)) \o <<line[q]>>
          /\ p' = q + 1 /\ pc' = "inside" /\ first_arg' = first_arg
      BY <1>1, <1>2, <3>6, TurnAtOther
    <3>8. arg' = y BY <1>4, <1>15, <2>8, <3>4, <3>5, <3>7
    <3> QED BY <2>9, <3>4, <3>5, <3>7, <3>8
  <2> QED BY <2>10, <2>11
<1> QED BY <1>5, <1>19, <1>20

\* The turns before the first quote of an argument and behind its last one.
LEMMA OpeningTurn ==
    ASSUME LineTypes, NEW a \in Seq(L!Char), NEW V \in Seq(L!Char), Opening(a, V), L!InArgument
    PROVE  pc' = "inside" /\ first_arg' = first_arg /\ Quoting(a, V)'
<1>1. /\ line \in Seq(L!Char) /\ Len(line) \in Nat /\ p \in 1..(Len(line) + 1) /\ p \in Nat
      /\ arg = <<>> /\ ~in_quotes
  BY DEF LineTypes, L!TypeOK, Opening
<1>2. PICK n, q, here, slashes, quotes : Turn(n, q, here, slashes, quotes) BY InArgumentIs
<1>3. line' = line BY DEF L!InArgument
<1>4. /\ p \in 1..Len(line) /\ line[p] = Quote
      /\ Reads(line, p + 1, Ahead(a, 0) \o (<<Quote>> \o V))
  BY <1>1, QuotedRead DEF Opening
<1>5. n = 0 /\ q = p
  <2>1. L!Run(line, p, Backslash) = 0
    <3>1. PICK x \in Nat : x = 0 OBVIOUS
    <3>2. p + x = p /\ p + x <= Len(line) + 1 BY <1>1, <3>1
    <3>3. \A h \in p..(p + x - 1) : line[h] = Backslash BY <1>1, <3>1
    <3>4. line[p + x] # Backslash BY <1>4, <3>2, Chars
    <3>5. L!Run(line, p, Backslash) = x BY <1>1, <3>2, <3>3, <3>4, RunUnique
    <3> QED BY <3>1, <3>5
  <2> QED BY <1>1, <1>2, <2>1 DEF Turn
<1>6. n % 2 = 0 /\ n \div 2 = 0 /\ n \in Nat BY <1>5
<1>7. /\ in_quotes' = ~in_quotes /\ arg' = arg \o L!Repeat(Backslash, n \div 2)
      /\ p' = q + 1 /\ pc' = "inside" /\ first_arg' = first_arg
  <2>1. q <= Len(line) /\ line[q] = Quote BY <1>1, <1>4, <1>5
  <2> QED BY <1>1, <1>2, <1>6, <2>1, TurnAtQuote
<1>8. arg' = <<>>
  <2>1. PICK x \in Seq(L!Char) : x = L!Repeat(Backslash, n \div 2) /\ Len(x) = n \div 2
    <3>1. n \div 2 \in Nat BY <1>6
    <3> QED BY <3>1, RepeatIs
  <2>2. x = <<>> BY <1>6, <2>1
  <2>3. <<>> \o <<>> = <<>> OBVIOUS
  <2> QED BY <1>1, <1>7, <2>1, <2>2, <2>3
<1>9. Begins(<<>>, a) /\ Len(<<>>) = 0 BY DEF Begins
<1>10. in_quotes' BY <1>1, <1>7
<1>11. Reads(line', p', Ahead(a, Len(<<>>)) \o (<<Quote>> \o V)) BY <1>3, <1>4, <1>5, <1>7, <1>9
<1> QED BY <1>7, <1>8, <1>9, <1>10, <1>11 DEF Quoting

LEMMA ClosedTurn ==
    ASSUME LineTypes, NEW a \in Seq(L!Char), NEW V \in Seq(L!Char), Closed(a, V),
           V # <<>> => V[1] = Blank, L!InArgument
    PROVE  pc' = "between" /\ first_arg' = FALSE /\ Closed(a, V)'
<1>1. /\ line \in Seq(L!Char) /\ Len(line) \in Nat /\ p \in 1..(Len(line) + 1)
      /\ p \in Nat \ {0} /\ arg = a /\ ~in_quotes /\ Reads(line, p, V)
  BY DEF LineTypes, L!TypeOK, Closed
<1>2. PICK n, q, here, slashes, quotes : Turn(n, q, here, slashes, quotes) BY InArgumentIs
<1>3. line' = line BY DEF L!InArgument
<1>4. (p <= Len(line) => line[p] = Blank) /\ L!At(p) \in {Nul, Blank}
  <2>1. CASE V = <<>>
    <3>1. p = Len(line) + 1 BY <1>1, <2>1, ReadsNothing
    <3>2. p > Len(line) BY <1>1, <3>1
    <3>3. L!At(p) = Nul BY <1>1, <3>2, AtIs
    <3> QED BY <1>1, <3>2, <3>3
  <2>2. CASE V # <<>>
    <3>1. Len(V) \in Nat /\ Len(V) >= 1 /\ 1 \in 1..Len(V) BY <2>2
    <3>2. p + 1 - 1 = p /\ line[p + 1 - 1] = V[1] /\ p + Len(V) = Len(line) + 1
      BY <1>1, <3>1 DEF Reads
    <3>3. line[p] = Blank /\ p <= Len(line) BY <1>1, <2>2, <3>1, <3>2
    <3>4. L!At(p) = Blank BY <1>1, <3>3, AtIs
    <3> QED BY <3>3, <3>4
  <2> QED BY <2>1, <2>2
<1>5. n = 0 /\ q = p
  <2>1. L!Run(line, p, Backslash) = 0
    <3>1. PICK x \in Nat : x = 0 OBVIOUS
    <3>2. p + x = p /\ p + x <= Len(line) + 1 BY <1>1, <3>1
    <3>3. \A h \in p..(p + x - 1) : line[h] = Backslash BY <1>1, <3>1
    <3>4. p + x <= Len(line) => line[p + x] # Backslash BY <1>4, <3>2, Chars
    <3>5. L!Run(line, p, Backslash) = x BY <1>1, <3>2, <3>3, <3>4, RunUnique
    <3> QED BY <3>1, <3>5
  <2> QED BY <1>1, <1>2, <2>1 DEF Turn
<1>6. /\ in_quotes' = in_quotes /\ arg' = arg \o L!Repeat(Backslash, n) \o <<>>
      /\ p' = q /\ pc' = "between" /\ first_arg' = FALSE
  <2>1. L!At(q) = Nul \/ (L!At(q) = Blank /\ ~in_quotes) BY <1>1, <1>4, <1>5
  <2> QED BY <1>2, <2>1, TurnEnds
<1>7. arg' = a
  <2>1. PICK x \in Seq(L!Char) : x = L!Repeat(Backslash, n) /\ Len(x) = n
    <3>1. n \in Nat BY <1>5
    <3> QED BY <3>1, RepeatIs
  <2>2. x = <<>> BY <1>5, <2>1
  <2>3. (a \o <<>>) \o <<>> = a OBVIOUS
  <2> QED BY <1>1, <1>6, <2>1, <2>2, <2>3
<1>8. ~in_quotes' BY <1>1, <1>6
<1>9. Reads(line', p', V) BY <1>1, <1>3, <1>5, <1>6
<1> QED BY <1>6, <1>7, <1>8, <1>9 DEF Closed

\* What stands behind an argument starts with a blank.
LEMMA OthersBegin ==
    ASSUME NEW A \in Seq(Seq(L!Char)), NEW k \in 1..Len(A)
    PROVE  Others(A, k) \in Seq(L!Char) /\ (Others(A, k) # <<>> => Others(A, k)[1] = Blank)
<1>1. Len(A) \in Nat /\ k \in 0..Len(A) OBVIOUS
<1>2. PICK t \in Seq(L!Char) : t = Others(A, k) BY <1>1, OthersTyped
<1>3. ASSUME t # <<>> PROVE t[1] = Blank
  <2>1. PICK q \in Nat : q = 1 OBVIOUS
  <2>2. Len(t) \in Nat /\ Len(t) >= 1 BY <1>3
  <2>3. Reads(t, q, t)
    <3>1. \A h \in 1..Len(t) : q + h - 1 = h BY <2>1, <2>2
    <3> QED BY <2>1, <2>2, <3>1 DEF Reads
  <2>4. q # Len(t) + 1 BY <2>1, <2>2
  <2>5. t[q] = Blank BY <1>2, <2>3, <2>4, OthersRead
  <2> QED BY <2>1, <2>5
<1> QED BY <1>2, <1>3

LEMMA InArgumentRound == ASSUME LineTypes, RoundInv, L!InArgument PROVE RoundInv'
<1>1. pc = "inside" /\ UNCHANGED <<wanted, line, argv>> BY DEF L!InArgument
<1>2. SUFFICES ASSUME wanted # None PROVE Round(wanted, Len(argv))' BY <1>1 DEF RoundInv
<1>3. PICK A \in Seq(Seq(L!Char)) : A = wanted BY <1>2 DEF LineTypes
<1>4. PICK k : k = Len(argv) OBVIOUS
<1>5. k \in Nat /\ Len(A) \in Nat /\ Begins(argv, A) /\ k < Len(A) /\ Round(A, k)
  <2>1. argv \in Seq(Seq(L!Char)) BY DEF LineTypes, L!TypeOK
  <2> QED BY <1>1, <1>2, <1>3, <1>4, <2>1 DEF RoundInv, Round
<1>6. k + 1 \in 1..Len(A) BY <1>5
<1>7. PICK a \in Seq(L!Char) : a = A[k + 1] BY <1>6
<1>8. PICK V \in Seq(L!Char) : V = Others(A, k + 1) /\ (V # <<>> => V[1] = Blank)
  BY <1>6, OthersBegin
<1>9. Opening(a, V) \/ Quoting(a, V) \/ Closed(a, V) BY <1>1, <1>5, <1>7, <1>8 DEF Round
<1>10. Begins(argv, A)' BY <1>1, <1>5 DEF Begins
<1>11. SUFFICES Round(A, k)' BY <1>1, <1>3, <1>4
<1>12. CASE Opening(a, V)
  <2>1. pc' = "inside" /\ Quoting(a, V)' BY <1>12, OpeningTurn
  <2> QED BY <1>5, <1>7, <1>8, <1>10, <2>1 DEF Round
<1>13. CASE Quoting(a, V)
  <2>1. pc' = "inside" /\ (Quoting(a, V)' \/ Closed(a, V)') BY <1>8, <1>13, QuotingTurn
  <2> QED BY <1>5, <1>7, <1>8, <1>10, <2>1 DEF Round
<1>14. CASE Closed(a, V)
  <2>1. pc' = "between" /\ first_arg' = FALSE /\ Closed(a, V)' BY <1>8, <1>14, ClosedTurn
  <2> QED BY <1>5, <1>7, <1>8, <1>10, <2>1 DEF Round
<1> QED BY <1>9, <1>12, <1>13, <1>14

\* An argument that was written starts with a quote, so that no blank is skipped before it.
LEMMA NextOpens ==
    ASSUME NEW s \in Seq(L!Char), NEW a \in Seq(L!Char), NEW V \in Seq(L!Char), NEW q,
           Reads(s, q, L!Quoted(a) \o V)
    PROVE  q \in 1..Len(s) /\ L!Run(s, q, Blank) = 0
<1>1. q \in 1..Len(s) /\ s[q] = Quote BY QuotedRead
<1>2. q \in 1..(Len(s) + 1) /\ q \in Nat /\ Len(s) \in Nat BY <1>1
<1>3. PICK x \in Nat : x = 0 OBVIOUS
<1>4. q + x = q /\ q + x <= Len(s) + 1 BY <1>1, <1>2, <1>3
<1>5. \A h \in q..(q + x - 1) : s[h] = Blank BY <1>2, <1>3
<1>6. s[q + x] # Blank BY <1>1, <1>4, Chars
<1>7. L!Run(s, q, Blank) = x BY <1>2, <1>4, <1>5, <1>6, RunUnique
<1> QED BY <1>1, <1>3, <1>7

LEMMA NextArgumentRound == ASSUME LineTypes, LettersInv, RoundInv, L!NextArgument PROVE RoundInv'
<1>1. /\ line \in Seq(L!Char) /\ Len(line) \in Nat /\ p \in 1..(Len(line) + 1)
      /\ arg \in Seq(L!Char) /\ argv \in Seq(Seq(L!Char)) /\ first_arg \in BOOLEAN
      /\ pc = "between"
  BY DEF LineTypes, L!TypeOK, L!NextArgument
<1>2. /\ p' \in p..(Len(line) + 1) /\ UNCHANGED <<wanted, line, in_quotes, first_arg>>
      /\ pc' = IF p' > Len(line) THEN "done" ELSE "inside"
      /\ first_arg => argv' = argv /\ arg' = arg
      /\ ~first_arg => argv' = Append(argv, arg) /\ arg' = <<>>
      /\ p' = p + L!Run(line, p, Blank)
  BY NextArgumentIs
<1>3. SUFFICES ASSUME wanted # None PROVE Round(wanted, Len(argv))' BY <1>2 DEF RoundInv
<1>4. PICK A \in Seq(Seq(L!Char)) : A = wanted BY <1>3 DEF LineTypes
<1>5. PICK k \in Nat : k = Len(argv) BY <1>1
<1>6. Len(A) \in Nat /\ Begins(argv, A) /\ Round(A, k)
  BY <1>3, <1>4, <1>5 DEF RoundInv, Round
<1>argvs. PICK j : j = Len(argv') OBVIOUS
<1>7. SUFFICES Round(A, j)'
  <2>1. wanted' = A BY <1>2, <1>4
  <2>2. wanted' # None BY <1>3, <1>4, <2>1
  <2> QED BY <1>argvs, <2>1, <2>2
<1>8. CASE first_arg
  <2>1. argv = <<>> /\ arg = <<>> /\ k = 0 BY <1>1, <1>5, <1>8 DEF LettersInv
  <2>2. argv' = <<>> /\ arg' = <<>> /\ Len(argv') = 0 BY <1>2, <1>8, <2>1
  <2>3. ~in_quotes /\ Reads(line, p, Others(A, 0)) BY <1>1, <1>6, <1>8 DEF Round
  <2>4. Begins(argv, A)' BY <1>6, <2>1, <2>2 DEF Begins
  <2>5. CASE A = <<>> /\ p = Len(line) + 1
    <3>1. p' > Len(line) BY <1>1, <1>2, <2>5
    <3>2. pc' = "done" BY <1>2, <3>1
    <3> QED BY <1>argvs, <2>2, <2>4, <2>5, <3>2 DEF Round
  <2>6. CASE Len(A) > 0 /\ Reads(line, p, L!Quoted(A[1]) \o Others(A, 1))
    <3>1. 1 \in 1..Len(A) BY <1>6, <2>6
    <3>2. PICK a \in Seq(L!Char) : a = A[1] BY <3>1
    <3>3. PICK V \in Seq(L!Char) : V = Others(A, 1) BY <3>1, OthersBegin
    <3>4. p \in 1..Len(line) /\ L!Run(line, p, Blank) = 0 BY <1>1, <2>6, <3>2, <3>3, NextOpens
    <3>5. p' = p /\ ~(p' > Len(line)) BY <1>1, <1>2, <3>4
    <3>6. pc' = "inside" BY <1>2, <3>5
    <3>7. Opening(a, V)' BY <1>2, <2>2, <2>3, <2>6, <3>2, <3>3, <3>5 DEF Opening
    <3>8. 0 < Len(A) /\ 0 + 1 = 1 BY <2>6
    <3>9. Round(A, 0)' BY <2>4, <3>2, <3>3, <3>6, <3>7, <3>8 DEF Round
    <3> QED BY <1>argvs, <2>2, <3>9
  <2> QED BY <1>1, <2>3, <2>5, <2>6, FirstRead
<1>9. CASE ~first_arg
  <2>1. k < Len(A) /\ Closed(A[k + 1], Others(A, k + 1)) BY <1>1, <1>6, <1>9 DEF Round
  <2>2. k + 1 \in 1..Len(A) BY <1>6, <2>1
  <2>3. ~in_quotes /\ arg = A[k + 1] /\ Reads(line, p, Others(A, k + 1)) BY <2>1 DEF Closed
  <2>4. argv' = Append(argv, arg) /\ arg' = <<>> BY <1>2, <1>9
  <2>5. Len(argv') = k + 1 /\ Begins(argv', A) /\ argv' \in Seq(Seq(L!Char))
    <3>1. PICK C : C = Seq(L!Char) OBVIOUS
    <3>2. PICK u \in Seq(C) : u = argv BY <1>1, <3>1
    <3>3. A \in Seq(C) /\ Begins(u, A) /\ Len(u) < Len(A) /\ arg = A[Len(u) + 1]
      BY <1>5, <1>6, <2>1, <2>3, <3>1, <3>2
    <3>4. PICK c : c = arg OBVIOUS
    <3>5. /\ u \o <<c>> \in Seq(C) /\ Len(u \o <<c>>) = Len(u) + 1 /\ Begins(u \o <<c>>, A)
          /\ u \o <<c>> = Append(u, c)
      BY <3>2, <3>3, <3>4, BeginsAppend
    <3>6. argv' = Append(u, c) BY <2>4, <3>2, <3>4
    <3> QED BY <1>5, <3>1, <3>2, <3>5, <3>6
  <2>6. PICK n \in 1..Len(A) : n = k + 1 BY <2>2
  <2>7. CASE n = Len(A) /\ p = Len(line) + 1
    <3>1. p' > Len(line) BY <1>1, <1>2, <2>7
    <3>2. pc' = "done" BY <1>2, <3>1
    <3>3. argv' = A
      <4>1. PICK C : C = Seq(L!Char) OBVIOUS
      <4>2. PICK u \in Seq(C) : u = argv' BY <2>5, <4>1
      <4>3. A \in Seq(C) /\ Begins(u, A) /\ Len(u) = Len(A) BY <2>5, <2>6, <2>7, <4>1, <4>2
      <4> QED BY <4>2, <4>3, BeginsWhole
    <3> QED BY <1>argvs, <2>5, <3>2, <3>3 DEF Round
  <2>8. CASE /\ n < Len(A) /\ p \in 1..Len(line) /\ line[p] = Blank
             /\ Reads(line, p + 1, L!Quoted(A[n + 1]) \o Others(A, n + 1))
    <3>1. n + 1 \in 1..Len(A) BY <1>6, <2>8
    <3>2. PICK a \in Seq(L!Char) : a = A[n + 1] BY <3>1
    <3>3. PICK V \in Seq(L!Char) : V = Others(A, n + 1) BY <3>1, OthersBegin
    <3>4. p + 1 \in 1..Len(line) /\ line[p + 1] = Quote BY <1>1, <2>8, <3>2, <3>3, QuotedRead
    <3>5. L!Run(line, p, Blank) = 1
      <4>1. PICK x \in Nat : x = 1 OBVIOUS
      <4>2. p \in Nat /\ p + x = p + 1 /\ p + x <= Len(line) + 1 BY <1>1, <3>4, <4>1
      <4>3. \A h \in p..(p + x - 1) : line[h] = Blank
        <5>1. \A h \in p..(p + x - 1) : h = p BY <4>1, <4>2
        <5> QED BY <2>8, <5>1
      <4>4. line[p + x] # Blank BY <3>4, <4>2, Chars
      <4>5. L!Run(line, p, Blank) = x BY <1>1, <4>2, <4>3, <4>4, RunUnique
      <4> QED BY <4>1, <4>5
    <3>6. p' = p + 1 /\ ~(p' > Len(line)) BY <1>1, <1>2, <3>4, <3>5
    <3>7. pc' = "inside" BY <1>2, <3>6
    <3>8. Opening(a, V)' BY <1>2, <2>3, <2>4, <2>8, <3>2, <3>3, <3>6 DEF Opening
    <3>9. Round(A, n)' BY <2>5, <2>8, <3>2, <3>3, <3>7, <3>8 DEF Round
    <3> QED BY <1>argvs, <2>5, <2>6, <3>9
  <2>9. Reads(line, p, Others(A, n)) BY <2>3, <2>6
  <2> QED BY <1>1, <2>7, <2>8, <2>9, OthersRead
<1> QED BY <1>8, <1>9

LineInv == LineTypes /\ LettersInv /\ RoundInv

LEMMA LineAlone ==
    ASSUME part = "line" => LineInv, [OptionsNext]_optionsVars
    PROVE  part' = "line" => LineInv'
<1>1. part' = part BY DEF OptionsNext, optionsVars
<1>2. SUFFICES ASSUME part = "line" PROVE LineInv' BY <1>1
<1>3. LineTypes /\ LettersInv /\ RoundInv BY <1>2 DEF LineInv
<1>4. [L!Next]_(L!vars)
  BY <1>2 DEF OptionsNext, optionsVars, sdkVars, commandVars, lineVars, vars, L!vars
<1>5. CASE L!NextArgument
  BY <1>3, <1>5, NextArgumentTypes, NextArgumentLetters, NextArgumentRound DEF LineInv
<1>6. CASE L!InArgument
  BY <1>3, <1>6, InArgumentTypes, InArgumentLetters, InArgumentRound DEF LineInv
<1>7. CASE UNCHANGED L!vars
  <2>1. UNCHANGED <<wanted, line, p, in_quotes, arg, first_arg, argv, pc>> BY <1>7 DEF L!vars
  <2>2. LineTypes' BY <1>3, <2>1 DEF LineTypes, L!TypeOK
  <2>3. LettersInv' BY <1>3, <2>1 DEF LettersInv
  <2>4. RoundInv' BY <1>3, <2>1 DEF RoundInv, Round, Opening, Quoting, Closed, Begins
  <2> QED BY <2>2, <2>3, <2>4 DEF LineInv
<1> QED BY <1>4, <1>5, <1>6, <1>7 DEF L!Next, L!Done

-----------------------------------------------------------------------------
(* The theorems *)

\* For a registry of any size in any order, and versions of any number of parts:
\* the version returned is installed and none that is installed is newer, unless
\* it is the program's own, and only without an installed one is there none.
THEOREM NewestVersionChosen == OptionsSpec => []NewestSdkChosen
<1> DEFINE Inv == part = "sdk" => SdkInv
<1>1. OptionsInit => Inv BY SdkInit DEF OptionsInit
<1>2. Inv /\ [OptionsNext]_optionsVars => Inv' BY SdkAlone
<1>3. Inv => NewestSdkChosen
  BY DEF NewestSdkChosen, SdkInv, SdkTypes, Chosen, Compared, Newest, S!PartsOfResult
<1> QED BY <1>1, <1>2, <1>3, PTL DEF OptionsSpec

\* For command lines of any length and response files nested in any way, as deep
\* as streams can be open: each value belongs to the option written last before
\* it, wherever that was written, in order and once, and the options in force are
\* those that were written.
THEOREM ValuesBelongToTheirOption == OptionsSpec => []ArgumentsUnderstood
<1> DEFINE Inv == part = "command" => CommandInv
<1>1. OptionsInit => Inv
  <2>1. Init => AtInput BY DEF Init, AtInput
  <2> QED BY <2>1, CommandInit, CommandStarts, ReadStarts DEF OptionsInit, CommandInv
<1>2. Inv /\ [OptionsNext]_optionsVars => Inv' BY CommandAlone
<1>3. Inv => ArgumentsUnderstood
  <2>1. SUFFICES ASSUME part = "command", CommandInv
                 PROVE  TypeOK /\ ValuesFollowTheirOption /\ OptionsWereNamed
    BY DEF ArgumentsUnderstood
  <2>2. TypeOK BY <2>1, CommandTypeOK DEF CommandInv
  <2>3. CASE main = "input"
    <3>1. PICK t \in Seq(Arguments) : t = WrittenOut /\ Understood(t)
      BY <2>1, <2>3 DEF CommandInv, AtInput
    <3>2. Valued(m_options) /\ WrittenOut \in Seq(Arguments) /\ Understood(WrittenOut)
      BY <2>1, <3>1 DEF CommandInv, CommandTypes
    <3> QED BY <2>2, <3>2, UnderstoodProperties
  <2>4. CASE main # "input" BY <2>2, <2>4 DEF ValuesFollowTheirOption, OptionsWereNamed
  <2> QED BY <2>3, <2>4
<1> QED BY <1>1, <1>2, <1>3, PTL DEF OptionsSpec

\* For file systems of any size: refused arguments leave no folder, only named
\* files may be no databases, and a file is loaded once but for the two gaps that
\* the property names.
THEOREM FoundFilesAreRight == OptionsSpec => []FilesFound
<1> DEFINE Inv == part = "command" => CommandInv
<1>1. OptionsInit => Inv
  <2>1. Init => AtInput BY DEF Init, AtInput
  <2> QED BY <2>1, CommandInit, CommandStarts, ReadStarts DEF OptionsInit, CommandInv
<1>2. Inv /\ [OptionsNext]_optionsVars => Inv' BY CommandAlone
<1>3. Inv => FilesFound
  BY GoodArguments, OnlyDatabases, LoadedOnce DEF FilesFound, CommandInv
<1> QED BY <1>1, <1>2, <1>3, PTL DEF OptionsSpec

\* For lines and argument lists of any length over any letters: what was written
\* by the rules of quoting is read as it was meant, and of any line no letter is
\* lost, repeated or moved.
THEOREM LinesAreCutAsWritten == OptionsSpec => []LinesCutAsWritten
<1> DEFINE Inv == part = "line" => LineInv
<1>1. OptionsInit => Inv BY LineStarts, LettersStart, RoundStarts DEF OptionsInit, LineInv
<1>2. Inv /\ [OptionsNext]_optionsVars => Inv' BY LineAlone
<1>3. Inv => LinesCutAsWritten
  <2>1. SUFFICES ASSUME part = "line", LineInv
                 PROVE  L!TypeOK /\ L!RoundTrip /\ L!LettersKept
    BY DEF LinesCutAsWritten
  <2>2. L!TypeOK BY <2>1 DEF LineInv, LineTypes
  <2>3. L!RoundTrip BY <2>1 DEF LineInv, RoundInv, Round, L!RoundTrip
  <2>4. L!LettersKept BY <2>1, LettersAre DEF LineInv
  <2> QED BY <2>2, <2>3, <2>4
<1> QED BY <1>1, <1>2, <1>3, PTL DEF OptionsSpec
=============================================================================
