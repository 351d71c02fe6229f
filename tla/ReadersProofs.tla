---------------------------- MODULE ReadersProofs ----------------------------
(***************************************************************************)
(* Proofs about MetadataReaders for tables and files of any size and any    *)
(* rules: tables and columns are where the file has them, each row has one  *)
(* owner, a name means its first definition, and the longest prefix decides. *)
(***************************************************************************)
EXTENDS MetadataReaders, FiniteSetTheorems, WellFoundedInduction, SequenceTheorems, TLAPS

\* A set of numbers that has any has a least one: among the intervals that end at
\* one of them there is a minimal one.
LEMMA Least ==
    ASSUME NEW n \in Nat, NEW B \in SUBSET (0..n), B # {}
    PROVE \E x \in B : \A y \in B : x <= y
<1> DEFINE S == 0..n
           T == {0..k : k \in B}
<1>1. IsWellFoundedOn(StrictSubsetOrdering(S), SUBSET S)
  <2>1. IsFiniteSet(S) BY FS_Interval
  <2>2. FiniteSubsetsOf(S) = SUBSET S BY <2>1, FS_FiniteSubsetsOfFinite
  <2> QED BY <2>2, FS_StrictSubsetOrderingWellFounded
<1>2. T \subseteq SUBSET S /\ T # {}
  <2>1. ASSUME NEW k \in B PROVE (0..k) \subseteq 0..n BY <2>1
  <2> QED BY <2>1
<1>3. PICK X \in T : \A Y \in T : <<Y, X>> \notin StrictSubsetOrdering(S)
  <2> HIDE DEF T, S
  <2> QED BY <1>1, <1>2, WFMin
<1>4. PICK x \in B : X = 0..x BY <1>3
<1>5. ASSUME NEW y \in B, y < x PROVE FALSE
  <2>1. (0..y) \subseteq (0..x) /\ x \in 0..x /\ x \notin 0..y BY <1>5
  <2>2. <<0..y, 0..x>> \in StrictSubsetOrdering(S) BY <1>2, <2>1 DEF StrictSubsetOrdering
  <2> QED BY <1>3, <1>4, <2>2
<1> QED BY <1>4, <1>5

-----------------------------------------------------------------------------
(* The first definition of a name *)

\* The types that are entered by name, and those whose row was read.
Entered == {t \in Types : Def(t).flags /\ ~Def(t).nested}
Passed(t) == t[1] < db \/ (t[1] = db /\ (pc # "types" \/ t[2] <= row))

ReadingOK ==
    /\ files \in Seq(Database) /\ db \in Nat \ {0} /\ row \in Nat
    /\ pc \in {"types", "nested", "filing", "built", "threw"}
    /\ pc \in {"filing", "built", "threw"} => db > Len(files)

\* What is entered was read, under its own name, and no earlier definition was.
EnteredOnce ==
    \A k \in DOMAIN types : \E t \in Entered : types[k] = t /\ Key(t) = k /\ Passed(t)
FirstEntered ==
    \A t \in Entered : Passed(t) =>
       \E k \in DOMAIN types : k = Key(t) /\ (types[k] = t \/ Before(types[k], t))

EntryInv == ReadingOK /\ EnteredOnce /\ FirstEntered

LEMMA TypesAreRows ==
    ASSUME files \in Seq(Database)
    PROVE /\ \A t \in Types : t = <<t[1], t[2]>> /\ t[1] \in 1..Len(files) /\ t[2] \in 1..Len(files[t[1]].types)
          /\ \A d \in 1..Len(files) : Len(files[d].types) \in Nat
          /\ \A d \in 1..Len(files) : \A r \in 1..Len(files[d].types) : <<d, r>> \in Types
<1>1. \A d \in DOMAIN files : files[d].types \in Seq(Row)
  <2>1. ASSUME NEW d \in DOMAIN files PROVE files[d] \in Database OBVIOUS
  <2>2. \A x \in Database : x.types \in Seq(Row) BY DEF Database
  <2> QED BY <2>1, <2>2
<1>2. DOMAIN files = 1..Len(files) OBVIOUS
<1>3. \A d \in 1..Len(files) : DOMAIN files[d].types = 1..Len(files[d].types) /\ Len(files[d].types) \in Nat
  BY <1>1, <1>2
<1> QED BY <1>2, <1>3 DEF Types

\* The files stay as they are.
LEMMA SameFiles ==
    ASSUME files' = files
    PROVE Entered' = Entered /\ \A t : Key(t)' = Key(t)
BY DEF Entered, Types, Def, Key

LEMMA InitEntry == ASSUME Init PROVE EntryInv
<1>1. /\ files \in Seq(Database) /\ db = 1 /\ row = 0 /\ types = << >>
      /\ pc = IF files = <<>> THEN "filing" ELSE "types"
  BY FilesAssumption DEF Init
<1>2. ReadingOK BY <1>1 DEF ReadingOK
<1>3. \A t \in Types : ~Passed(t)
  <2>1. CASE files = <<>> BY <1>1, <2>1 DEF Types
  <2>2. CASE files # <<>> BY <1>1, <2>2, TypesAreRows DEF Passed
  <2> QED BY <2>1, <2>2
<1>4. EnteredOnce BY <1>1 DEF EnteredOnce
<1> QED BY <1>2, <1>3, <1>4 DEF EntryInv, FirstEntered, Entered

\* A step that enters nothing, and is past the same rows.
LEMMA KeepsEntered ==
    ASSUME EntryInv, files' = files, types' = types, \A t \in Entered : Passed(t)' <=> Passed(t)
    PROVE EnteredOnce' /\ FirstEntered'
<1>1. Entered' = Entered /\ \A t : Key(t)' = Key(t) BY SameFiles
<1>2. \A t \in Entered : (Key(t)' = Key(t)) /\ (Passed(t)' <=> Passed(t)) BY <1>1
<1>3. EnteredOnce' BY <1>1, <1>2 DEF EntryInv, EnteredOnce
<1>4. FirstEntered' BY <1>1, <1>2 DEF EntryInv, FirstEntered, Before
<1> QED BY <1>3, <1>4

\* Types are entered when their row is read, unless their name is there.
LEMMA LoadTypeEntry == ASSUME EntryInv, LoadType PROVE EntryInv'
<1> DEFINE t == <<db, row + 1>>
<1>1. /\ pc = "types" /\ db <= Len(files) /\ row < Len(files[db].types) /\ row' = row + 1
      /\ files' = files /\ db' = db /\ pc' = pc
      /\ IF Def(t).flags /\ ~Def(t).nested THEN types' = WithType(t) ELSE types' = types
  BY DEF LoadType
<1>2. /\ files \in Seq(Database) /\ db \in 1..Len(files) /\ row \in Nat
      /\ Len(files) \in Nat /\ db \in Nat \ {0}
  BY <1>1 DEF EntryInv, ReadingOK
<1>3. t \in Types BY <1>1, <1>2, TypesAreRows
<1>4. ReadingOK' BY <1>1, <1>2 DEF EntryInv, ReadingOK
<1>5. \A u \in Types : Passed(u)' <=> (Passed(u) \/ u = t)
  BY <1>1, <1>2, TypesAreRows DEF Passed
<1>6. Entered \subseteq Types /\ (t \in Entered <=> Def(t).flags /\ ~Def(t).nested)
  BY <1>3 DEF Entered
<1>7. CASE t \notin Entered
  <2>1. types' = types BY <1>1, <1>6, <1>7
  <2>2. \A u \in Entered : Passed(u)' <=> Passed(u) BY <1>5, <1>6, <1>7
  <2> QED BY <1>1, <1>4, <2>1, <2>2, KeepsEntered DEF EntryInv
<1>8. CASE t \in Entered
  <2> DEFINE K == Key(t)
  <2>1. types' = [k \in DOMAIN types \cup {K} |-> IF k \in DOMAIN types THEN types[k] ELSE t]
    BY <1>1, <1>6, <1>8 DEF WithType
  <2>2. /\ DOMAIN types' = DOMAIN types \cup {K}
        /\ \A k \in DOMAIN types : types'[k] = types[k]
        /\ K \notin DOMAIN types => types'[K] = t
    BY <2>1
  <2>3. /\ Entered' = Entered /\ \A u : Key(u)' = Key(u) BY <1>1, SameFiles
  <2>4. EnteredOnce'
    <3>1. ASSUME NEW k \in DOMAIN types'
          PROVE \E u \in Entered : types'[k] = u /\ Key(u) = k /\ (Passed(u) \/ u = t)
      <4>1. CASE k \in DOMAIN types BY <2>2, <4>1 DEF EntryInv, EnteredOnce
      <4>2. CASE k \notin DOMAIN types BY <1>8, <2>2, <4>2
      <4> QED BY <4>1, <4>2
    <3> HIDE DEF t, K
    <3> QED BY <1>5, <1>6, <2>3, <3>1 DEF EnteredOnce
  <2>5. FirstEntered'
    <3>1. ASSUME NEW u \in Entered, Passed(u)
          PROVE \E k \in DOMAIN types' : k = Key(u) /\ (types'[k] = u \/ Before(types'[k], u))
      BY <2>2, <3>1 DEF EntryInv, FirstEntered
    <3>2. \E k \in DOMAIN types' : k = K /\ (types'[k] = t \/ Before(types'[k], t))
      <4>1. CASE K \notin DOMAIN types BY <2>2, <4>1
      <4>2. CASE K \in DOMAIN types
        <5>1. PICK u \in Entered : types[K] = u /\ Passed(u) BY <4>2 DEF EntryInv, EnteredOnce
        <5>2. Before(u, t) BY <1>1, <1>2, <1>6, <5>1, TypesAreRows DEF Passed, Before
        <5> QED BY <2>2, <4>2, <5>1, <5>2
      <4> QED BY <4>1, <4>2
    <3>3. \A u \in Entered : Passed(u)' =>
             \E k \in DOMAIN types' : k = Key(u) /\ (types'[k] = u \/ Before(types'[k], u))
      BY <1>5, <1>6, <3>1, <3>2
    <3> QED BY <2>3, <3>3 DEF FirstEntered, Before
  <2> QED BY <1>4, <2>4, <2>5 DEF EntryInv
<1> QED BY <1>7, <1>8

\* The other steps enter nothing: the row after the last one of a file is the
\* first one of the next.
LEMMA OtherEntry ==
    ASSUME EntryInv, TypesLoaded \/ LoadNested \/ NextDatabase \/ FileType \/ Built
                 \/ UNCHANGED vars \/ (\E s, n : RemoveType(s, n))
    PROVE EntryInv'
<1>1. files' = files /\ types' = types
  BY DEF TypesLoaded, LoadNested, NextDatabase, FileType, Built, RemoveType, vars
<1>2. files \in Seq(Database) /\ db \in Nat \ {0} /\ row \in Nat /\ Len(files) \in Nat
  BY DEF EntryInv, ReadingOK
<1>3. ReadingOK'
  <2>1. CASE TypesLoaded BY <1>1, <1>2, <2>1 DEF EntryInv, ReadingOK, TypesLoaded
  <2>2. CASE LoadNested BY <1>1, <1>2, <2>2 DEF EntryInv, ReadingOK, LoadNested
  <2>3. CASE NextDatabase BY <1>1, <1>2, <2>3 DEF EntryInv, ReadingOK, NextDatabase
  <2>4. CASE FileType BY <1>1, <1>2, <2>4 DEF EntryInv, ReadingOK, FileType
  <2>5. CASE Built BY <1>1, <1>2, <2>5 DEF EntryInv, ReadingOK, Built
  <2>6. CASE UNCHANGED vars BY <1>1, <1>2, <2>6 DEF EntryInv, ReadingOK, vars
  <2>7. CASE \E s, n : RemoveType(s, n) BY <1>1, <1>2, <2>7 DEF EntryInv, ReadingOK, RemoveType
  <2> QED BY <2>1, <2>2, <2>3, <2>4, <2>5, <2>6, <2>7
<1>4. ASSUME NEW t \in Entered PROVE Passed(t)' <=> Passed(t)
  <2>1. t[1] \in 1..Len(files) /\ t[2] \in 1..Len(files[t[1]].types) BY <1>2, TypesAreRows DEF Entered
  <2>2. CASE TypesLoaded BY <1>2, <2>1, <2>2 DEF TypesLoaded, Passed
  <2>3. CASE LoadNested BY <2>3 DEF LoadNested, Passed
  <2>4. CASE NextDatabase BY <1>2, <2>1, <2>4 DEF NextDatabase, Passed
  <2>5. CASE FileType BY <2>5 DEF FileType, Passed
  <2>6. CASE Built BY <2>6 DEF Built, Passed
  <2>7. CASE UNCHANGED vars BY <2>7 DEF vars, Passed
  <2>8. CASE \E s, n : RemoveType(s, n) BY <2>8 DEF RemoveType, Passed
  <2> QED BY <2>2, <2>3, <2>4, <2>5, <2>6, <2>7, <2>8
<1> QED BY <1>1, <1>3, <1>4, KeepsEntered DEF EntryInv

-----------------------------------------------------------------------------
(* Each type in one list *)

\* A finite set of keys that has any has one before all others.
LEMMA FirstKey ==
    ASSUME NEW D, IsFiniteSet(D), D # {}, D \subseteq Space \X Name
    PROVE  \E k \in D : \A l \in D \ {k} : Before(k, l)
<1> DEFINE Below(k) == {l \in D : Before(l, k)}
           T == {Below(k) : k \in D}
<1>0. \A k \in D : k = <<k[1], k[2]>> /\ k[1] \in Nat /\ k[2] \in Nat
  <2> HIDE DEF Below, T
  <2>1. Space \subseteq Nat /\ Name \subseteq Nat BY FilesAssumption
  <2>2. \A k \in Space \X Name : k = <<k[1], k[2]>> /\ k[1] \in Space /\ k[2] \in Name
    OBVIOUS
  <2> QED BY <2>1, <2>2
<1>1. IsWellFoundedOn(StrictSubsetOrdering(D), SUBSET D)
  <2>1. FiniteSubsetsOf(D) = SUBSET D BY FS_FiniteSubsetsOfFinite
  <2> QED BY <2>1, FS_StrictSubsetOrderingWellFounded
<1>2. T \subseteq SUBSET D /\ T # {} OBVIOUS
<1>3. PICK X \in T : \A Y \in T : <<Y, X>> \notin StrictSubsetOrdering(D)
  <2> HIDE DEF T
  <2> QED BY <1>1, <1>2, WFMin
<1>4. PICK k \in D : X = Below(k) BY <1>3
<1>5. ASSUME NEW l \in D, Before(l, k) PROVE FALSE
  <2>1. \A m \in D : Before(m, l) => Before(m, k) BY <1>0, <1>5 DEF Before
  <2>2. ~Before(l, l) BY <1>0 DEF Before
  <2>3. Below(l) \subseteq Below(k) /\ l \in Below(k) /\ l \notin Below(l) BY <1>5, <2>1, <2>2
  <2>4. Below(l) \in SUBSET D /\ Below(k) \in SUBSET D OBVIOUS
  <2> HIDE DEF Below
  <2>5. <<Below(l), Below(k)>> \in StrictSubsetOrdering(D)
    BY <2>3, <2>4 DEF StrictSubsetOrdering
  <2> QED BY <1>3, <1>4, <2>5
<1>6. ASSUME NEW l \in D \ {k} PROVE Before(k, l)
  <2>1. ~Before(l, k) BY <1>5
  <2>2. l[1] # k[1] \/ l[2] # k[2] BY <1>0
  <2> QED BY <1>0, <2>1, <2>2 DEF Before
<1> QED BY <1>6

\* What is in the list of namespace s and kind l, and that nothing is in it twice.
Fits(t, s, l) ==
    /\ t \in Types /\ Key(t) \in filed /\ types[Key(t)] = t
    /\ Key(t)[1] = s /\ ListOf(t) = l
    /\ ~(Key(t) \in removed /\ l \in RemovedFrom)
ListOK(list, s, l) ==
    /\ list \in Seq(Nat \X Nat)
    /\ \A i \in DOMAIN list : Fits(list[i], s, l)
    /\ \A i, j \in DOMAIN list : list[i] = list[j] => i = j
ListsOK == \A s \in DOMAIN lists, l \in Kind : ListOK(lists[s][l], s, l)

\* What was filed is in its list unless it was removed from there.
FiledListed ==
    \A k \in filed :
       /\ k \in DOMAIN types /\ ListOf(types[k]) \in Kind
       /\ \/ k \in removed /\ ListOf(types[k]) \in RemovedFrom
          \/ \E i \in DOMAIN lists[k[1]][ListOf(types[k])] :
                lists[k[1]][ListOf(types[k])][i] = types[k]
SpacesListed == \A k \in DOMAIN types : k[1] \in DOMAIN lists
Phases ==
    /\ filed \subseteq DOMAIN types /\ removed \subseteq Removals
    /\ IsFiniteSet(DOMAIN types)
    /\ pc \in {"types", "nested"} => filed = {}
    /\ pc # "built" => removed = {}
    /\ pc = "built" => filed = DOMAIN types

ListingOK == ListsOK /\ FiledListed /\ SpacesListed /\ Phases

LEMMA DefIs ==
    ASSUME files \in Seq(Database), NEW t \in Types
    PROVE  /\ Def(t) \in Row /\ Key(t) \in Space \X Name
           /\ Key(t)[1] = Def(t).space /\ Key(t)[2] = Def(t).name
           /\ t \in Nat \X Nat
<1>1. /\ t = <<t[1], t[2]>> /\ t[1] \in 1..Len(files) /\ t[2] \in 1..Len(files[t[1]].types)
      /\ Len(files) \in Nat /\ Len(files[t[1]].types) \in Nat
  BY TypesAreRows
<1>2. files[t[1]].types \in Seq(Row)
  <2>1. files[t[1]] \in Database BY <1>1
  <2>2. \A x \in Database : x.types \in Seq(Row) BY DEF Database
  <2> QED BY <2>1, <2>2
<1>3. Def(t) \in Row BY <1>1, <1>2 DEF Def
<1>4. Def(t).space \in Space /\ Def(t).name \in Name BY <1>3 DEF Row
<1>5. t[1] \in Nat /\ t[2] \in Nat BY <1>1
<1> QED BY <1>1, <1>3, <1>4, <1>5 DEF Key

LEMMA SameDefs ==
    ASSUME files' = files
    PROVE  /\ Types' = Types
           /\ \A t : Def(t)' = Def(t) /\ Key(t)' = Key(t) /\ ListOf(t)' = ListOf(t)
BY DEF Types, Def, Key, ListOf, Category

LEMMA InitListing == ASSUME Init PROVE ListingOK
<1>1. types = << >> /\ lists = << >> /\ filed = {} /\ removed = {}
      /\ pc \in {"types", "filing"}
  BY DEF Init
<1>2. DOMAIN types = {} /\ DOMAIN lists = {} BY <1>1
<1> QED BY <1>1, <1>2, FS_EmptySet DEF ListingOK, ListsOK, FiledListed, SpacesListed, Phases

\* What keeps the lists, and what they are about.
LEMMA KeepsListing ==
    ASSUME ListingOK, files' = files, types' = types, lists' = lists, filed' = filed,
           removed' = removed
    PROVE  ListsOK' /\ FiledListed' /\ SpacesListed'
<1>1. /\ Types' = Types
      /\ \A t : Key(t)' = Key(t) /\ ListOf(t)' = ListOf(t)
  BY SameDefs
<1>2. ASSUME NEW t, NEW s, NEW l PROVE Fits(t, s, l)' <=> Fits(t, s, l)
  <2>1. Key(t)' = Key(t) /\ ListOf(t)' = ListOf(t) BY <1>1
  <2> QED BY <1>1, <2>1 DEF Fits
<1>3. ListsOK' BY <1>2 DEF ListingOK, ListsOK, ListOK
<1>4. \A k : ListOf(types[k])' = ListOf(types[k])
  <2>1. ASSUME NEW k PROVE ListOf(types[k])' = ListOf(types[k])
    BY DEF ListOf, Category, Def
  <2> QED BY <2>1
<1>5. FiledListed' BY <1>4 DEF ListingOK, FiledListed
<1>6. SpacesListed' BY DEF ListingOK, SpacesListed
<1> QED BY <1>3, <1>5, <1>6

\* Before any type is filed the lists are empty.
LEMMA ListsEmpty ==
    ASSUME ListsOK, filed = {}, NEW s \in DOMAIN lists, NEW l \in Kind
    PROVE  DOMAIN lists[s][l] = {} /\ lists[s][l] \in Seq(Nat \X Nat)
BY DEF ListsOK, ListOK, Fits

LEMMA LoadTypeListing == ASSUME EntryInv, ListingOK, LoadType PROVE ListingOK'
<1> DEFINE t == <<db, row + 1>>
           sp == Def(t).space
<1>1. /\ pc = "types" /\ db <= Len(files) /\ row < Len(files[db].types)
      /\ files' = files /\ filed' = filed /\ removed' = removed /\ pc' = pc
      /\ IF Def(t).flags /\ ~Def(t).nested
         THEN /\ types' = WithType(t)
              /\ lists' = [s \in DOMAIN lists \cup {sp} |->
                             IF s \in DOMAIN lists THEN lists[s] ELSE [k \in Kind |-> <<>>]]
         ELSE types' = types /\ lists' = lists
  BY DEF LoadType
<1>2. filed = {} /\ removed = {} BY <1>1 DEF ListingOK, Phases
<1>3. CASE ~(Def(t).flags /\ ~Def(t).nested)
  <2>1. Phases' BY <1>1, <1>3 DEF ListingOK, Phases
  <2> QED BY <1>1, <1>3, <2>1, KeepsListing DEF ListingOK
<1>4. CASE Def(t).flags /\ ~Def(t).nested
  <2>1. /\ DOMAIN types' = DOMAIN types \cup {Key(t)}
        /\ DOMAIN lists' = DOMAIN lists \cup {sp}
        /\ \A s \in DOMAIN lists : lists'[s] = lists[s]
        /\ \A s \in DOMAIN lists' \ DOMAIN lists : lists'[s] = [k \in Kind |-> <<>>]
    BY <1>1, <1>4 DEF WithType
  <2> HIDE DEF sp
  <2>2. ASSUME NEW s \in DOMAIN lists', NEW l \in Kind
        PROVE  DOMAIN lists'[s][l] = {} /\ lists'[s][l] \in Seq(Nat \X Nat)
    <3>1. CASE s \in DOMAIN lists BY <1>2, <2>1, <3>1, ListsEmpty DEF ListingOK
    <3>2. CASE s \notin DOMAIN lists
      <4>1. lists'[s][l] = <<>> BY <2>1, <3>2
      <4> QED BY <4>1
    <3> QED BY <3>1, <3>2
  <2>3. ListsOK' BY <2>2 DEF ListsOK, ListOK
  <2>4. FiledListed' BY <1>1, <1>2 DEF FiledListed
  <2>5. SpacesListed'
    <3>1. Key(t)[1] = sp BY DEF Key, sp
    <3>2. \A k \in DOMAIN types : k[1] \in DOMAIN lists BY DEF ListingOK, SpacesListed
    <3> HIDE DEF t
    <3> QED BY <2>1, <3>1, <3>2 DEF SpacesListed
  <2>6. IsFiniteSet(DOMAIN types) BY DEF ListingOK, Phases
  <2>7. IsFiniteSet(DOMAIN types \cup {Key(t)}) BY <2>6, FS_AddElement
  <2>8. Phases' BY <1>1, <1>2, <2>1, <2>7 DEF Phases
  <2> QED BY <2>3, <2>4, <2>5, <2>8 DEF ListingOK
<1> QED BY <1>3, <1>4

\* The steps that file nothing and remove nothing.
LEMMA OtherListing ==
    ASSUME ListingOK, TypesLoaded \/ LoadNested \/ NextDatabase \/ Built \/ UNCHANGED vars
    PROVE  ListingOK'
<1>1. /\ files' = files /\ types' = types /\ lists' = lists /\ filed' = filed
      /\ removed' = removed
  BY DEF TypesLoaded, LoadNested, NextDatabase, Built, vars
<1>2. Phases'
  BY <1>1 DEF ListingOK, Phases, TypesLoaded, LoadNested, NextDatabase, Built, vars
<1> QED BY <1>1, <1>2, KeepsListing DEF ListingOK


\* A type with a category is in one of the lists.
LEMMA ListOfIs ==
    ASSUME files \in Seq(Database), NEW t \in Types,
           Def(t).base # "none" \/ Def(t).interface \/ Def(t).guid
    PROVE  ListOf(t) \in Kind
<1>1. Def(t).base \in {"Enum", "ValueType", "MulticastDelegate", "Attribute", "Object", "none"}
  BY DefIs DEF Row
<1>2. CASE Def(t).interface \/ Def(t).guid BY <1>2 DEF Category, ListOf, Kind
<1>3. CASE ~(Def(t).interface \/ Def(t).guid)
  <2>1. Def(t).base \in {"Enum", "ValueType", "MulticastDelegate", "Attribute", "Object"}
    BY <1>1, <1>3
  <2>2. Category(t) \in {"enums", "structs", "delegates", "classes"}
    BY <1>3, <2>1 DEF Category
  <2> QED BY <2>2 DEF ListOf, Kind
<1> QED BY <1>2, <1>3

\* What is entered are keys, of the types that are found by them.
LEMMA KeysEntered ==
    ASSUME EntryInv, NEW k \in DOMAIN types
    PROVE  /\ k \in Space \X Name /\ k = <<k[1], k[2]>>
           /\ types[k] \in Entered /\ types[k] \in Types /\ Key(types[k]) = k
           /\ Def(types[k]).space = k[1] /\ Def(types[k]).name = k[2]
<1>1. files \in Seq(Database) BY DEF EntryInv, ReadingOK
<1>2. types[k] \in Entered /\ Key(types[k]) = k BY DEF EntryInv, EnteredOnce
<1>3. types[k] \in Types BY <1>2 DEF Entered
<1>4. k \in Space \X Name BY <1>1, <1>2, <1>3, DefIs
<1>5. Def(types[k]).space = k[1] /\ Def(types[k]).name = k[2] BY <1>1, <1>2, <1>3, DefIs
<1> QED BY <1>2, <1>3, <1>4, <1>5

LEMMA FileTypeListing == ASSUME EntryInv, ListingOK, FileType PROVE ListingOK'
<1> DEFINE D == DOMAIN types \ filed
<1>0. PICK k : k = CHOOSE m \in D : \A l \in D \ {m} : Before(m, l) OBVIOUS
<1>type. PICK t : t = types[k] OBVIOUS
<1>list. PICK L : L = ListOf(t) OBVIOUS
<1>old. PICK old : old = lists[k[1]][L] OBVIOUS
<1>1. /\ pc = "filing" /\ DOMAIN types # filed
      /\ files' = files /\ types' = types /\ removed' = removed
      /\ IF Def(t).base = "none" /\ ~Def(t).interface /\ ~Def(t).guid
         THEN pc' = "threw" /\ lists' = lists /\ filed' = filed
         ELSE /\ lists' = [lists EXCEPT ![k[1]] = Filed(t)]
              /\ filed' = filed \cup {k} /\ pc' = pc
  BY <1>0, <1>type DEF FileType
<1>2. /\ filed \subseteq DOMAIN types /\ IsFiniteSet(DOMAIN types) /\ removed = {}
      /\ ListsOK /\ FiledListed /\ SpacesListed
  BY <1>1 DEF ListingOK, Phases
<1>3. k \in D
  <2>1. IsFiniteSet(D)
    <3>1. D \in SUBSET (DOMAIN types) OBVIOUS
    <3> HIDE DEF D
    <3> QED BY <1>2, <3>1, FS_Subset
  <2>2. D # {} BY <1>1, <1>2
  <2>3. D \subseteq Space \X Name BY KeysEntered
  <2> HIDE DEF D
  <2>4. \E l \in D : \A m \in D \ {l} : Before(l, m) BY <2>1, <2>2, <2>3, FirstKey
  <2> QED BY <1>0, <2>4
<1>4. /\ k \in DOMAIN types /\ k \notin filed BY <1>3
<1>5. /\ t \in Types /\ Key(t) = k /\ Def(t).space = k[1] BY <1>4, <1>type, KeysEntered
<1>6. CASE Def(t).base = "none" /\ ~Def(t).interface /\ ~Def(t).guid
  <2>1. Phases' BY <1>1, <1>2, <1>6 DEF Phases
  <2> QED BY <1>1, <1>6, <2>1, KeepsListing DEF ListingOK
<1>7. CASE ~(Def(t).base = "none" /\ ~Def(t).interface /\ ~Def(t).guid)
  <2>1. /\ lists' = [lists EXCEPT ![k[1]] = Filed(t)]
        /\ filed' = filed \cup {k} /\ pc' = pc
    BY <1>1, <1>7
  <2>2. L \in Kind
    <3>1. files \in Seq(Database) BY DEF EntryInv, ReadingOK
    <3> QED BY <1>5, <1>7, <1>list, <3>1, ListOfIs
  <2>3. k[1] \in DOMAIN lists BY <1>2, <1>4 DEF SpacesListed
  <2>4. /\ DOMAIN lists' = DOMAIN lists
        /\ \A s \in DOMAIN lists : s # k[1] => lists'[s] = lists[s]
        /\ \A l \in Kind : l # L => lists'[k[1]][l] = lists[k[1]][l]
        /\ lists'[k[1]][L] = Append(old, t)
    <3>1. lists'[k[1]] = Filed(t) BY <2>1, <2>3
    <3>2. Filed(t) = [l \in Kind |-> IF l = L THEN Append(lists[k[1]][l], t) ELSE lists[k[1]][l]]
      BY <1>5, <1>list DEF Filed
    <3>3. DOMAIN lists' = DOMAIN lists /\ \A s \in DOMAIN lists : s # k[1] => lists'[s] = lists[s]
      BY <2>1
    <3> QED BY <1>old, <2>2, <3>1, <3>2, <3>3
  <2>5. ASSUME NEW s \in DOMAIN lists, NEW l \in Kind PROVE ListOK(lists[s][l], s, l)
    BY <1>2 DEF ListsOK
  <2>6. ASSUME NEW u, NEW s, NEW l, Fits(u, s, l) PROVE Fits(u, s, l)'
    <3>1. Types' = Types /\ Key(u)' = Key(u) /\ ListOf(u)' = ListOf(u) BY <1>1, SameDefs
    <3>2. u \in Types /\ Key(u) \in filed' /\ types'[Key(u)] = u /\ Key(u)[1] = s /\ ListOf(u) = l
      BY <1>1, <2>1, <2>6 DEF Fits
    <3> QED BY <1>1, <1>2, <3>1, <3>2 DEF Fits
  <2>7. Fits(t, k[1], L)'
    <3>1. Types' = Types /\ Key(t)' = Key(t) /\ ListOf(t)' = ListOf(t) BY <1>1, SameDefs
    <3>2. t \in Types /\ Key(t) \in filed' /\ types'[Key(t)] = t /\ Key(t)[1] = k[1] /\ ListOf(t) = L
      BY <1>1, <1>5, <1>type, <1>list, <2>1
    <3> QED BY <1>1, <1>2, <3>1, <3>2 DEF Fits
  <2>8. ListOK(old, k[1], L) BY <1>old, <2>2, <2>3, <2>5
  <2>9. ListOK(lists[k[1]][L], k[1], L)'
    <3>1. old \in Seq(Nat \X Nat) /\ t \in Nat \X Nat
      <4>1. files \in Seq(Database) BY DEF EntryInv, ReadingOK
      <4> QED BY <1>5, <2>8, <4>1, DefIs DEF ListOK
    <3>2. /\ Append(old, t) \in Seq(Nat \X Nat) /\ Len(old) \in Nat
          /\ DOMAIN old = 1..Len(old) /\ DOMAIN Append(old, t) = 1..(Len(old) + 1)
          /\ Append(old, t)[Len(old) + 1] = t
          /\ \A i \in 1..Len(old) : Append(old, t)[i] = old[i]
      <4> QED BY <3>1
    <3>3. \A i \in DOMAIN old : Fits(old[i], k[1], L) /\ old[i] # t
      BY <1>4, <1>5, <2>8 DEF ListOK, Fits
    <3>4. \A i, j \in DOMAIN old : old[i] = old[j] => i = j BY <2>8 DEF ListOK
    <3>new. PICK new : new = Append(old, t) OBVIOUS
    <3>5. \A i \in 1..(Len(old) + 1) : i \in 1..Len(old) \/ i = Len(old) + 1 BY <3>2
    <3>6. \A i \in DOMAIN new : Fits(new[i], k[1], L)'
      BY <2>6, <2>7, <3>2, <3>3, <3>5, <3>new
    <3>7. \A i, j \in DOMAIN new : new[i] = new[j] => i = j
      BY <3>2, <3>3, <3>4, <3>5, <3>new
    <3>8. new \in Seq(Nat \X Nat) BY <3>2, <3>new
    <3>9. new = lists'[k[1]][L] BY <2>4, <3>new
    <3> QED BY <3>6, <3>7, <3>8, <3>9 DEF ListOK
  <2>10. ASSUME NEW s \in DOMAIN lists, NEW l \in Kind, s # k[1] \/ l # L
         PROVE  ListOK(lists[s][l], s, l)'
    <3>1. lists'[s][l] = lists[s][l] BY <2>4, <2>10
    <3>2. ListOK(lists[s][l], s, l) BY <2>5
    <3> QED BY <2>6, <3>1, <3>2 DEF ListOK
  <2>11. ListsOK'
    <3>1. ASSUME NEW s \in DOMAIN lists', NEW l \in Kind PROVE ListOK(lists[s][l], s, l)'
      <4>1. CASE s = k[1] /\ l = L BY <2>9, <4>1
      <4>2. CASE s # k[1] \/ l # L BY <2>4, <2>10, <4>2
      <4> QED BY <4>1, <4>2
    <3> QED BY <3>1 DEF ListsOK
  <2>12. FiledListed'
    <3> DEFINE At(m, ls) == \E i \in DOMAIN ls[m[1]][ListOf(types[m])] :
                               ls[m[1]][ListOf(types[m])][i] = types[m]
    <3>1. \A m : ListOf(types[m])' = ListOf(types[m])
      BY <1>1 DEF ListOf, Category, Def
    <3>2. ASSUME NEW m \in filed
          PROVE  m \in DOMAIN types /\ ListOf(types[m]) \in Kind /\ At(m, lists')
      <4>1. m \in DOMAIN types /\ ListOf(types[m]) \in Kind /\ At(m, lists)
        BY <1>2 DEF FiledListed
      <4> DEFINE M == ListOf(types[m])
      <4>2. m[1] \in DOMAIN lists BY <1>2, <4>1 DEF SpacesListed
      <4>3. CASE m[1] = k[1] /\ M = L
        <5>1. old \in Seq(Nat \X Nat) BY <2>8 DEF ListOK
        <5>2. PICK i \in DOMAIN old : old[i] = types[m] BY <1>old, <4>1, <4>3
        <5>3. t \in Nat \X Nat
          <6>1. files \in Seq(Database) BY DEF EntryInv, ReadingOK
          <6> QED BY <1>5, <6>1, DefIs
        <5>4. i \in DOMAIN Append(old, t) /\ Append(old, t)[i] = old[i] BY <5>1, <5>2, <5>3
        <5>5. lists'[m[1]][M] = Append(old, t) BY <2>4, <4>3
        <5> QED BY <4>1, <5>2, <5>4, <5>5
      <4>4. CASE m[1] # k[1] \/ M # L
        <5>1. lists'[m[1]][M] = lists[m[1]][M] BY <2>4, <4>1, <4>2, <4>4
        <5> QED BY <4>1, <5>1
      <4> QED BY <4>3, <4>4
    <3>3. k \in DOMAIN types /\ ListOf(types[k]) \in Kind /\ At(k, lists')
      <4>1. ListOf(types[k]) = L BY <1>type, <1>list
      <4>2. old \in Seq(Nat \X Nat) BY <2>8 DEF ListOK
      <4>3. t \in Nat \X Nat
        <5>1. files \in Seq(Database) BY DEF EntryInv, ReadingOK
        <5> QED BY <1>5, <5>1, DefIs
      <4>4. Len(old) + 1 \in DOMAIN Append(old, t) /\ Append(old, t)[Len(old) + 1] = t
        BY <4>2, <4>3
      <4>5. t = types[k] BY <1>type
      <4> QED BY <1>4, <2>2, <2>4, <4>1, <4>4, <4>5
    <3>4. \A m \in filed' : m \in DOMAIN types /\ ListOf(types[m]) \in Kind /\ At(m, lists')
      BY <2>1, <3>2, <3>3
    <3> QED BY <1>1, <3>1, <3>4 DEF FiledListed
  <2>13. SpacesListed' BY <1>1, <1>2, <2>4 DEF SpacesListed
  <2>14. Phases' BY <1>1, <1>2, <1>4, <2>1 DEF ListingOK, Phases
  <2> QED BY <2>11, <2>12, <2>13, <2>14 DEF ListingOK
<1> QED BY <1>6, <1>7


\* Where the elements are when the one at place i has been taken out.
LEMMA RemoveAtIs ==
    ASSUME NEW T, NEW s \in Seq(T), NEW i \in 1..Len(s)
    PROVE  /\ RemoveAt(s, i) \in Seq(T) /\ Len(RemoveAt(s, i)) = Len(s) - 1
           /\ \A j \in 1..(i - 1) : RemoveAt(s, i)[j] = s[j]
           /\ \A j \in i..(Len(s) - 1) : RemoveAt(s, i)[j] = s[j + 1]
<1> DEFINE a == SubSeq(s, 1, i - 1)
           c == SubSeq(s, i + 1, Len(s))
<1>1. Len(s) \in Nat /\ i \in Nat \ {0} /\ i <= Len(s) /\ \A j \in 1..Len(s) : s[j] \in T
  BY LenProperties, ElementOfSeq
<1>2. a \in Seq(T) /\ Len(a) = i - 1 /\ \A j \in 1..(i - 1) : a[j] = s[j]
  <2>1. \A j \in 1..(i - 1) : s[j] \in T BY <1>1
  <2>2. /\ a \in Seq(T) /\ Len(a) = IF 1 <= i - 1 THEN i - 1 - 1 + 1 ELSE 0
        /\ \A j \in 1..(i - 1 - 1 + 1) : a[j] = s[1 + j - 1]
    BY <1>1, <2>1, SubSeqProperties
  <2> HIDE DEF a
  <2> QED BY <1>1, <2>2
<1>3. c \in Seq(T) /\ Len(c) = Len(s) - i /\ \A j \in 1..(Len(s) - i) : c[j] = s[i + j]
  <2>1. \A j \in (i + 1)..Len(s) : s[j] \in T BY <1>1
  <2>2. /\ c \in Seq(T) /\ Len(c) = IF i + 1 <= Len(s) THEN Len(s) - (i + 1) + 1 ELSE 0
        /\ \A j \in 1..(Len(s) - (i + 1) + 1) : c[j] = s[(i + 1) + j - 1]
    BY <1>1, <2>1, SubSeqProperties
  <2> HIDE DEF c
  <2>3. Len(c) = Len(s) - i BY <1>1, <2>2
  <2>4. \A j \in 1..(Len(s) - i) : (i + 1) + j - 1 = i + j /\ j \in 1..(Len(s) - (i + 1) + 1)
    BY <1>1
  <2> QED BY <2>2, <2>3, <2>4
<1>4. RemoveAt(s, i) = a \o c BY DEF RemoveAt
<1> HIDE DEF a, c
<1>5. /\ a \o c \in Seq(T) /\ Len(a \o c) = Len(s) - 1
      /\ \A j \in 1..(Len(s) - 1) : (a \o c)[j] = IF j <= i - 1 THEN a[j] ELSE c[j - (i - 1)]
  <2>1. /\ a \o c \in Seq(T) /\ Len(a \o c) = Len(a) + Len(c)
        /\ \A j \in 1..(Len(a) + Len(c)) : (a \o c)[j] = IF j <= Len(a) THEN a[j] ELSE c[j - Len(a)]
    BY <1>2, <1>3, ConcatProperties
  <2>2. Len(a) + Len(c) = Len(s) - 1 /\ Len(a) = i - 1 BY <1>1, <1>2, <1>3
  <2> QED BY <2>1, <2>2
<1>6. ASSUME NEW j \in 1..(i - 1) PROVE (a \o c)[j] = s[j]
  <2>1. j \in 1..(Len(s) - 1) /\ j <= i - 1 BY <1>1
  <2> QED BY <1>2, <1>5, <2>1
<1>7. ASSUME NEW j \in i..(Len(s) - 1) PROVE (a \o c)[j] = s[j + 1]
  <2>1. /\ j \in 1..(Len(s) - 1) /\ ~(j <= i - 1)
        /\ j - (i - 1) \in 1..(Len(s) - i) /\ i + (j - (i - 1)) = j + 1
    BY <1>1
  <2>2. (a \o c)[j] = c[j - (i - 1)] BY <1>5, <2>1
  <2>3. c[j - (i - 1)] = s[i + (j - (i - 1))] BY <1>3, <2>1
  <2> QED BY <2>1, <2>2, <2>3
<1> QED BY <1>4, <1>5, <1>6, <1>7

\* Erasing the first type of a name leaves the types of other names: there is one at most.
LEMMA WithoutIs ==
    ASSUME files \in Seq(Database), NEW list, NEW s, NEW l, ListOK(list, s, l), NEW name
    PROVE  LET w == Without(list, name) IN
           /\ w \in Seq(Nat \X Nat)
           /\ \A i \in DOMAIN w : \E j \in DOMAIN list : w[i] = list[j] /\ Def(list[j]).name # name
           /\ \A j \in DOMAIN list : Def(list[j]).name # name => \E i \in DOMAIN w : w[i] = list[j]
           /\ \A i, j \in DOMAIN w : w[i] = w[j] => i = j
<1> DEFINE found == {i \in DOMAIN list : Def(list[i]).name = name}
<1>1. /\ list \in Seq(Nat \X Nat) /\ DOMAIN list = 1..Len(list) /\ Len(list) \in Nat
      /\ \A i, j \in DOMAIN list : list[i] = list[j] => i = j
  BY DEF ListOK
<1>2. CASE found = {} BY <1>1, <1>2 DEF Without
<1>3. CASE found # {}
  <2>1. ASSUME NEW i \in found, NEW j \in found PROVE i = j
    <3>1. Fits(list[i], s, l) /\ Fits(list[j], s, l) BY DEF ListOK
    <3>2. list[i] \in Types /\ list[j] \in Types /\ Key(list[i])[1] = s /\ Key(list[j])[1] = s
      BY <3>1 DEF Fits
    <3>3. Key(list[i]) = <<s, name>> /\ Key(list[j]) = <<s, name>>
      BY <3>2, DefIs DEF Key
    <3>4. types[Key(list[i])] = list[i] /\ types[Key(list[j])] = list[j] BY <3>1 DEF Fits
    <3>5. list[i] = list[j] BY <3>3, <3>4
    <3> QED BY <1>1, <3>5
  <2>2. PICK m \in found : TRUE BY <1>3
  <2>3. found = {m} BY <2>1, <2>2
  <2>4. m \in 1..Len(list) /\ Def(list[m]).name = name BY <1>1, <2>2
  <2>5. \A i \in 1..Len(list) : i # m => Def(list[i]).name # name BY <1>1, <2>3
  <2> HIDE DEF found
  <2>6. Min(found) = m
    <3>1. m <= m BY <1>1, <2>4
    <3> QED BY <2>3, <3>1 DEF Min
  <2>7. Without(list, name) = RemoveAt(list, m) BY <1>3, <2>6 DEF Without, found
  <2> DEFINE w == RemoveAt(list, m)
             n == Len(list)
  <2>8. /\ w \in Seq(Nat \X Nat) /\ Len(w) = n - 1
        /\ \A j \in 1..(m - 1) : w[j] = list[j]
        /\ \A j \in m..(n - 1) : w[j] = list[j + 1]
    <3>1. /\ RemoveAt(list, m) \in Seq(Nat \X Nat) /\ Len(RemoveAt(list, m)) = Len(list) - 1
          /\ \A j \in 1..(m - 1) : RemoveAt(list, m)[j] = list[j]
          /\ \A j \in m..(Len(list) - 1) : RemoveAt(list, m)[j] = list[j + 1]
      <4>1. list \in Seq(Nat \X Nat) BY <1>1
      <4>2. m \in 1..Len(list) BY <2>4
      <4> HIDE DEF w, n
      <4> QED BY <4>1, <4>2, RemoveAtIs
    <3> QED BY <3>1
  <2> HIDE DEF w, n
  <2>9. n \in Nat /\ m \in 1..n /\ DOMAIN list = 1..n BY <1>1, <2>4 DEF n
  <2>10. DOMAIN w = 1..(n - 1) BY <2>8
  <2>11. ASSUME NEW i \in 1..(n - 1)
         PROVE  \E j \in 1..n : /\ w[i] = list[j] /\ j # m
                                /\ j = IF i < m THEN i ELSE i + 1
    <3>1. CASE i < m
      <4>1. i \in 1..(m - 1) /\ i \in 1..n /\ i # m BY <2>9, <3>1
      <4> QED BY <2>8, <3>1, <4>1
    <3>2. CASE ~(i < m)
      <4>1. i \in m..(n - 1) /\ i + 1 \in 1..n /\ i + 1 # m BY <2>9, <3>2
      <4> QED BY <2>8, <3>2, <4>1
    <3> QED BY <3>1, <3>2
  <2>12. ASSUME NEW j \in 1..n, j # m PROVE \E i \in 1..(n - 1) : w[i] = list[j]
    <3>1. CASE j < m
      <4>1. j \in 1..(m - 1) /\ j \in 1..(n - 1) BY <2>9, <3>1
      <4> QED BY <2>8, <4>1
    <3>2. CASE ~(j < m)
      <4>1. j - 1 \in m..(n - 1) /\ j - 1 \in 1..(n - 1) /\ (j - 1) + 1 = j BY <2>9, <2>12, <3>2
      <4> QED BY <2>8, <4>1
    <3> QED BY <3>1, <3>2
  <2>13. ASSUME NEW i \in 1..(n - 1), NEW j \in 1..(n - 1), w[i] = w[j] PROVE i = j
    <3>1. PICK a \in 1..n : w[i] = list[a] /\ a = IF i < m THEN i ELSE i + 1 BY <2>11
    <3>2. PICK b \in 1..n : w[j] = list[b] /\ b = IF j < m THEN j ELSE j + 1 BY <2>11
    <3>3. a = b BY <1>1, <2>9, <2>13, <3>1, <3>2
    <3> QED BY <2>9, <3>1, <3>2, <3>3
  <2>14. \A i \in 1..n : i # m <=> Def(list[i]).name # name BY <2>4, <2>5, <2>9 DEF n
  <2>15. \A i \in DOMAIN w : \E j \in DOMAIN list : w[i] = list[j] /\ Def(list[j]).name # name
    BY <2>9, <2>10, <2>11, <2>14
  <2>16. \A j \in DOMAIN list : Def(list[j]).name # name => \E i \in DOMAIN w : w[i] = list[j]
    BY <2>9, <2>10, <2>12, <2>14
  <2> QED BY <2>7, <2>8, <2>10, <2>13, <2>15, <2>16 DEF w
<1> QED BY <1>2, <1>3

LEMMA RemoveListing ==
    ASSUME EntryInv, ListingOK, NEW space, NEW name, <<space, name>> \in Removals,
           RemoveType(space, name)
    PROVE  ListingOK'
<1> DEFINE q == <<space, name>>
           Erased(s, l) == s = space /\ l \in RemovedFrom
<1>1. /\ pc = "built" /\ pc' = pc /\ removed' = removed \cup {q} /\ filed' = filed
      /\ files' = files /\ types' = types
      /\ lists' = [s \in DOMAIN lists |->
           [l \in Kind |-> IF s = space /\ l \in RemovedFrom
                           THEN Without(lists[s][l], name) ELSE lists[s][l]]]
  BY DEF RemoveType
<1>2. /\ DOMAIN lists' = DOMAIN lists
      /\ \A s \in DOMAIN lists, l \in Kind :
           lists'[s][l] = IF Erased(s, l) THEN Without(lists[s][l], name) ELSE lists[s][l]
  BY <1>1
<1>3. ListsOK /\ FiledListed /\ SpacesListed /\ Phases /\ files \in Seq(Database)
  BY DEF ListingOK, EntryInv, ReadingOK
<1>4. ASSUME NEW t, NEW s, NEW l, Fits(t, s, l), Erased(s, l) => Def(t).name # name
      PROVE  Fits(t, s, l)'
  <2>1. Types' = Types /\ Key(t)' = Key(t) /\ ListOf(t)' = ListOf(t) BY <1>1, SameDefs
  <2>2. t \in Types /\ Key(t)[1] = s BY <1>4 DEF Fits
  <2>3. Key(t)[2] = Def(t).name BY <1>3, <2>2, DefIs
  <2>4. Key(t) = q => s = space /\ Def(t).name = name BY <2>2, <2>3
  <2>5. ~(Key(t) \in removed' /\ l \in RemovedFrom) BY <1>1, <1>4, <2>4 DEF Fits
  <2> QED BY <1>1, <1>4, <2>1, <2>5 DEF Fits
<1>5. ASSUME NEW s \in DOMAIN lists, NEW l \in Kind PROVE ListOK(lists[s][l], s, l)'
  <2>1. ListOK(lists[s][l], s, l) BY <1>3 DEF ListsOK
  <2>2. PICK old : old = lists[s][l] OBVIOUS
  <2>3. PICK new : new = lists'[s][l] OBVIOUS
  <2>4. ListOK(old, s, l) BY <2>1, <2>2
  <2>5. CASE Erased(s, l)
    <3>1. new = Without(old, name) BY <1>2, <2>2, <2>3, <2>5
    <3>2. /\ new \in Seq(Nat \X Nat)
          /\ \A i \in DOMAIN new : \E j \in DOMAIN old : new[i] = old[j] /\ Def(old[j]).name # name
          /\ \A i, j \in DOMAIN new : new[i] = new[j] => i = j
      BY <1>3, <2>4, <3>1, WithoutIs
    <3>3. ASSUME NEW i \in DOMAIN new PROVE Fits(new[i], s, l)'
      <4>1. PICK j \in DOMAIN old : new[i] = old[j] /\ Def(old[j]).name # name BY <3>2
      <4>2. Fits(old[j], s, l) BY <2>4 DEF ListOK
      <4> QED BY <1>4, <4>1, <4>2
    <3> QED BY <2>3, <3>2, <3>3 DEF ListOK
  <2>6. CASE ~Erased(s, l)
    <3>1. new = old BY <1>2, <2>2, <2>3, <2>6
    <3>2. \A i \in DOMAIN new : Fits(new[i], s, l)' BY <1>4, <2>4, <2>6, <3>1 DEF ListOK
    <3> QED BY <2>3, <2>4, <3>1, <3>2 DEF ListOK
  <2> QED BY <2>5, <2>6
<1>6. ListsOK' BY <1>2, <1>5 DEF ListsOK
<1>7. FiledListed'
  <2>1. ASSUME NEW k \in filed
        PROVE  /\ k \in DOMAIN types /\ ListOf(types[k]) \in Kind
               /\ \/ k \in removed' /\ ListOf(types[k]) \in RemovedFrom
                  \/ \E i \in DOMAIN lists'[k[1]][ListOf(types[k])] :
                        lists'[k[1]][ListOf(types[k])][i] = types[k]
    <3>1. PICK L : L = ListOf(types[k]) OBVIOUS
    <3>2. PICK old : old = lists[k[1]][L] OBVIOUS
    <3>3. /\ k \in DOMAIN types /\ L \in Kind
          /\ \/ k \in removed /\ L \in RemovedFrom
             \/ \E i \in DOMAIN old : old[i] = types[k]
      BY <1>3, <3>1, <3>2 DEF FiledListed
    <3>4. k[1] \in DOMAIN lists BY <1>3, <3>3 DEF SpacesListed
    <3>5. k = <<k[1], k[2]>> /\ Def(types[k]).name = k[2] BY <3>3, KeysEntered
    <3>6. CASE L \in RemovedFrom /\ (k \in removed \/ k = q)
      BY <1>1, <3>1, <3>3, <3>6
    <3>7. CASE ~(L \in RemovedFrom /\ (k \in removed \/ k = q))
      <4>1. PICK i \in DOMAIN old : old[i] = types[k] BY <3>3, <3>7
      <4>2. CASE Erased(k[1], L)
        <5>1. Def(old[i]).name # name BY <3>5, <3>7, <4>1, <4>2
        <5>2. ListOK(old, k[1], L) BY <1>3, <3>2, <3>3, <3>4 DEF ListsOK
        <5>3. \E j \in DOMAIN Without(old, name) : Without(old, name)[j] = old[i]
          BY <1>3, <5>1, <5>2, WithoutIs
        <5>4. lists'[k[1]][L] = Without(old, name) BY <1>2, <3>2, <3>3, <3>4, <4>2
        <5> QED BY <3>1, <3>3, <4>1, <5>3, <5>4
      <4>3. CASE ~Erased(k[1], L)
        <5>1. lists'[k[1]][L] = old BY <1>2, <3>2, <3>3, <3>4, <4>3
        <5> QED BY <3>1, <3>3, <4>1, <5>1
      <4> QED BY <4>2, <4>3
    <3> QED BY <3>6, <3>7
  <2>2. \A m : ListOf(types[m])' = ListOf(types[m])
    BY <1>1 DEF ListOf, Category, Def
  <2>3. ASSUME NEW k \in filed'
        PROVE  /\ k \in DOMAIN types' /\ ListOf(types[k])' \in Kind
               /\ \/ k \in removed' /\ ListOf(types[k])' \in RemovedFrom
                  \/ \E i \in DOMAIN lists'[k[1]][ListOf(types[k])'] :
                        lists'[k[1]][ListOf(types[k])'][i] = types'[k]
    <3>1. k \in filed /\ ListOf(types[k])' = ListOf(types[k]) BY <1>1, <2>2
    <3>2. PICK M : M = ListOf(types[k]) OBVIOUS
    <3>3. ListOf(types[k])' = M BY <3>1, <3>2
    <3>4. types' = types BY <1>1
    <3>5. /\ k \in DOMAIN types /\ M \in Kind
          /\ \/ k \in removed' /\ M \in RemovedFrom
             \/ \E i \in DOMAIN lists'[k[1]][M] : lists'[k[1]][M][i] = types[k]
      BY <2>1, <3>1, <3>2
    <3> QED BY <3>3, <3>4, <3>5
  <2> QED BY <2>3 DEF FiledListed
<1>8. SpacesListed' BY <1>1, <1>2, <1>3 DEF SpacesListed
<1>9. Phases' BY <1>1, <1>3 DEF Phases
<1> QED BY <1>6, <1>7, <1>8, <1>9 DEF ListingOK

LEMMA NextListing == ASSUME EntryInv, ListingOK, [Next]_vars PROVE ListingOK'
<1>1. CASE LoadType BY <1>1, LoadTypeListing
<1>2. CASE FileType BY <1>2, FileTypeListing
<1>3. ASSUME NEW k \in Removals, RemoveType(k[1], k[2]) PROVE ListingOK'
  <2>1. <<k[1], k[2]>> \in Removals
    <3>1. \A x \in Space \X Name : x = <<x[1], x[2]>> OBVIOUS
    <3>2. Removals \subseteq Space \X Name BY FilesAssumption
    <3> QED BY <3>1, <3>2
  <2> QED BY <1>3, <2>1, RemoveListing
<1>4. CASE TypesLoaded \/ LoadNested \/ NextDatabase \/ Built \/ UNCHANGED vars
  BY <1>4, OtherListing
<1> QED BY <1>1, <1>2, <1>3, <1>4 DEF Next, Done

\* When all is built each type is in the one list of its kind, or in none.
LEMMA ListedOnce == ASSUME EntryInv, ListingOK PROVE InOneList
<1> SUFFICES ASSUME pc = "built", NEW k \in DOMAIN types
             PROVE  LET places == {p \in UNION {{l} \X DOMAIN lists[k[1]][l] : l \in Kind} :
                                     Def(lists[k[1]][p[1]][p[2]]).name = k[2]}
                    IN  IF k \in removed /\ ListOf(types[k]) \in RemovedFrom
                        THEN places = {}
                        ELSE \E p \in places : places = {p}
  BY DEF InOneList
<1> DEFINE L == ListOf(types[k])
           places == {p \in UNION {{l} \X DOMAIN lists[k[1]][l] : l \in Kind} :
                        Def(lists[k[1]][p[1]][p[2]]).name = k[2]}
<1>1. /\ k \in filed /\ k[1] \in DOMAIN lists /\ L \in Kind
      /\ \/ k \in removed /\ L \in RemovedFrom
         \/ \E i \in DOMAIN lists[k[1]][L] : lists[k[1]][L][i] = types[k]
  BY DEF ListingOK, FiledListed, SpacesListed, Phases
<1>2. /\ files \in Seq(Database) /\ k = <<k[1], k[2]>> /\ Def(types[k]).name = k[2]
  BY KeysEntered DEF EntryInv, ReadingOK
<1>3. ASSUME NEW l \in Kind PROVE ListOK(lists[k[1]][l], k[1], l)
  BY <1>1 DEF ListingOK, ListsOK
<1>4. ASSUME NEW l \in Kind, NEW i \in DOMAIN lists[k[1]][l],
             Def(lists[k[1]][l][i]).name = k[2]
      PROVE  /\ lists[k[1]][l][i] = types[k] /\ l = L
             /\ ~(k \in removed /\ L \in RemovedFrom)
  <2>1. PICK t : t = lists[k[1]][l][i] OBVIOUS
  <2>2. Fits(t, k[1], l) BY <1>3, <2>1 DEF ListOK
  <2>3. t \in Types /\ Key(t)[1] = k[1] BY <2>2 DEF Fits
  <2>4. Key(t) \in Space \X Name /\ Key(t)[2] = k[2] BY <1>2, <1>4, <2>1, <2>3, DefIs
  <2>5. Key(t) = k BY <1>2, <2>3, <2>4
  <2> QED BY <2>1, <2>2, <2>5 DEF Fits
<1>5. ASSUME NEW p \in places
      PROVE  /\ p = <<p[1], p[2]>> /\ p[1] = L /\ p[2] \in DOMAIN lists[k[1]][L]
             /\ lists[k[1]][L][p[2]] = types[k] /\ ~(k \in removed /\ L \in RemovedFrom)
  <2>1. PICK l \in Kind : p \in {l} \X DOMAIN lists[k[1]][l] OBVIOUS
  <2>2. p = <<p[1], p[2]>> /\ p[1] = l /\ p[2] \in DOMAIN lists[k[1]][l] BY <2>1
  <2>3. Def(lists[k[1]][p[1]][p[2]]).name = k[2] OBVIOUS
  <2> HIDE DEF L, places
  <2>4. Def(lists[k[1]][l][p[2]]).name = k[2] BY <2>2, <2>3
  <2>5. /\ lists[k[1]][l][p[2]] = types[k] /\ l = L
        /\ ~(k \in removed /\ L \in RemovedFrom)
    BY <1>4, <2>2, <2>4
  <2> QED BY <2>2, <2>5
<1>6. CASE k \in removed /\ L \in RemovedFrom
  <2>1. places = {}
    <3> HIDE DEF places
    <3> QED BY <1>5, <1>6
  <2> QED BY <1>6, <2>1
<1>7. CASE ~(k \in removed /\ L \in RemovedFrom)
  <2>1. PICK i \in DOMAIN lists[k[1]][L] : lists[k[1]][L][i] = types[k] BY <1>1, <1>7
  <2>2. <<L, i>> \in places
    <3>1. <<L, i>> \in UNION {{l} \X DOMAIN lists[k[1]][l] : l \in Kind} BY <1>1, <2>1
    <3>2. Def(lists[k[1]][L][i]).name = k[2] BY <1>2, <2>1
    <3> HIDE DEF L
    <3> QED BY <3>1, <3>2
  <2>3. \A x, y \in DOMAIN lists[k[1]][L] :
          lists[k[1]][L][x] = lists[k[1]][L][y] => x = y
    BY <1>1, <1>3 DEF ListOK
  <2>4. ASSUME NEW p \in places PROVE p = <<L, i>>
    <3> HIDE DEF places, L
    <3>1. /\ p = <<p[1], p[2]>> /\ p[1] = L /\ p[2] \in DOMAIN lists[k[1]][L]
          /\ lists[k[1]][L][p[2]] = types[k]
      BY <1>5
    <3> QED BY <2>1, <2>3, <3>1
  <2>5. places = {<<L, i>>}
    <3> HIDE DEF places
    <3> QED BY <2>2, <2>4
  <2> HIDE DEF places
  <2>6. \E p \in places : places = {p} BY <2>2, <2>5
  <2> QED BY <1>7, <2>6 DEF places
<1> QED BY <1>6, <1>7


-----------------------------------------------------------------------------
(* Nested types *)

\* NestedClass has a row that says that n is nested in e.
NestedIn(n, e) ==
    /\ n \in Types /\ e \in Types /\ n[1] = e[1]
    /\ \E j \in DOMAIN files[e[1]].nested :
          files[e[1]].nested[j][1] = n[2] /\ files[e[1]].nested[j][2] = e[2]

NestingOK ==
    /\ \A d \in DOMAIN files : WellFormed(files[d])
    /\ pc \in {"types", "nested"} => db <= Len(files)
    /\ \A e \in DOMAIN m_nested_types :
          /\ m_nested_types[e] \in Seq(Nat \X Nat)
          /\ \A i \in DOMAIN m_nested_types[e] : NestedIn(m_nested_types[e][i], e)

LEMMA InitNesting == ASSUME Init PROVE NestingOK
<1>1. /\ files \in Seq(Database) /\ \A d \in ToSet(files) : WellFormed(d)
      /\ db = 1 /\ m_nested_types = << >> /\ pc = IF files = <<>> THEN "filing" ELSE "types"
  BY FilesAssumption DEF Init
<1>2. \A d \in DOMAIN files : WellFormed(files[d]) BY <1>1 DEF ToSet
<1>3. files # <<>> => db <= Len(files)
  <2>1. files # <<>> => Len(files) # 0 BY <1>1, EmptySeq
  <2>2. Len(files) \in Nat BY <1>1, LenProperties
  <2> QED BY <1>1, <2>1, <2>2
<1>4. DOMAIN m_nested_types = {} BY <1>1
<1> QED BY <1>1, <1>2, <1>3, <1>4 DEF NestingOK

LEMMA KeepsNesting ==
    ASSUME NestingOK, files' = files, m_nested_types' = m_nested_types,
           pc' \in {"types", "nested"} => db' <= Len(files)
    PROVE  NestingOK'
<1>1. Types' = Types BY SameDefs
<1>2. \A n, e : NestedIn(n, e)' <=> NestedIn(n, e) BY <1>1 DEF NestedIn
<1>3. (\A d \in DOMAIN files : WellFormed(files[d]))' BY DEF NestingOK
<1>4. ASSUME NEW e \in DOMAIN m_nested_types'
      PROVE  /\ m_nested_types'[e] \in Seq(Nat \X Nat)
             /\ \A i \in DOMAIN m_nested_types'[e] : NestedIn(m_nested_types[e][i], e)'
  BY <1>2 DEF NestingOK
<1> QED BY <1>3, <1>4 DEF NestingOK

LEMMA LoadNestedNesting == ASSUME EntryInv, NestingOK, LoadNested PROVE NestingOK'
<1>1. PICK e : e = <<db, files[db].nested[row + 1][2]>> OBVIOUS
<1>2. PICK n : n = <<db, files[db].nested[row + 1][1]>> OBVIOUS
<1>3. /\ pc = "nested" /\ row < Len(files[db].nested) /\ files' = files /\ db' = db /\ pc' = pc
      /\ m_nested_types' = [t \in DOMAIN m_nested_types \cup {e} |->
                              IF t = e THEN Append(NestedTypes(e), n) ELSE m_nested_types[t]]
  BY <1>1, <1>2 DEF LoadNested, Encloser
<1>4. /\ files \in Seq(Database) /\ db \in 1..Len(files) /\ row \in Nat /\ DOMAIN files = 1..Len(files)
      /\ Len(files) \in Nat
  BY <1>3 DEF NestingOK, EntryInv, ReadingOK
<1>5. /\ files[db] \in Database /\ WellFormed(files[db]) BY <1>4 DEF NestingOK
<1>6. files[db].nested \in Seq(Nat \X Nat) /\ files[db].types \in Seq(Row)
  <2>1. \A x \in Database : x.types \in Seq(Row) /\ x.nested \in Seq(Nat \X Nat) BY DEF Database
  <2> QED BY <1>5, <2>1
<1>7. row + 1 \in DOMAIN files[db].nested
  <2> DEFINE table == files[db].nested
  <2>1. table \in Seq(Nat \X Nat) /\ row < Len(table) BY <1>3, <1>6
  <2> HIDE DEF table
  <2>2. row + 1 \in DOMAIN table BY <1>4, <2>1
  <2> QED BY <2>2 DEF table
<1>8. /\ files[db].nested[row + 1][1] \in DOMAIN files[db].types
      /\ files[db].nested[row + 1][2] \in DOMAIN files[db].types
  BY <1>5, <1>7 DEF WellFormed
<1>9. e \in Types /\ n \in Types /\ e \in Nat \X Nat /\ n \in Nat \X Nat
  <2>1. DOMAIN files[db].types = 1..Len(files[db].types) BY <1>6
  <2>2. e \in Types /\ n \in Types BY <1>1, <1>2, <1>4, <1>8, <2>1, TypesAreRows
  <2> QED BY <1>4, <2>2, DefIs
<1>10. NestedIn(n, e)
  <2>1. e[1] = db /\ n[1] = db /\ n[2] = files[db].nested[row + 1][1]
        /\ e[2] = files[db].nested[row + 1][2]
    BY <1>1, <1>2
  <2> QED BY <1>7, <1>9, <2>1 DEF NestedIn
<1>11. /\ Append(NestedTypes(e), n) \in Seq(Nat \X Nat)
       /\ \A i \in DOMAIN Append(NestedTypes(e), n) : NestedIn(Append(NestedTypes(e), n)[i], e)
  <2>1. PICK old : old = NestedTypes(e) OBVIOUS
  <2>2. /\ old \in Seq(Nat \X Nat) /\ \A i \in DOMAIN old : NestedIn(old[i], e)
    <3>1. CASE e \in DOMAIN m_nested_types BY <2>1, <3>1 DEF NestedTypes, NestingOK
    <3>2. CASE e \notin DOMAIN m_nested_types
      <4>1. old = <<>> BY <2>1, <3>2 DEF NestedTypes
      <4> QED BY <4>1
    <3> QED BY <3>1, <3>2
  <2>3. PICK new : new = Append(old, n) OBVIOUS
  <2>4. /\ new \in Seq(Nat \X Nat) /\ DOMAIN new = 1..(Len(old) + 1) /\ Len(old) \in Nat
        /\ DOMAIN old = 1..Len(old)
        /\ new[Len(old) + 1] = n /\ \A i \in 1..Len(old) : new[i] = old[i]
    BY <1>9, <2>2, <2>3
  <2>5. \A i \in 1..(Len(old) + 1) : i \in 1..Len(old) \/ i = Len(old) + 1 BY <2>4
  <2>6. \A i \in DOMAIN new : NestedIn(new[i], e) BY <1>10, <2>2, <2>4, <2>5
  <2> QED BY <2>1, <2>3, <2>4, <2>6
<1>12. \A m, d : NestedIn(m, d)' <=> NestedIn(m, d)
  <2>1. Types' = Types BY <1>3, SameDefs
  <2> QED BY <1>3, <2>1 DEF NestedIn
<1>13. ASSUME NEW d \in DOMAIN m_nested_types'
       PROVE  /\ m_nested_types'[d] \in Seq(Nat \X Nat)
              /\ \A i \in DOMAIN m_nested_types'[d] : NestedIn(m_nested_types'[d][i], d)
  <2>1. CASE d = e
    <3>1. m_nested_types'[d] = Append(NestedTypes(e), n) BY <1>3, <2>1
    <3> QED BY <1>11, <2>1, <3>1
  <2>2. CASE d # e
    <3>1. d \in DOMAIN m_nested_types /\ m_nested_types'[d] = m_nested_types[d] BY <1>3, <2>2
    <3> QED BY <3>1 DEF NestingOK
  <2> QED BY <2>1, <2>2
<1>14. ASSUME NEW d \in DOMAIN m_nested_types'
       PROVE  \A i \in DOMAIN m_nested_types'[d] : NestedIn(m_nested_types[d][i], d)'
  BY <1>12, <1>13
<1>15. pc' \in {"types", "nested"} => db' <= Len(files') BY <1>3, <1>4
<1>16. (\A d \in DOMAIN files : WellFormed(files[d]))' BY <1>3 DEF NestingOK
<1> QED BY <1>13, <1>14, <1>15, <1>16 DEF NestingOK

LEMMA NextNesting == ASSUME EntryInv, NestingOK, [Next]_vars PROVE NestingOK'
<1>1. CASE LoadNested BY <1>1, LoadNestedNesting
<1>2. CASE LoadType \/ TypesLoaded \/ FileType \/ Built \/ UNCHANGED vars
           \/ \E s, n : RemoveType(s, n)
  <2>1. files' = files /\ m_nested_types' = m_nested_types /\ db' = db
    BY <1>2 DEF LoadType, TypesLoaded, FileType, Built, RemoveType, vars
  <2>2. pc' \in {"types", "nested"} => pc \in {"types", "nested"}
    BY <1>2 DEF LoadType, TypesLoaded, FileType, Built, RemoveType, vars
  <2>3. pc \in {"types", "nested"} => db <= Len(files) BY DEF NestingOK
  <2> QED BY <2>1, <2>2, <2>3, KeepsNesting
<1>3. CASE NextDatabase
  <2>1. /\ files' = files /\ m_nested_types' = m_nested_types /\ db' = db + 1
        /\ pc' = IF db' > Len(files) THEN "filing" ELSE "types"
    BY <1>3 DEF NextDatabase
  <2>2. files \in Seq(Database) /\ db \in Nat /\ Len(files) \in Nat BY DEF EntryInv, ReadingOK
  <2> QED BY <2>1, <2>2, KeepsNesting
<1> QED BY <1>1, <1>2, <1>3 DEF Next, Done


\* NestedClass leads from a nested type to the one that it is nested in.
LEMMA EnclosingIs ==
    ASSUME EntryInv, NestingOK, NEW n, NEW e, NestedIn(n, e)
    PROVE  EnclosingType(n) = e /\ Def(n).nested
<1> DEFINE table == files[n[1]].nested
<1>1. /\ n \in Types /\ e \in Types /\ n[1] = e[1]
      /\ \E j \in DOMAIN files[e[1]].nested :
           files[e[1]].nested[j][1] = n[2] /\ files[e[1]].nested[j][2] = e[2]
  BY DEF NestedIn
<1>2. /\ n[1] \in 1..Len(files) /\ n[2] \in 1..Len(files[n[1]].types) /\ e = <<e[1], e[2]>>
      /\ files \in Seq(Database) /\ DOMAIN files = 1..Len(files)
  BY <1>1, TypesAreRows DEF EntryInv, ReadingOK
<1>3. files[n[1]] \in Database /\ WellFormed(files[n[1]]) BY <1>2 DEF NestingOK
<1>4. PICK j \in DOMAIN table : table[j][1] = n[2] /\ table[j][2] = e[2] BY <1>1
<1>5. \A i, k \in DOMAIN table : table[i][1] = table[k][1] => i = k BY <1>3 DEF WellFormed
<1>6. (CHOOSE i \in DOMAIN table : table[i][1] = n[2]) = j
  <2> HIDE DEF table
  <2> QED BY <1>4, <1>5
<1>7. EnclosingType(n) = <<n[1], table[CHOOSE i \in DOMAIN table : table[i][1] = n[2]][2]>>
  BY DEF EnclosingType
<1>8. EnclosingType(n) = e BY <1>1, <1>2, <1>4, <1>6, <1>7
<1>9. n[2] \in DOMAIN files[n[1]].types
  <2>1. files[n[1]].types \in Seq(Row)
    <3>1. \A x \in Database : x.types \in Seq(Row) BY DEF Database
    <3> QED BY <1>3, <3>1
  <2> QED BY <1>2, <2>1
<1>10. Def(n).nested BY <1>3, <1>4, <1>9 DEF WellFormed, Def
<1> QED BY <1>8, <1>10

\* The types around a type, from the inside outwards.
Outwards(t, N, f) == f = [n \in 0..N |-> IF n = 0 THEN t ELSE EnclosingType(f[n - 1])]

LEMMA OutwardsExists == ASSUME NEW t, NEW N \in Nat PROVE \E f : Outwards(t, N, f)
<1> DEFINE B == {m \in 0..N : ~\E f : Outwards(t, m, f)}
<1>1. SUFFICES ASSUME B # {} PROVE FALSE
  <2>1. N \in 0..N OBVIOUS
  <2> QED BY <1>1, <2>1
<1>2. PICK m \in B : \A k \in B : m <= k
  <2>1. B \in SUBSET (0..N) OBVIOUS
  <2> HIDE DEF B
  <2> QED BY <1>1, <2>1, Least
<1>3. CASE m = 0
  <2>1. PICK f : f = [n \in 0..0 |-> t] OBVIOUS
  <2>2. f = [n \in 0..0 |-> IF n = 0 THEN t ELSE EnclosingType(f[n - 1])]
    <3>1. \A n \in 0..0 : n = 0 OBVIOUS
    <3> QED BY <2>1, <3>1
  <2> QED BY <1>3, <2>2 DEF Outwards
<1>4. CASE m # 0
  <2>1. m - 1 \in 0..N /\ m \in Nat /\ ~(m <= m - 1) BY <1>4
  <2>2. PICK g : Outwards(t, m - 1, g) BY <1>2, <2>1
  <2>3. /\ g[0] = t
        /\ \A n \in 1..(m - 1) : g[n] = EnclosingType(g[n - 1])
    <3>1. \A n \in 0..(m - 1) : g[n] = IF n = 0 THEN t ELSE EnclosingType(g[n - 1])
      BY <2>2 DEF Outwards
    <3>2. 0 \in 0..(m - 1) BY <1>4
    <3> QED BY <3>1, <3>2
  <2>4. PICK f : f = [n \in 0..m |-> IF n = m THEN EnclosingType(g[m - 1]) ELSE g[n]] OBVIOUS
  <2>5. ASSUME NEW n \in 0..m PROVE f[n] = IF n = 0 THEN t ELSE EnclosingType(f[n - 1])
    <3>1. CASE n = 0 BY <1>4, <2>3, <2>4, <3>1
    <3>2. CASE n # 0 /\ n # m
      <4>1. n \in 1..(m - 1) /\ n - 1 \in 0..m /\ n - 1 # m BY <2>1, <3>2
      <4> QED BY <2>3, <2>4, <3>2, <4>1
    <3>3. CASE n = m
      <4>1. n - 1 \in 0..m /\ n - 1 # m BY <1>4, <2>1, <3>3
      <4> QED BY <1>4, <2>4, <3>3, <4>1
    <3> QED BY <3>1, <3>2, <3>3
  <2>6. f = [n \in 0..m |-> f[n]] BY <2>4
  <2>7. Outwards(t, m, f) BY <2>5, <2>6 DEF Outwards
  <2> QED BY <2>7
<1> QED BY <1>3, <1>4

\* The root is the first type outwards that is not nested.
LEMMA RootIs ==
    ASSUME NEW t \in Types, NEW f, NEW k \in 0..Len(files[t[1]].types),
           Len(files[t[1]].types) \in Nat,
           f[0] = t, \A n \in 1..k : f[n] = EnclosingType(f[n - 1]),
           ~Def(f[k]).nested, \A n \in 0..(k - 1) : Def(f[n]).nested,
           k \in {1, 2}
    PROVE  Root(t) = f[k]
<1> DEFINE N == Len(files[t[1]].types)
           out == CHOOSE g : Outwards(t, N, g)
           Depth(n) == ~Def(out[n]).nested /\ \A m \in 0..(n - 1) : Def(out[m]).nested
<1>1. Outwards(t, N, out) BY OutwardsExists
<1>2. Root(t) = out[CHOOSE n \in 0..N : Depth(n)] BY DEF Root, Outwards
<1> HIDE DEF out, N
<1>3. \A n \in 0..N : out[n] = IF n = 0 THEN t ELSE EnclosingType(out[n - 1])
  BY <1>1 DEF Outwards
<1>4. N \in Nat /\ k \in 0..N BY DEF N
<1>5. out[0] = f[0] /\ out[1] = f[1] /\ (k = 2 => out[2] = f[2])
  <2>1. 0 \in 0..N /\ 1 \in 0..N /\ (k = 2 => 2 \in 0..N) BY <1>4
  <2>2. 1 \in 1..k /\ (k = 2 => 2 \in 1..k) OBVIOUS
  <2>3. out[0] = f[0] BY <1>3, <2>1
  <2>4. out[1] = f[1] BY <1>3, <2>1, <2>2, <2>3
  <2>5. k = 2 => out[2] = f[2] BY <1>3, <2>1, <2>2, <2>4
  <2> QED BY <2>3, <2>4, <2>5
<1>6. out[k] = f[k] /\ \A n \in 0..(k - 1) : out[n] = f[n]
  <2>1. CASE k = 1
    <3>1. \A n \in 0..(1 - 1) : n = 0 OBVIOUS
    <3> QED BY <1>5, <2>1, <3>1
  <2>2. CASE k = 2
    <3>1. \A n \in 0..(2 - 1) : n = 0 \/ n = 1 OBVIOUS
    <3> QED BY <1>5, <2>2, <3>1
  <2> QED BY <2>1, <2>2
<1>7. Depth(k) BY <1>6
<1>8. \A n \in 0..N : Depth(n) => n = k
  <2>1. ASSUME NEW n \in 0..N, Depth(n), n < k PROVE FALSE
    <3>1. n \in 0..(k - 1) BY <1>4, <2>1
    <3> QED BY <1>7, <2>1, <3>1
  <2>2. ASSUME NEW n \in 0..N, Depth(n), n > k PROVE FALSE
    <3>1. k \in 0..(n - 1) BY <1>4, <2>2
    <3> QED BY <1>7, <2>2, <3>1
  <2> QED BY <1>4, <2>1, <2>2
<1>9. (CHOOSE n \in 0..N : Depth(n)) = k
  <2> HIDE DEF Depth
  <2> QED BY <1>4, <1>7, <1>8
<1> QED BY <1>2, <1>6, <1>9

LEMMA RootOfOne ==
    ASSUME EntryInv, NestingOK, NEW t, NEW u, NestedIn(t, u), ~Def(u).nested
    PROVE  Root(t) = u
<1>1. EnclosingType(t) = u /\ Def(t).nested BY EnclosingIs
<1>2. PICK f : f = [n \in 0..1 |-> IF n = 0 THEN t ELSE u] OBVIOUS
<1>3. f[0] = t /\ f[1] = u BY <1>2
<1>4. t \in Types /\ Len(files[t[1]].types) \in Nat /\ 1 \in 0..Len(files[t[1]].types)
  <2>1. t \in Types BY DEF NestedIn
  <2> QED BY <2>1, TypesAreRows DEF EntryInv, ReadingOK
<1>5. \A n \in 1..1 : f[n] = EnclosingType(f[n - 1]) BY <1>1, <1>3
<1>6. \A n \in 0..(1 - 1) : Def(f[n]).nested BY <1>1, <1>3
<1>7. 1 \in {1, 2} /\ ~Def(f[1]).nested BY <1>3
<1>8. Root(t) = f[1] BY <1>3, <1>4, <1>5, <1>6, <1>7, RootIs
<1> QED BY <1>3, <1>8

LEMMA RootOfTwo ==
    ASSUME EntryInv, NestingOK, NEW t, NEW w, NEW u, NestedIn(t, w), NestedIn(w, u), ~Def(u).nested
    PROVE  Root(t) = u
<1>1. EnclosingType(t) = w /\ Def(t).nested /\ EnclosingType(w) = u /\ Def(w).nested
  BY EnclosingIs
<1>2. PICK f : f = [n \in 0..2 |-> IF n = 0 THEN t ELSE IF n = 1 THEN w ELSE u] OBVIOUS
<1>3. f[0] = t /\ f[1] = w /\ f[2] = u BY <1>2
<1>4. t \in Types /\ w \in Types /\ u \in Types /\ t[1] = w[1] /\ w[1] = u[1] BY DEF NestedIn
<1>5. t # w /\ t # u BY <1>1
<1>6. Len(files[t[1]].types) \in Nat /\ 2 \in 0..Len(files[t[1]].types)
  <2>1. /\ t = <<t[1], t[2]>> /\ w = <<w[1], w[2]>>
        /\ t[2] \in 1..Len(files[t[1]].types) /\ w[2] \in 1..Len(files[w[1]].types)
        /\ Len(files[t[1]].types) \in Nat
    BY <1>4, TypesAreRows DEF EntryInv, ReadingOK
  <2>2. t[2] # w[2] BY <1>4, <1>5, <2>1
  <2> QED BY <1>4, <2>1, <2>2
<1>7. \A n \in 1..2 : f[n] = EnclosingType(f[n - 1])
  <2>1. \A n \in 1..2 : (n = 1 /\ n - 1 = 0) \/ (n = 2 /\ n - 1 = 1) OBVIOUS
  <2> QED BY <1>1, <1>3, <2>1
<1>8. \A n \in 0..(2 - 1) : Def(f[n]).nested
  <2>1. \A n \in 0..(2 - 1) : n = 0 \/ n = 1 OBVIOUS
  <2> QED BY <1>1, <1>3, <2>1
<1>9. 2 \in {1, 2} /\ ~Def(f[2]).nested BY <1>3
<1>10. Root(t) = f[2] BY <1>3, <1>4, <1>6, <1>7, <1>8, <1>9, RootIs
<1> QED BY <1>3, <1>10

\* What is found as nested in a type is.
LEMMA NestedNamedIs ==
    ASSUME EntryInv, NestingOK, NEW e, NEW name, NestedNamed(e, name) # None
    PROVE  NestedIn(NestedNamed(e, name), e)
<1> DEFINE s == NestedTypes(e)
           found == {i \in DOMAIN s : Def(s[i]).name = name}
<1>1. NestedNamed(e, name) = IF found = {} THEN None ELSE s[Min(found)] BY DEF NestedNamed
<1>2. found # {} /\ NestedNamed(e, name) = s[Min(found)] BY <1>1
<1>3. CASE e \notin DOMAIN m_nested_types
  <2>1. s = <<>> BY <1>3 DEF NestedTypes
  <2>2. DOMAIN s = {} BY <2>1
  <2> QED BY <1>2, <2>2
<1>4. CASE e \in DOMAIN m_nested_types
  <2>1. s = m_nested_types[e] BY <1>4 DEF NestedTypes
  <2>2. s \in Seq(Nat \X Nat) /\ \A i \in DOMAIN s : NestedIn(s[i], e)
    BY <1>4, <2>1 DEF NestingOK
  <2> HIDE DEF s
  <2>3. found \in SUBSET (0..Len(s)) /\ Len(s) \in Nat
    <3>1. DOMAIN s = 1..Len(s) /\ Len(s) \in Nat BY <2>2
    <3> QED BY <3>1
  <2>4. found \subseteq DOMAIN s OBVIOUS
  <2> HIDE DEF found
  <2>5. \E x \in found : \A y \in found : x <= y BY <1>2, <2>3, Least
  <2>6. Min(found) \in found BY <2>5 DEF Min
  <2> QED BY <1>2, <2>2, <2>4, <2>6
<1> QED BY <1>3, <1>4

\* What a name of two or three parts refers to lies in what its first part refers to.
LEMMA FindIs ==
    ASSUME NEW ref, NEW k \in {2, 3}, Len(ref.names) = k
    PROVE  LET u == Lookup(ref.space, ref.names[1])
               w == NestedNamed(u, ref.names[2])
               t == NestedNamed(w, ref.names[3])
           IN  Find(ref) = IF u = None THEN None
                           ELSE IF k = 2 THEN w
                           ELSE IF w = None THEN None ELSE t
<1> DEFINE u == Lookup(ref.space, ref.names[1])
           Step(g, n) == IF n = 1 THEN u
                         ELSE IF g[n - 1] = None THEN None
                         ELSE NestedNamed(g[n - 1], ref.names[n])
           Solves(g) == g = [n \in 1..k |-> Step(g, n)]
           upTo == CHOOSE g : Solves(g)
           second == IF u = None THEN None ELSE NestedNamed(u, ref.names[2])
           third == IF second = None THEN None ELSE NestedNamed(second, ref.names[3])
           f == [n \in 1..k |-> IF n = 1 THEN u ELSE IF n = 2 THEN second ELSE third]
<1>1. Find(ref) = upTo[k] BY DEF Find
<1>2. Solves(f)
  <2>1. ASSUME NEW n \in 1..k PROVE f[n] = Step(f, n)
    <3>1. 1 \in 1..k /\ 2 \in 1..k /\ n \in {1, 2, 3} OBVIOUS
    <3>2. f[1] = u /\ f[2] = second BY <3>1
    <3> HIDE DEF u
    <3>3. CASE n = 1 BY <3>2, <3>3
    <3>4. CASE n = 2
      <4>1. n - 1 = 1 BY <3>4
      <4> HIDE DEF f
      <4> QED BY <3>2, <3>4, <4>1
    <3>5. CASE n = 3
      <4>1. n - 1 = 2 /\ f[n] = third BY <3>5
      <4> HIDE DEF f, second
      <4> QED BY <3>2, <3>5, <4>1
    <3> QED BY <3>1, <3>3, <3>4, <3>5
  <2> HIDE DEF Step
  <2>2. f = [n \in 1..k |-> f[n]] OBVIOUS
  <2> HIDE DEF f
  <2> QED BY <2>1, <2>2
<1>3. Solves(upTo)
  <2> HIDE DEF Solves
  <2> QED BY <1>2
<1> HIDE DEF upTo
<1>4. \A n \in 1..k : upTo[n] = Step(upTo, n)
  <2> HIDE DEF Step
  <2> QED BY <1>3
<1> HIDE DEF u
<1>5. upTo[1] = u
  <2>1. 1 \in 1..k OBVIOUS
  <2> QED BY <1>4, <2>1
<1>6. upTo[2] = second
  <2>1. 2 \in 1..k /\ 2 # 1 /\ 2 - 1 = 1 OBVIOUS
  <2> QED BY <1>4, <1>5, <2>1
<1>7. k = 3 => upTo[3] = third
  <2>1. k = 3 => 3 \in 1..k /\ 3 # 1 /\ 3 - 1 = 2 OBVIOUS
  <2> HIDE DEF second
  <2> QED BY <1>4, <1>6, <2>1
<1> QED BY <1>1, <1>6, <1>7 DEF u

\* From a nested definition and from a reference to it one comes to the same root.
LEMMA SameRoot == ASSUME EntryInv, NestingOK PROVE RootsAgree
<1> SUFFICES ASSUME pc = "built", NEW s \in Space,
                    NEW names \in [1..2 -> Name] \cup [1..3 -> Name]
             PROVE  LET ref == [space |-> s, names |-> names]
                    IN  Find(ref) # None => Root(Find(ref)) = RootOf(ref)
  BY DEF RootsAgree
<1>1. PICK ref : ref = [space |-> s, names |-> names] OBVIOUS
<1>2. ref.space = s /\ ref.names = names BY <1>1
<1>3. PICK k \in {2, 3} : names \in [1..k -> Name] OBVIOUS
<1>4. Len(ref.names) = k
  <2>1. k \in Nat OBVIOUS
  <2> QED BY <1>2, <1>3, <2>1, LenProperties, SeqDef
<1> SUFFICES ASSUME Find(ref) # None PROVE Root(Find(ref)) = RootOf(ref) BY <1>1
<1>5. PICK u : u = Lookup(s, names[1]) OBVIOUS
<1>6. PICK w : w = NestedNamed(u, names[2]) OBVIOUS
<1>7. PICK t : t = NestedNamed(w, names[3]) OBVIOUS
<1>8. Find(ref) = IF u = None THEN None ELSE IF k = 2 THEN w ELSE IF w = None THEN None ELSE t
  BY <1>2, <1>4, <1>5, <1>6, <1>7, FindIs
<1>9. u # None /\ w # None /\ Find(ref) = IF k = 2 THEN w ELSE t BY <1>8
<1>10. RootOf(ref) = u BY <1>2, <1>5 DEF RootOf
<1>11. ~Def(u).nested
  <2>1. <<s, names[1]>> \in DOMAIN types /\ u = types[<<s, names[1]>>] BY <1>5, <1>9 DEF Lookup
  <2>2. u \in Entered BY <2>1, KeysEntered
  <2> QED BY <2>2 DEF Entered
<1>12. NestedIn(w, u) BY <1>6, <1>9, NestedNamedIs
<1>13. CASE k = 2 BY <1>9, <1>10, <1>11, <1>12, <1>13, RootOfOne
<1>14. CASE k = 3
  <2>1. Find(ref) = t /\ t # None BY <1>9, <1>14
  <2>2. NestedIn(t, w) BY <1>7, <2>1, NestedNamedIs
  <2> QED BY <1>10, <1>11, <1>12, <2>1, <2>2, RootOfTwo
<1> QED BY <1>13, <1>14


-----------------------------------------------------------------------------
(* The theorem *)

\* Whatever databases define a name, and in whichever rows, the one found is the
\* first: try_emplace keeps it, and the files and their rows are read in order.
-----------------------------------------------------------------------------
(* The cache as a part of MetadataReaders *)

\* What is proved of every step of the cache.
CacheInv == EntryInv /\ ListingOK /\ NestingOK

\* Of all the definitions of a name the one that is found is the first.
LEMMA FirstIsFound == ASSUME EntryInv PROVE FirstDefinitionFound
<1> SUFFICES ASSUME pc = "built", NEW t \in Entered
             PROVE LET u == Lookup(Def(t).space, Def(t).name)
                   IN  /\ u \in Entered /\ Key(u) = Key(t)
                       /\ u = t \/ Before(u, t)
  BY DEF FirstDefinitionFound, Entered
<1>1. Passed(t)
  <2>1. files \in Seq(Database) /\ db > Len(files) /\ db \in Nat /\ Len(files) \in Nat
    BY DEF EntryInv, ReadingOK
  <2> QED BY <2>1, TypesAreRows DEF Entered, Passed
<1>2. PICK k \in DOMAIN types : k = Key(t) /\ (types[k] = t \/ Before(types[k], t))
  BY <1>1 DEF EntryInv, FirstEntered
<1>3. types[k] \in Entered /\ Key(types[k]) = k BY DEF EntryInv, EnteredOnce
<1>4. Lookup(Def(t).space, Def(t).name) = types[k] BY <1>2 DEF Lookup, Key
<1> QED BY <1>2, <1>3, <1>4

LEMMA CacheTyped == ASSUME CacheInv PROVE TypeOK
<1>1. files \in Seq(Database) BY DEF CacheInv, EntryInv, ReadingOK
<1>2. \A k \in DOMAIN types : types[k] \in Entered /\ Key(types[k]) = k
  BY DEF CacheInv, EntryInv, EnteredOnce
<1>3. DOMAIN types \subseteq Space \X Name
  BY <1>2, KeysEntered DEF CacheInv
<1>4. Range(types) \subseteq Types BY <1>2 DEF Range, Entered
<1>5. \A s \in DOMAIN lists : \A l \in Kind : \A i \in DOMAIN lists[s][l] :
         lists[s][l][i] \in Range(types)
  <2>1. ASSUME NEW s \in DOMAIN lists, NEW l \in Kind, NEW i \in DOMAIN lists[s][l]
        PROVE \E k \in DOMAIN types : lists[s][l][i] = types[k]
    <3>1. Fits(lists[s][l][i], s, l) BY <2>1 DEF CacheInv, ListingOK, ListsOK, ListOK
    <3>2. filed \subseteq DOMAIN types BY DEF CacheInv, ListingOK, FiledListed
    <3> QED BY <3>1, <3>2 DEF Fits
  <2> QED BY <2>1 DEF Range
<1>6. \A t \in DOMAIN m_nested_types : ToSet(m_nested_types[t]) \subseteq Types
  BY DEF CacheInv, NestingOK, NestedIn, ToSet
<1>7. filed \subseteq DOMAIN types /\ removed \subseteq Removals BY DEF CacheInv, ListingOK, Phases
<1> QED BY <1>3, <1>4, <1>5, <1>6, <1>7 DEF TypeOK, CacheInv, EntryInv, ReadingOK

LEMMA CacheStarts == ASSUME ReadersInit PROVE part = "cache" => CacheInv
<1>1. ASSUME part = "cache" PROVE Init BY <1>1 DEF ReadersInit
<1> QED BY <1>1, InitEntry, InitListing, InitNesting DEF CacheInv

LEMMA CacheSteps == ASSUME CacheInv, [Next]_vars PROVE CacheInv'
<1>1. EntryInv'
  <2>1. \/ LoadType \/ TypesLoaded \/ LoadNested \/ NextDatabase \/ FileType \/ Built
        \/ UNCHANGED vars \/ (\E s, n : RemoveType(s, n))
    BY DEF Next, Done
  <2> QED BY <2>1, LoadTypeEntry, OtherEntry DEF CacheInv
<1>2. ListingOK' /\ NestingOK' BY NextListing, NextNesting DEF CacheInv
<1> QED BY <1>1, <1>2 DEF CacheInv

LEMMA CacheAlone ==
    ASSUME part = "cache" => CacheInv, [ReadersNext]_readersVars
    PROVE  part' = "cache" => CacheInv'
<1>1. part' = part BY DEF ReadersNext, readersVars
<1>2. CASE part = "cache"
  <2>1. [Next]_vars BY <1>2 DEF ReadersNext, readersVars, tableVars, cacheVars, vars
  <2> QED BY <1>2, <2>1, CacheSteps
<1> QED BY <1>1, <1>2

-----------------------------------------------------------------------------
(* Sequences *)

\* A prefix, element by element.
LEMMA PrefixIs ==
    ASSUME NEW T, NEW s \in Seq(T), NEW t \in Seq(T)
    PROVE  F!IsPrefix(s, t) <=> Len(s) <= Len(t) /\ \A i \in 1..Len(s) : s[i] = t[i]
<1>1. Len(s) \in Nat /\ Len(t) \in Nat BY LenProperties
<1>2. SubSeq(s, 1, Len(s)) = s BY SubSeqFull
<1>3. CASE Len(s) <= Len(t)
  <2>1. \A i \in 1..Len(s) : t[i] \in T BY <1>1, <1>3, ElementOfSeq
  <2>2. /\ SubSeq(t, 1, Len(s)) \in Seq(T)
        /\ Len(SubSeq(t, 1, Len(s))) = IF 1 <= Len(s) THEN Len(s) - 1 + 1 ELSE 0
        /\ \A i \in 1..(Len(s) - 1 + 1) : SubSeq(t, 1, Len(s))[i] = t[1 + i - 1]
    BY <1>1, <2>1, SubSeqProperties
  <2>3. /\ Len(SubSeq(t, 1, Len(s))) = Len(s)
        /\ \A i \in 1..Len(s) : SubSeq(t, 1, Len(s))[i] = t[i]
    BY <1>1, <2>2
  <2>4. ASSUME \A i \in 1..Len(s) : s[i] = t[i] PROVE SubSeq(t, 1, Len(s)) = s
    <3>1. \A i \in 1..Len(s) : s[i] = SubSeq(t, 1, Len(s))[i] BY <2>3, <2>4
    <3> QED BY <2>2, <2>3, <3>1, SeqEqual
  <2>5. ASSUME SubSeq(t, 1, Len(s)) = s PROVE \A i \in 1..Len(s) : s[i] = t[i]
    BY <2>3, <2>5
  <2> QED BY <1>2, <1>3, <2>4, <2>5 DEF F!IsPrefix
<1>4. CASE ~(Len(s) <= Len(t)) BY <1>4 DEF F!IsPrefix
<1> QED BY <1>3, <1>4

\* Where the elements are when e has been put at place i.
LEMMA InsertAtIs ==
    ASSUME NEW T, NEW s \in Seq(T), NEW e \in T, NEW i \in 1..(Len(s) + 1)
    PROVE  /\ F!InsertAt(s, i, e) \in Seq(T)
           /\ Len(F!InsertAt(s, i, e)) = Len(s) + 1
           /\ \A j \in 1..(i - 1) : F!InsertAt(s, i, e)[j] = s[j]
           /\ F!InsertAt(s, i, e)[i] = e
           /\ \A j \in (i + 1)..(Len(s) + 1) : F!InsertAt(s, i, e)[j] = s[j - 1]
<1> DEFINE a == SubSeq(s, 1, i - 1)
           c == SubSeq(s, i, Len(s))
           b == a \o <<e>>
<1>1. Len(s) \in Nat /\ i \in Nat \ {0} /\ \A j \in 1..Len(s) : s[j] \in T
  BY LenProperties, ElementOfSeq
<1>2. a \in Seq(T) /\ Len(a) = i - 1 /\ \A j \in 1..(i - 1) : a[j] = s[j]
  <2>1. \A j \in 1..(i - 1) : s[j] \in T BY <1>1
  <2>2. /\ a \in Seq(T) /\ Len(a) = IF 1 <= i - 1 THEN i - 1 - 1 + 1 ELSE 0
        /\ \A j \in 1..(i - 1 - 1 + 1) : a[j] = s[1 + j - 1]
    BY <1>1, <2>1, SubSeqProperties
  <2> HIDE DEF a
  <2> QED BY <1>1, <2>2
<1>3. c \in Seq(T) /\ Len(c) = Len(s) - i + 1 /\ \A j \in 1..(Len(s) - i + 1) : c[j] = s[i + j - 1]
  <2>1. \A j \in i..Len(s) : s[j] \in T BY <1>1
  <2>2. /\ c \in Seq(T) /\ Len(c) = IF i <= Len(s) THEN Len(s) - i + 1 ELSE 0
        /\ \A j \in 1..(Len(s) - i + 1) : c[j] = s[i + j - 1]
    BY <1>1, <2>1, SubSeqProperties
  <2> HIDE DEF c
  <2> QED BY <1>1, <2>2
<1>4. <<e>> \in Seq(T) /\ Len(<<e>>) = 1 /\ <<e>>[1] = e OBVIOUS
<1> HIDE DEF a, c
<1>5. /\ b \in Seq(T) /\ Len(b) = i
      /\ \A j \in 1..i : b[j] = IF j <= i - 1 THEN a[j] ELSE <<e>>[j - (i - 1)]
  <2>1. /\ b \in Seq(T) /\ Len(b) = Len(a) + Len(<<e>>)
        /\ \A j \in 1..(Len(a) + Len(<<e>>)) : b[j] = IF j <= Len(a) THEN a[j] ELSE <<e>>[j - Len(a)]
    BY <1>2, <1>4, ConcatProperties
  <2>2. Len(a) + Len(<<e>>) = i /\ Len(a) = i - 1 BY <1>1, <1>2, <1>4
  <2> QED BY <2>1, <2>2
<1>6. (\A j \in 1..(i - 1) : b[j] = s[j]) /\ b[i] = e
  <2>1. \A j \in 1..(i - 1) : j \in 1..i /\ j <= i - 1 BY <1>1
  <2>2. i \in 1..i /\ ~(i <= i - 1) /\ i - (i - 1) = 1 BY <1>1
  <2> HIDE DEF b
  <2> QED BY <1>2, <1>4, <1>5, <2>1, <2>2
<1> HIDE DEF b
<1>7. /\ b \o c \in Seq(T) /\ Len(b \o c) = Len(s) + 1
      /\ \A j \in 1..(Len(s) + 1) : (b \o c)[j] = IF j <= i THEN b[j] ELSE c[j - i]
  <2>1. /\ b \o c \in Seq(T) /\ Len(b \o c) = Len(b) + Len(c)
        /\ \A j \in 1..(Len(b) + Len(c)) : (b \o c)[j] = IF j <= Len(b) THEN b[j] ELSE c[j - Len(b)]
    BY <1>3, <1>5, ConcatProperties
  <2>2. Len(b) + Len(c) = Len(s) + 1 /\ Len(b) = i BY <1>1, <1>3, <1>5
  <2> QED BY <2>1, <2>2
<1>8. F!InsertAt(s, i, e) = b \o c BY DEF F!InsertAt, a, b, c
<1>9. \A j \in 1..i : (b \o c)[j] = b[j] BY <1>1, <1>7
<1>10. ASSUME NEW j \in (i + 1)..(Len(s) + 1) PROVE (b \o c)[j] = s[j - 1]
  <2>1. j \in 1..(Len(s) + 1) /\ ~(j <= i) /\ j - i \in 1..(Len(s) - i + 1) /\ i + (j - i) - 1 = j - 1
    BY <1>1
  <2>2. (b \o c)[j] = c[j - i] BY <1>7, <2>1
  <2>3. c[j - i] = s[i + (j - i) - 1] BY <1>3, <2>1
  <2> QED BY <2>1, <2>2, <2>3
<1>11. ASSUME NEW j \in 1..(i - 1) PROVE (b \o c)[j] = s[j]
  <2>1. j \in 1..i BY <1>1
  <2> QED BY <1>6, <1>9, <2>1
<1>12. (b \o c)[i] = e
  <2>1. i \in 1..i BY <1>1
  <2> QED BY <1>6, <1>9, <2>1
<1> QED BY <1>7, <1>8, <1>10, <1>11, <1>12
-----------------------------------------------------------------------------
(* Matching a prefix *)

LEMMA FullNameIs ==
    ASSUME NEW t \in TypeNames
    PROVE  /\ t.space \in Seq(STRING) /\ t.name \in Seq(STRING)
           /\ F!FullName(t) \in Seq(STRING)
           /\ Len(F!FullName(t)) = Len(t.space) + 1 + Len(t.name)
           /\ \A i \in 1..Len(t.space) : F!FullName(t)[i] = t.space[i]
           /\ F!FullName(t)[Len(t.space) + 1] = Dot
           /\ \A i \in 1..Len(t.name) : F!FullName(t)[Len(t.space) + 1 + i] = t.name[i]
<1> DEFINE s == t.space
           n == t.name
           d == <<Dot>> \o n
<1>1. s \in Seq(STRING) /\ n \in Seq(STRING) /\ Dot \in STRING BY TextsAssumption
<1>2. Len(s) \in Nat /\ Len(n) \in Nat BY <1>1, LenProperties
<1>3. <<Dot>> \in Seq(STRING) /\ Len(<<Dot>>) = 1 /\ <<Dot>>[1] = Dot BY <1>1
<1>4. F!FullName(t) = s \o d
  <2>1. F!FullName(t) = (s \o <<Dot>>) \o n BY DEF F!FullName
  <2>2. (s \o <<Dot>>) \o n = s \o (<<Dot>> \o n)
    <3> HIDE DEF s, n
    <3> QED BY <1>1, <1>3, ConcatAssociative
  <2> QED BY <2>1, <2>2
<1> HIDE DEF s, n
<1>5. /\ d \in Seq(STRING) /\ Len(d) = Len(n) + 1
      /\ \A i \in 1..(Len(n) + 1) : d[i] = IF i <= 1 THEN <<Dot>>[i] ELSE n[i - 1]
  <2>1. /\ d \in Seq(STRING) /\ Len(d) = Len(<<Dot>>) + Len(n)
        /\ \A i \in 1..(Len(<<Dot>>) + Len(n)) :
             d[i] = IF i <= Len(<<Dot>>) THEN <<Dot>>[i] ELSE n[i - Len(<<Dot>>)]
    BY <1>1, <1>3, ConcatProperties
  <2>2. Len(<<Dot>>) + Len(n) = Len(n) + 1 /\ Len(<<Dot>>) = 1 BY <1>2, <1>3
  <2> QED BY <2>1, <2>2
<1>6. d[1] = Dot
  <2>1. 1 \in 1..(Len(n) + 1) /\ 1 <= 1 BY <1>2
  <2> HIDE DEF d
  <2> QED BY <1>3, <1>5, <2>1
<1>7. ASSUME NEW i \in 1..Len(n) PROVE d[1 + i] = n[i]
  <2>1. 1 + i \in 1..(Len(n) + 1) /\ ~(1 + i <= 1) /\ (1 + i) - 1 = i BY <1>2
  <2> HIDE DEF d
  <2> QED BY <1>5, <2>1
<1> HIDE DEF d
<1>8. /\ s \o d \in Seq(STRING) /\ Len(s \o d) = Len(s) + Len(d)
      /\ \A i \in 1..(Len(s) + Len(d)) : (s \o d)[i] = IF i <= Len(s) THEN s[i] ELSE d[i - Len(s)]
  BY <1>1, <1>5, ConcatProperties
<1>9. ASSUME NEW i \in 1..Len(s) PROVE (s \o d)[i] = s[i]
  <2>1. i \in 1..(Len(s) + Len(d)) /\ i <= Len(s) BY <1>2, <1>5
  <2> QED BY <1>8, <2>1
<1>10. ASSUME NEW i \in 1..Len(d) PROVE (s \o d)[Len(s) + i] = d[i]
  <2>1. Len(s) + i \in 1..(Len(s) + Len(d)) /\ ~(Len(s) + i <= Len(s)) /\ (Len(s) + i) - Len(s) = i
    BY <1>2, <1>5
  <2> QED BY <1>8, <2>1
<1>11. (s \o d)[Len(s) + 1] = Dot
  <2>1. 1 \in 1..Len(d) BY <1>2, <1>5
  <2> QED BY <1>6, <1>10, <2>1
<1>12. ASSUME NEW i \in 1..Len(n) PROVE (s \o d)[Len(s) + 1 + i] = n[i]
  <2>1. 1 + i \in 1..Len(d) /\ Len(s) + (1 + i) = Len(s) + 1 + i BY <1>2, <1>5
  <2>2. (s \o d)[Len(s) + (1 + i)] = d[1 + i] BY <1>10, <2>1
  <2> QED BY <1>7, <2>1, <2>2
<1>13. Len(s \o d) = Len(s) + 1 + Len(n) BY <1>2, <1>5, <1>8
<1> QED BY <1>1, <1>4, <1>8, <1>9, <1>11, <1>12, <1>13 DEF s, n

\* match, which compares the namespace and the name apart, is the question whether the
\* rule is a prefix of the full name.
LEMMA MatchIsPrefix ==
    ASSUME NEW t \in TypeNames, NEW p \in Seq(STRING)
    PROVE  F!Match(t, p) <=> F!IsPrefix(p, F!FullName(t))
<1> DEFINE s == t.space
           n == t.name
           f == F!FullName(t)
           k == Len(s)
           q == SubSeq(p, k + 2, Len(p))
<1> SUFFICES F!Match(t, p) <=> F!IsPrefix(p, f) OBVIOUS
<1>1. /\ s \in Seq(STRING) /\ n \in Seq(STRING) /\ f \in Seq(STRING)
      /\ Len(f) = k + 1 + Len(n)
      /\ \A i \in 1..k : f[i] = s[i]
      /\ f[k + 1] = Dot
      /\ \A i \in 1..Len(n) : f[k + 1 + i] = n[i]
  BY FullNameIs
<1>2. k \in Nat /\ Len(n) \in Nat /\ Len(p) \in Nat BY <1>1, LenProperties
<1>3. F!Match(t, p) = IF Len(p) <= k THEN F!IsPrefix(p, s)
                      ELSE F!IsPrefix(s, p) /\ p[k + 1] = Dot /\ F!IsPrefix(q, n)
  BY DEF F!Match
<1> HIDE DEF s, n, f
<1>4. F!IsPrefix(p, f) <=> Len(p) <= Len(f) /\ \A i \in 1..Len(p) : p[i] = f[i]
  BY <1>1, PrefixIs
<1>5. CASE Len(p) <= k
  <2>1. F!IsPrefix(p, s) <=> Len(p) <= k /\ \A i \in 1..Len(p) : p[i] = s[i]
    BY <1>1, PrefixIs
  <2>2. \A i \in 1..Len(p) : f[i] = s[i] BY <1>1, <1>2, <1>5
  <2>3. Len(p) <= Len(f) BY <1>1, <1>2, <1>5
  <2> HIDE DEF k
  <2> QED BY <1>3, <1>4, <1>5, <2>1, <2>2, <2>3
<1>6. CASE ~(Len(p) <= k)
  <2>1. F!IsPrefix(s, p) <=> k <= Len(p) /\ \A i \in 1..k : s[i] = p[i]
    BY <1>1, PrefixIs
  <2>2. q \in Seq(STRING) /\ Len(q) = Len(p) - k - 1 /\ \A i \in 1..(Len(p) - k - 1) : q[i] = p[k + 1 + i]
    <3>1. \A i \in (k + 2)..Len(p) : p[i] \in STRING
      <4>1. \A i \in (k + 2)..Len(p) : i \in 1..Len(p) BY <1>2
      <4> QED BY <4>1, ElementOfSeq
    <3>2. /\ q \in Seq(STRING) /\ Len(q) = IF k + 2 <= Len(p) THEN Len(p) - (k + 2) + 1 ELSE 0
          /\ \A i \in 1..(Len(p) - (k + 2) + 1) : q[i] = p[(k + 2) + i - 1]
      BY <1>2, <3>1, SubSeqProperties
    <3> HIDE DEF q, k
    <3>3. Len(q) = Len(p) - k - 1 BY <1>2, <1>6, <3>2
    <3>4. \A i \in 1..(Len(p) - k - 1) : (k + 2) + i - 1 = k + 1 + i /\ i \in 1..(Len(p) - (k + 2) + 1)
      BY <1>2
    <3> QED BY <3>2, <3>3, <3>4
  <2> HIDE DEF q, k
  <2>3. F!IsPrefix(q, n) <=> Len(q) <= Len(n) /\ \A i \in 1..Len(q) : q[i] = n[i]
    <3>1. q \in Seq(STRING) BY <2>2
    <3>2. n \in Seq(STRING) BY <1>1
    <3> QED BY <3>1, <3>2, PrefixIs
  <2>4. ASSUME F!IsPrefix(p, f) PROVE F!Match(t, p)
    <3>1. \A i \in 1..k : i \in 1..Len(p) BY <1>2, <1>6
    <3>2. k + 1 \in 1..Len(p) BY <1>2, <1>6
    <3>3. \A i \in 1..Len(q) : k + 1 + i \in 1..Len(p) /\ i \in 1..Len(n) /\ i \in 1..(Len(p) - k - 1)
      BY <1>1, <1>2, <1>4, <2>2, <2>4
    <3>4. F!IsPrefix(s, p) BY <1>1, <1>2, <1>4, <1>6, <2>1, <2>4, <3>1
    <3>5. p[k + 1] = Dot BY <1>1, <1>4, <2>4, <3>2
    <3>6. Len(q) <= Len(n) BY <1>1, <1>2, <1>4, <2>2, <2>4
    <3>7. \A i \in 1..Len(q) : q[i] = n[i] BY <1>1, <1>4, <2>2, <2>4, <3>3
    <3> QED BY <1>3, <1>6, <2>3, <3>4, <3>5, <3>6, <3>7
  <2>5. ASSUME F!Match(t, p) PROVE F!IsPrefix(p, f)
    <3>1. /\ \A i \in 1..k : s[i] = p[i]
          /\ p[k + 1] = Dot
          /\ Len(q) <= Len(n) /\ \A i \in 1..Len(q) : q[i] = n[i]
      BY <1>3, <1>6, <2>1, <2>3, <2>5
    <3>2. Len(p) <= Len(f) BY <1>1, <1>2, <2>2, <3>1
    <3>3. ASSUME NEW i \in 1..Len(p) PROVE p[i] = f[i]
      <4>1. CASE i \in 1..k BY <1>1, <3>1, <4>1
      <4>2. CASE i = k + 1 BY <1>1, <3>1, <4>2
      <4>3. CASE i > k + 1
        <5>1. PICK j \in Nat : i = k + 1 + j BY <1>2, <4>3
        <5>2. j \in 1..Len(q) /\ j \in 1..Len(n) /\ j \in 1..(Len(p) - k - 1)
          BY <1>2, <2>2, <3>1, <4>3, <5>1
        <5> QED BY <1>1, <2>2, <3>1, <5>1, <5>2
      <4> QED BY <1>2, <4>1, <4>2, <4>3
    <3> QED BY <1>4, <3>2, <3>3
  <2> QED BY <2>4, <2>5
<1> QED BY <1>5, <1>6
-----------------------------------------------------------------------------
(* The filter: the rules stay sorted *)

\* The longer text goes first and, of two of one length, an exclude before an include.
Ordered(first, second) ==
    /\ Len(second.prefix) <= Len(first.prefix)
    /\ Len(second.prefix) = Len(first.prefix) /\ first.include => second.include

\* What std::sort does with the rules is defined, or known.
SortIsDefined == Len(given) <= ShortSort \/ F!OrderIsStrict

FilterInv ==
    /\ given \in Seq(F!Rule)
    /\ F!TypeOK
    /\ SortIsDefined => \A i, j \in 1..Len(m_rules) : i < j => Ordered(m_rules[i], m_rules[j])

LEMMA RuleTypes ==
    ASSUME NEW r \in F!Rule
    PROVE  r.prefix \in Seq(STRING) /\ Len(r.prefix) \in Nat /\ r.include \in BOOLEAN
<1>1. r.prefix \in RuleTexts /\ r.include \in BOOLEAN BY DEF F!Rule
<1>2. r.prefix \in Seq(STRING) BY <1>1, TextsAssumption
<1> QED BY <1>1, <1>2, LenProperties

LEMMA FilterInit == ASSUME F!Init PROVE FilterInv
<1>1. given \in Seq(F!Rule)
  <2>1. ASSUME NEW b \in BOOLEAN, NEW g \in F!Rules(b) PROVE g \in Seq(F!Rule)
    <3>1. PICK s \in UNION {[1..n -> RuleTexts] : n \in 0..MaxRules} :
                 g = [i \in DOMAIN s |-> [prefix |-> s[i], include |-> b]]
      BY <2>1 DEF F!Rules
    <3>2. PICK n \in Nat : s \in [1..n -> RuleTexts] BY TextsAssumption
    <3>3. g \in [1..n -> F!Rule] BY <3>1, <3>2 DEF F!Rule
    <3> QED BY <3>2, <3>3, SeqDef
  <2>2. PICK i \in F!Rules(TRUE), e \in F!Rules(FALSE) : given = i \o e BY DEF F!Init
  <2>3. i \in Seq(F!Rule) /\ e \in Seq(F!Rule) BY <2>1
  <2> QED BY <2>2, <2>3, ConcatProperties
<1>2. sorted = 0 /\ m_rules = <<>> BY DEF F!Init
<1>3. m_rules \in Seq(F!Rule) /\ Len(m_rules) = 0 BY <1>2
<1>4. F!ToSet(m_rules) = {} /\ {given[i] : i \in 1..sorted} = {} BY <1>2 DEF F!ToSet
<1>5. sorted \in 0..Len(given) BY <1>1, <1>2, LenProperties
<1>6. F!TypeOK BY <1>2, <1>3, <1>4, <1>5 DEF F!TypeOK
<1> QED BY <1>1, <1>3, <1>6 DEF FilterInv

\* The next rule goes to a place all before which may stay before it, and all
\* behind which it may go before.
LEMMA PlaceFits ==
    ASSUME FilterInv, SortIsDefined, NEW r \in F!Rule, NEW k \in 0..Len(m_rules),
           \/ k = 0 /\ Len(m_rules) > 0 /\ F!GoesBefore(r, m_rules[1])
           \/ /\ \A j \in (k + 1)..Len(m_rules) : F!GoesBefore(r, m_rules[j])
              /\ k = 0 \/ ~F!GoesBefore(r, m_rules[k])
    PROVE  /\ \A j \in 1..k : Ordered(m_rules[j], r)
           /\ \A j \in (k + 1)..Len(m_rules) : Ordered(r, m_rules[j])
<1>1. m_rules \in Seq(F!Rule) /\ Len(m_rules) \in Nat
  BY LenProperties DEF FilterInv, F!TypeOK
<1>2. \A i \in 1..Len(m_rules) : /\ Len(m_rules[i].prefix) \in Nat
                                 /\ m_rules[i].include \in BOOLEAN
  BY <1>1, ElementOfSeq, RuleTypes
<1>3. Len(r.prefix) \in Nat /\ r.include \in BOOLEAN BY RuleTypes
<1>4. \A i, j \in 1..Len(m_rules) : i < j => Ordered(m_rules[i], m_rules[j]) BY DEF FilterInv
<1>5. ASSUME NEW j \in 1..Len(m_rules), F!GoesBefore(r, m_rules[j]) PROVE Ordered(r, m_rules[j])
  BY <1>2, <1>3, <1>5 DEF F!GoesBefore, Ordered
<1>6. CASE k = 0 /\ Len(m_rules) > 0 /\ F!GoesBefore(r, m_rules[1])
  <2>1. 1 \in 1..Len(m_rules) BY <1>1, <1>6
  <2>2. Ordered(r, m_rules[1]) BY <1>5, <1>6, <2>1
  <2>3. ASSUME NEW j \in 1..Len(m_rules) PROVE Ordered(r, m_rules[j])
    <3>1. CASE j = 1 BY <2>2, <3>1
    <3>2. CASE j # 1
      <4>1. Ordered(m_rules[1], m_rules[j]) BY <1>1, <1>4, <2>1, <3>2
      <4> QED BY <1>2, <1>3, <2>1, <2>2, <4>1 DEF Ordered
    <3> QED BY <3>1, <3>2
  <2> QED BY <1>6, <2>3
<1>7. CASE /\ \A j \in (k + 1)..Len(m_rules) : F!GoesBefore(r, m_rules[j])
           /\ k = 0 \/ ~F!GoesBefore(r, m_rules[k])
  <2>1. ASSUME NEW j \in (k + 1)..Len(m_rules) PROVE Ordered(r, m_rules[j])
    <3>1. j \in 1..Len(m_rules) BY <1>1
    <3> QED BY <1>5, <1>7, <3>1
  <2>2. ASSUME NEW j \in 1..k PROVE Ordered(m_rules[j], r)
    <3>1. k \in 1..Len(m_rules) /\ j \in 1..Len(m_rules) BY <1>1
    <3>2. ~F!GoesBefore(r, m_rules[k]) BY <1>1, <1>7
    <3>3. Ordered(m_rules[k], r) BY <1>2, <1>3, <3>1, <3>2 DEF F!GoesBefore, Ordered
    <3>4. CASE j = k BY <3>3, <3>4
    <3>5. CASE j # k
      <4>1. Ordered(m_rules[j], m_rules[k]) BY <1>1, <1>4, <3>1, <3>5
      <4> QED BY <1>2, <1>3, <3>1, <3>3, <4>1 DEF Ordered
    <3> QED BY <3>4, <3>5
  <2> QED BY <2>1, <2>2
<1> QED BY <1>6, <1>7

\* There is such a place: the first one behind which the rule goes before all.
LEMMA PlaceExists ==
    ASSUME FilterInv, NEW r
    PROVE  \E k \in 0..Len(m_rules) :
             /\ \A j \in (k + 1)..Len(m_rules) : F!GoesBefore(r, m_rules[j])
             /\ k = 0 \/ ~F!GoesBefore(r, m_rules[k])
<1> DEFINE n == Len(m_rules)
           B == {k \in 0..n : \A j \in (k + 1)..n : F!GoesBefore(r, m_rules[j])}
<1>1. n \in Nat BY LenProperties DEF FilterInv, F!TypeOK
<1> HIDE DEF n
<1>2. n \in B
  <2>1. n \in 0..n /\ (n + 1)..n = {} BY <1>1
  <2> QED BY <2>1
<1>3. PICK k \in B : \A y \in B : k <= y BY <1>1, <1>2, Least
<1>4. CASE k # 0 /\ F!GoesBefore(r, m_rules[k])
  <2>1. k - 1 \in 0..n /\ ~(k <= k - 1) BY <1>1, <1>4
  <2>2. \A j \in ((k - 1) + 1)..n : j = k \/ j \in (k + 1)..n BY <1>1
  <2>3. k - 1 \in B BY <1>4, <2>1, <2>2
  <2> QED BY <1>3, <2>1, <2>3
<1> QED BY <1>3, <1>4 DEF n

LEMMA FilterStep == ASSUME FilterInv, F!InsertRule PROVE FilterInv'
<1> DEFINE r == given[sorted + 1]
           n == Len(m_rules)
           PutBehind(k) == \A j \in (k + 1)..sorted : F!GoesBefore(r, m_rules[j])
           place == IF sorted > 0 /\ F!GoesBefore(r, m_rules[1]) THEN 0
                    ELSE CHOOSE k \in 0..sorted :
                           PutBehind(k) /\ (k = 0 \/ ~F!GoesBefore(r, m_rules[k]))
           m == F!InsertAt(m_rules, place + 1, r)
<1>1. /\ sorted < Len(given) /\ sorted' = sorted + 1 /\ given' = given
      /\ m_rules' = m /\ SortIsDefined
  BY DEF F!InsertRule, F!Put, SortIsDefined
<1>2. /\ given \in Seq(F!Rule) /\ Len(given) \in Nat /\ sorted \in 0..Len(given)
      /\ m_rules \in Seq(F!Rule) /\ n = sorted /\ n \in Nat
      /\ F!ToSet(m_rules) = {given[i] : i \in 1..sorted}
  BY LenProperties DEF FilterInv, F!TypeOK
<1>3. r \in F!Rule
  <2>1. sorted + 1 \in 1..Len(given) BY <1>1, <1>2
  <2> QED BY <1>2, <2>1, ElementOfSeq
<1> HIDE DEF r
<1>4. \E k \in 0..sorted : PutBehind(k) /\ (k = 0 \/ ~F!GoesBefore(r, m_rules[k]))
  BY <1>2, PlaceExists
<1>5. /\ place \in 0..n
      /\ \/ place = 0 /\ n > 0 /\ F!GoesBefore(r, m_rules[1])
         \/ /\ \A j \in (place + 1)..n : F!GoesBefore(r, m_rules[j])
            /\ place = 0 \/ ~F!GoesBefore(r, m_rules[place])
  <2>1. CASE sorted > 0 /\ F!GoesBefore(r, m_rules[1])
    <3>1. place = 0 BY <2>1
    <3> QED BY <1>2, <2>1, <3>1
  <2>2. CASE ~(sorted > 0 /\ F!GoesBefore(r, m_rules[1]))
    <3> DEFINE P(k) == PutBehind(k) /\ (k = 0 \/ ~F!GoesBefore(r, m_rules[k]))
               c == CHOOSE k \in 0..sorted : P(k)
    <3>1. c \in 0..sorted /\ P(c)
      <4> HIDE DEF P
      <4>1. \E k \in 0..sorted : P(k) BY <1>4 DEF P
      <4> QED BY <4>1
    <3>2. place = c BY <2>2
    <3> HIDE DEF place, c
    <3> QED BY <1>2, <3>1, <3>2
  <2> QED BY <2>1, <2>2
<1> HIDE DEF place
<1>6. /\ \A j \in 1..place : Ordered(m_rules[j], r)
      /\ \A j \in (place + 1)..n : Ordered(r, m_rules[j])
  BY <1>1, <1>3, <1>5, PlaceFits
<1>7. /\ m \in Seq(F!Rule) /\ Len(m) = n + 1
      /\ \A j \in 1..place : m[j] = m_rules[j]
      /\ m[place + 1] = r
      /\ \A j \in (place + 2)..(n + 1) : m[j] = m_rules[j - 1]
  <2>1. place + 1 \in 1..(n + 1) /\ (place + 1) - 1 = place /\ (place + 1) + 1 = place + 2
    BY <1>2, <1>5
  <2> DEFINE p == place + 1
  <2> HIDE DEF p
  <2>2. /\ F!InsertAt(m_rules, p, r) \in Seq(F!Rule)
        /\ Len(F!InsertAt(m_rules, p, r)) = Len(m_rules) + 1
        /\ \A j \in 1..(p - 1) : F!InsertAt(m_rules, p, r)[j] = m_rules[j]
        /\ F!InsertAt(m_rules, p, r)[p] = r
        /\ \A j \in (p + 1)..(Len(m_rules) + 1) : F!InsertAt(m_rules, p, r)[j] = m_rules[j - 1]
    <3>1. m_rules \in Seq(F!Rule) BY <1>2
    <3>2. p \in 1..(Len(m_rules) + 1) BY <2>1 DEF p
    <3> HIDE DEF n, m
    <3> QED BY <1>3, <3>1, <3>2, InsertAtIs
  <2>3. m = F!InsertAt(m_rules, p, r) BY DEF p
  <2>4. p - 1 = place /\ p = place + 1 /\ p + 1 = place + 2 BY <2>1 DEF p
  <2> HIDE DEF m, n
  <2>5. n = Len(m_rules) BY DEF n
  <2> QED BY <2>2, <2>3, <2>4, <2>5
<1> HIDE DEF m, n
<1>8. \A i, j \in 1..n : i < j => Ordered(m_rules[i], m_rules[j]) BY <1>1 DEF FilterInv, n
<1>9. ASSUME NEW i \in 1..(n + 1), NEW j \in 1..(n + 1), i < j PROVE Ordered(m[i], m[j])
  <2>1. place \in 0..n /\ n \in Nat /\ i \in Nat /\ j \in Nat BY <1>2, <1>5
  <2>2. CASE i <= place /\ j <= place
    <3>1. i \in 1..place /\ j \in 1..place /\ i \in 1..n /\ j \in 1..n BY <2>1, <2>2
    <3> QED BY <1>7, <1>8, <1>9, <3>1
  <2>3. CASE i <= place /\ j = place + 1
    <3>1. i \in 1..place BY <2>1, <2>3
    <3> QED BY <1>6, <1>7, <2>3, <3>1
  <2>4. CASE i <= place /\ j > place + 1
    <3>1. i \in 1..place /\ i \in 1..n /\ j \in (place + 2)..(n + 1) /\ j - 1 \in 1..n /\ i < j - 1
      BY <2>1, <2>4
    <3> QED BY <1>7, <1>8, <3>1
  <2>5. CASE i = place + 1 /\ j > place + 1
    <3>1. j \in (place + 2)..(n + 1) /\ j - 1 \in (place + 1)..n BY <2>1, <2>5
    <3> QED BY <1>6, <1>7, <2>5, <3>1
  <2>6. CASE i > place + 1 /\ j > place + 1
    <3>1. /\ i \in (place + 2)..(n + 1) /\ j \in (place + 2)..(n + 1)
          /\ i - 1 \in 1..n /\ j - 1 \in 1..n /\ i - 1 < j - 1
      BY <1>9, <2>1, <2>6
    <3> QED BY <1>7, <1>8, <3>1
  <2> QED BY <1>9, <2>1, <2>2, <2>3, <2>4, <2>5, <2>6
<1>10. F!ToSet(m) = F!ToSet(m_rules) \cup {r}
  <2>1. /\ F!ToSet(m) = {m[i] : i \in 1..(n + 1)}
        /\ F!ToSet(m_rules) = {m_rules[i] : i \in 1..n}
    BY <1>2, <1>7, LenProperties DEF F!ToSet, n
  <2>2. place \in 0..n /\ n \in Nat BY <1>2, <1>5
  <2>3. ASSUME NEW i \in 1..(n + 1) PROVE m[i] \in {m_rules[j] : j \in 1..n} \cup {r}
    <3>1. CASE i <= place
      <4>1. i \in 1..place /\ i \in 1..n BY <2>2, <3>1
      <4> QED BY <1>7, <4>1
    <3>2. CASE i = place + 1 BY <1>7, <3>2
    <3>3. CASE i > place + 1
      <4>1. i \in (place + 2)..(n + 1) /\ i - 1 \in 1..n BY <2>2, <3>3
      <4> QED BY <1>7, <4>1
    <3> QED BY <2>2, <3>1, <3>2, <3>3
  <2>4. ASSUME NEW j \in 1..n PROVE m_rules[j] \in {m[i] : i \in 1..(n + 1)}
    <3>1. CASE j <= place
      <4>1. j \in 1..place /\ j \in 1..(n + 1) BY <2>2, <3>1
      <4> QED BY <1>7, <4>1
    <3>2. CASE j > place
      <4>1. j + 1 \in (place + 2)..(n + 1) /\ j + 1 \in 1..(n + 1) /\ (j + 1) - 1 = j BY <2>2, <3>2
      <4> QED BY <1>7, <4>1
    <3> QED BY <2>2, <3>1, <3>2
  <2>5. r \in {m[i] : i \in 1..(n + 1)}
    <3>1. place + 1 \in 1..(n + 1) BY <2>2
    <3> QED BY <1>7, <3>1
  <2>6. {m[i] : i \in 1..(n + 1)} \subseteq {m_rules[j] : j \in 1..n} \cup {r} BY <2>3
  <2>7. {m_rules[j] : j \in 1..n} \subseteq {m[i] : i \in 1..(n + 1)} BY <2>4
  <2> QED BY <2>1, <2>5, <2>6, <2>7
<1>11. {given[i] : i \in 1..(sorted + 1)} = {given[i] : i \in 1..sorted} \cup {r}
  <2>1. \A i : i \in 1..(sorted + 1) <=> i \in 1..sorted \/ i = sorted + 1 BY <1>2
  <2> QED BY <2>1 DEF r
<1>12. sorted + 1 \in 0..Len(given) BY <1>1, <1>2
<1>13. F!TypeOK'
  <2>1. F!ToSet(m_rules)' = F!ToSet(m) BY <1>1 DEF F!ToSet
  <2>2. {given[i] : i \in 1..sorted}' = {given[i] : i \in 1..(sorted + 1)} BY <1>1
  <2>3. m_rules' \in Seq(F!Rule) /\ Len(m_rules') = sorted' BY <1>1, <1>2, <1>7
  <2>4. sorted' \in 0..Len(given') BY <1>1, <1>12
  <2>5. F!ToSet(m_rules)' = {given[i] : i \in 1..sorted}'
    BY <1>2, <1>10, <1>11, <2>1, <2>2
  <2> QED BY <2>3, <2>4, <2>5 DEF F!TypeOK
<1>14. \A i, j \in 1..Len(m_rules') : i < j => Ordered(m_rules'[i], m_rules'[j])
  BY <1>1, <1>7, <1>9
<1> QED BY <1>1, <1>2, <1>13, <1>14 DEF FilterInv, Ordered

\* A whole sort leaves the rules given, and in order if the order is one.
LEMMA SortKeeps == ASSUME FilterInv, F!Sort PROVE FilterInv'
<1> DEFINE N == Len(given)
<1>1. /\ given \in Seq(F!Rule) /\ N \in Nat
      /\ \A i \in 1..N : /\ given[i] \in F!Rule /\ Len(given[i].prefix) \in Nat
                          /\ given[i].include \in BOOLEAN
  BY LenProperties, ElementOfSeq, RuleTypes DEF FilterInv
<1>2. PICK p \in F!Arrangements(N) :
         /\ m_rules' = [i \in 1..N |-> given[p[i]]]
         /\ F!OrderIsStrict =>
              \A i, j \in 1..N : i < j => ~F!GoesBefore(given[p[j]], given[p[i]])
  BY DEF F!Sort
<1>3. sorted' = N /\ given' = given /\ (Len(given) > ShortSort \/ F!OrderIsStrict) BY DEF F!Sort
<1>4. \A i \in 1..N : p[i] \in 1..N BY <1>2 DEF F!Arrangements
<1>5. \A k \in 1..N : \E i \in 1..N : p[i] = k BY <1>2 DEF F!Arrangements
<1>6. m_rules' \in [1..N -> F!Rule] BY <1>1, <1>2, <1>4
<1>7. m_rules' \in Seq(F!Rule) /\ Len(m_rules') = N
  <2> HIDE DEF N
  <2> QED BY <1>1, <1>6, SeqDef, LenProperties
<1>8. \A i \in 1..N : m_rules'[i] = given[p[i]] BY <1>2
<1>9. {m_rules'[i] : i \in 1..N} = {given[i] : i \in 1..N}
  <2>1. ASSUME NEW k \in 1..N PROVE \E i \in 1..N : given[k] = m_rules'[i]
    <3>1. PICK i \in 1..N : p[i] = k BY <1>5
    <3> QED BY <1>8, <3>1
  <2> HIDE DEF N
  <2> QED BY <1>4, <1>8, <2>1
<1>10. F!TypeOK'
  <2>1. F!ToSet(m_rules)' = {m_rules'[i] : i \in 1..N}
    <3>1. DOMAIN (m_rules') = 1..N BY <1>2
    <3> QED BY <3>1 DEF F!ToSet
  <2>2. {given[i] : i \in 1..sorted}' = {given[i] : i \in 1..N} BY <1>3
  <2>3. sorted' \in 0..Len(given') BY <1>1, <1>3
  <2> QED BY <1>3, <1>7, <1>9, <2>1, <2>2, <2>3 DEF F!TypeOK
<1>11. ASSUME SortIsDefined, NEW i \in 1..N, NEW j \in 1..N, i < j
       PROVE  Ordered(m_rules'[i], m_rules'[j])
  <2>1. F!OrderIsStrict
    <3>1. ShortSort \in Nat BY TextsAssumption
    <3> QED BY <1>1, <1>3, <1>11, <3>1 DEF SortIsDefined
  <2>2. ~F!GoesBefore(given[p[j]], given[p[i]]) BY <1>2, <1>11, <2>1
  <2>3. given[p[j]].include
    <3>1. DOMAIN given = 1..N BY <1>1, LenProperties
    <3> QED BY <1>4, <2>1, <3>1 DEF F!OrderIsStrict
  <2>4. /\ Len(given[p[i]].prefix) \in Nat /\ Len(given[p[j]].prefix) \in Nat
    BY <1>1, <1>4
  <2>5. m_rules'[i] = given[p[i]] /\ m_rules'[j] = given[p[j]] BY <1>8
  <2>6. ~(Len(given[p[j]].prefix) > Len(given[p[i]].prefix)) BY <2>2 DEF F!GoesBefore
  <2>7. Len(given[p[j]].prefix) <= Len(given[p[i]].prefix) BY <2>4, <2>6
  <2> QED BY <2>3, <2>5, <2>7 DEF Ordered
<1>12. SortIsDefined' <=> SortIsDefined BY <1>3 DEF SortIsDefined, F!OrderIsStrict
<1>13. SortIsDefined' => \A i, j \in 1..Len(m_rules') : i < j => Ordered(m_rules'[i], m_rules'[j])
  BY <1>7, <1>11, <1>12
<1> QED BY <1>1, <1>3, <1>10, <1>13 DEF FilterInv, Ordered

\* Of sorted rules the first one that matches is the one that decides.
LEMMA FirstMatchDecides == ASSUME FilterInv PROVE F!LongestPrefixDecides
<1> SUFFICES ASSUME sorted = Len(given), SortIsDefined, NEW t \in TypeNames
             PROVE  LET applies == {r \in F!ToSet(given) : F!IsPrefix(r.prefix, F!FullName(t))}
                        longest == {r \in applies :
                                      \A s \in applies : Len(s.prefix) <= Len(r.prefix)}
                    IN  F!Includes(t) <=> \/ given = <<>>
                                          \/ longest # {} /\ \A r \in longest : r.include
  BY DEF F!LongestPrefixDecides, SortIsDefined
<1> DEFINE applies == {r \in F!ToSet(given) : F!IsPrefix(r.prefix, F!FullName(t))}
           longest == {r \in applies : \A s \in applies : Len(s.prefix) <= Len(r.prefix)}
           n == Len(m_rules)
           Hit(i) == F!Match(t, m_rules[i].prefix)
<1>1. /\ given \in Seq(F!Rule) /\ m_rules \in Seq(F!Rule) /\ n = Len(given) /\ n \in Nat
      /\ F!ToSet(m_rules) = {given[i] : i \in 1..n}
  BY LenProperties DEF FilterInv, F!TypeOK
<1>2. F!ToSet(given) = F!ToSet(m_rules) /\ F!ToSet(m_rules) = {m_rules[i] : i \in 1..n}
  BY <1>1, LenProperties DEF F!ToSet
<1>3. \A i \in 1..n : /\ m_rules[i] \in F!Rule /\ m_rules[i].prefix \in Seq(STRING)
                      /\ Len(m_rules[i].prefix) \in Nat /\ m_rules[i].include \in BOOLEAN
  BY <1>1, ElementOfSeq, RuleTypes
<1>4. \A i, j \in 1..n : i < j => Ordered(m_rules[i], m_rules[j]) BY DEF FilterInv
<1>5. \A i \in 1..n : Hit(i) <=> F!IsPrefix(m_rules[i].prefix, F!FullName(t))
  BY <1>3, MatchIsPrefix
<1>6. applies = {m_rules[i] : i \in {j \in 1..n : Hit(j)}}
  <2> HIDE DEF Hit
  <2> QED BY <1>2, <1>5
<1>7. given = <<>> <=> m_rules = <<>>
  <2>1. given = <<>> <=> Len(given) = 0 BY <1>1, EmptySeq
  <2>2. m_rules = <<>> <=> n = 0 BY <1>1, EmptySeq
  <2> QED BY <1>1, <2>1, <2>2
<1>8. DOMAIN m_rules = 1..n BY <1>1, LenProperties
<1>9. F!Includes(t) <=> \/ m_rules = <<>>
                        \/ \E i \in 1..n : /\ Hit(i) /\ m_rules[i].include
                                           /\ \A j \in 1..(i - 1) : ~Hit(j)
  BY <1>8 DEF F!Includes
<1> HIDE DEF n, Hit, applies
<1>10. CASE \A i \in 1..n : ~Hit(i)
  <2>1. applies = {} BY <1>6, <1>10
  <2>2. longest = {} BY <2>1
  <2> QED BY <1>7, <1>9, <1>10, <2>2 DEF applies
<1>11. CASE \E i \in 1..n : Hit(i)
  <2> DEFINE B == {i \in 1..n : Hit(i)}
  <2>1. B \in SUBSET (0..n) /\ B # {} BY <1>1, <1>11
  <2>2. PICK i \in B : \A j \in B : i <= j
    <3> HIDE DEF B
    <3> QED BY <1>1, <2>1, Least
  <2>3. i \in 1..n /\ Hit(i) BY <2>2
  <2>4. \A j \in 1..(i - 1) : ~Hit(j)
    <3>1. \A j \in 1..(i - 1) : j \in 1..n /\ ~(i <= j) BY <1>1, <2>3
    <3> QED BY <2>2, <3>1
  <2>5. ASSUME NEW j \in 1..n, Hit(j) PROVE j = i \/ Ordered(m_rules[i], m_rules[j])
    <3>1. i <= j BY <2>2, <2>5
    <3>2. i < j \/ j = i BY <1>1, <2>3, <3>1
    <3> QED BY <1>4, <2>3, <3>2
  <2>6. m_rules[i] \in longest
    <3>1. m_rules[i] \in applies BY <1>6, <2>3
    <3>2. ASSUME NEW s \in applies PROVE Len(s.prefix) <= Len(m_rules[i].prefix)
      <4>1. PICK j \in 1..n : Hit(j) /\ s = m_rules[j] BY <1>6, <3>2
      <4> QED BY <1>3, <2>3, <2>5, <4>1 DEF Ordered
    <3> QED BY <3>1, <3>2
  <2>7. ASSUME m_rules[i].include, NEW r \in longest PROVE r.include
    <3>1. PICK j \in 1..n : Hit(j) /\ r = m_rules[j] BY <1>6, <2>7
    <3>2. Len(m_rules[i].prefix) <= Len(r.prefix) BY <2>6, <2>7
    <3> QED BY <1>3, <2>3, <2>5, <2>7, <3>1, <3>2 DEF Ordered
  <2>8. ASSUME NEW k \in 1..n, Hit(k), \A j \in 1..(k - 1) : ~Hit(j) PROVE k = i
    <3>1. i <= k BY <2>2, <2>8
    <3>2. ~(i <= k - 1)
      <4>1. i <= k - 1 => i \in 1..(k - 1) BY <1>1, <2>3
      <4> QED BY <2>3, <2>8, <4>1
    <3> QED BY <1>1, <2>3, <3>1, <3>2
  <2>9. m_rules # <<>>
    <3>1. n # 0 BY <1>1, <2>3
    <3> QED BY <3>1 DEF n
  <2>10. F!Includes(t) <=> m_rules[i].include BY <1>9, <2>3, <2>4, <2>8, <2>9
  <2> HIDE DEF longest
  <2>11. (longest # {} /\ \A r \in longest : r.include) <=> m_rules[i].include
    BY <1>3, <2>3, <2>6, <2>7
  <2> QED BY <1>7, <2>9, <2>10, <2>11 DEF longest, applies
<1> QED BY <1>10, <1>11 DEF applies

\* The rules stay sorted, whichever of them is next.
LEMMA FilterKeeps == ASSUME FilterInv, [F!Next]_(F!vars) PROVE FilterInv'
<1>1. CASE UNCHANGED F!vars
  <2>1. given' = given /\ sorted' = sorted /\ m_rules' = m_rules BY <1>1 DEF F!vars
  <2>2. F!TypeOK <=> F!TypeOK' BY <2>1 DEF F!TypeOK, F!ToSet
  <2>3. SortIsDefined <=> SortIsDefined' BY <2>1 DEF SortIsDefined, F!OrderIsStrict
  <2> QED BY <2>1, <2>2, <2>3 DEF FilterInv, F!ToSet, Ordered
<1>2. CASE F!InsertRule BY <1>2, FilterStep
<1>3. CASE F!Sort BY <1>3, SortKeeps
<1>4. CASE F!Done BY <1>1, <1>4 DEF F!Done
<1> QED BY <1>1, <1>2, <1>3, <1>4 DEF F!Next

-----------------------------------------------------------------------------
(* The readers together *)

\* None of them changes what another one keeps.
LEMMA FilterAlone ==
    ASSUME part = "filter" => FilterInv, [ReadersNext]_readersVars
    PROVE  part' = "filter" => FilterInv'
<1>1. part' = part BY DEF ReadersNext, readersVars
<1>2. CASE part = "filter"
  <2>1. [F!Next]_(F!vars) BY <1>2 DEF ReadersNext, readersVars, filterVars, F!vars
  <2> QED BY <1>2, <2>1, FilterKeeps
<1> QED BY <1>1, <1>2

LEMMA FilterStarts == ASSUME ReadersInit PROVE part = "filter" => FilterInv
BY FilterInit DEF ReadersInit

-----------------------------------------------------------------------------
(* The lists of the parent table *)

\* What the proofs use of a well-formed database, and of where a list ends.
Starts == DOMAIN db.starts
End(m) == IF m < Len(db.starts) THEN db.starts[m + 1] - 1 ELSE db.size
Owns(m, o) == IF db.list \in R!Mapped THEN db.owners[m] = o + 1 ELSE m = o + 1
TypeRows == 0..(db.types - 1)
InList(m, k) == db.starts[m] - 1 <= k /\ k < End(m)

LEMMA Numbers ==
    ASSUME R!WellFormed(db)
    PROVE /\ db.types \in Nat /\ db.size \in Nat /\ db.starts \in Seq(Nat) /\ db.owners \in Seq(Nat)
          /\ Starts = 1..Len(db.starts) /\ Len(db.starts) \in Nat
          /\ \A m \in Starts : db.starts[m] \in 1..(db.size + 1)
          /\ \A m \in Starts : m > 1 => db.starts[m - 1] <= db.starts[m]
          /\ db.starts = <<>> => db.size = 0
          /\ db.starts # <<>> => db.starts[1] = 1
BY DEF R!WellFormed, Starts

\* The starts do not decrease, over any distance.
LEMMA Monotone ==
    ASSUME R!WellFormed(db), NEW i \in Starts, NEW j \in Starts, i <= j
    PROVE db.starts[i] <= db.starts[j]
<1> DEFINE B == {k \in i..Len(db.starts) : db.starts[k] < db.starts[i]}
<1>1. Starts = 1..Len(db.starts) /\ Len(db.starts) \in Nat
      /\ \A m \in Starts : db.starts[m] \in Nat BY SMTT(20), Numbers
<1>2. SUFFICES ASSUME j \in B PROVE FALSE BY <1>1
<1>3. B \in SUBSET (0..Len(db.starts)) BY <1>1
<1>4. PICK k \in B : \A y \in B : k <= y BY <1>1, <1>2, <1>3, Least
<1>5. k \in Starts /\ k > i /\ k - 1 \in Starts /\ k - 1 \notin B /\ k - 1 \in i..Len(db.starts)
  BY SMTT(20), <1>1, <1>4
<1>6. db.starts[k - 1] <= db.starts[k] BY <1>1, <1>5, Numbers
<1> QED BY <1>1, <1>4, <1>5, <1>6

\* No member is in two lists.
LEMMA Disjoint ==
    ASSUME R!WellFormed(db), NEW i \in Starts, NEW j \in Starts, NEW k \in Int, InList(i, k), InList(j, k)
    PROVE i = j
<1>1. Starts = 1..Len(db.starts) /\ Len(db.starts) \in Nat
      /\ \A m \in Starts : db.starts[m] \in Nat BY SMTT(20), Numbers
<1>2. ASSUME NEW a \in Starts, NEW b \in Starts, a < b, InList(a, k), InList(b, k) PROVE FALSE
  <2>1. a + 1 \in Starts /\ a + 1 <= b BY <1>1, <1>2
  <2>2. db.starts[a + 1] <= db.starts[b] BY <2>1, Monotone
  <2>3. k < db.starts[a + 1] - 1 BY <1>1, <1>2, <2>1 DEF InList, End
  <2>4. db.starts[b] - 1 <= k BY <1>2 DEF InList
  <2> QED BY <1>1, <2>1, <2>2, <2>3, <2>4
<1> QED BY <1>1, <1>2

\* Every row of the target table is in a list.
LEMMA Covered ==
    ASSUME R!WellFormed(db), NEW k \in 0..(db.size - 1)
    PROVE \E m \in Starts : InList(m, k)
<1> DEFINE n == Len(db.starts)
           B == {m \in 1..n : db.starts[m] > k + 1}
<1>1. /\ Starts = 1..n /\ n \in Nat /\ db.size \in Nat
      /\ \A m \in Starts : db.starts[m] \in Nat
  <2> HIDE DEF B
  <2>1. \A m \in Starts : db.starts[m] \in 1..(db.size + 1) BY Numbers
  <2>2. Starts = 1..n /\ n \in Nat /\ db.size \in Nat BY Numbers
  <2> QED BY <2>1, <2>2
<1>2. db.starts # <<>> /\ db.starts[1] = 1 BY <1>1, Numbers
<1>3. n > 0 BY <1>1, <1>2, Numbers
<1>4. CASE B = {}
  <2>1. n \in Starts /\ ~(db.starts[n] > k + 1) BY <1>1, <1>3, <1>4
  <2> QED BY <1>1, <2>1 DEF InList, End
<1>5. CASE B # {}
  <2>1. B \in SUBSET (0..n) BY <1>1
  <2>2. PICK b \in B : \A y \in B : b <= y BY <1>1, <1>5, <2>1, Least
  <2>3. b # 1 /\ b \in 1..n BY <1>1, <1>2, <2>2
  <2>4. b - 1 \in Starts /\ b - 1 \notin B BY <1>1, <2>2, <2>3
  <2>5. db.starts[b - 1] <= k + 1 BY <1>1, <2>4
  <2>6. End(b - 1) = db.starts[b] - 1 BY <1>1, <2>3 DEF End
  <2>7. k + 1 < db.starts[b] BY <2>2
  <2>8. db.starts[b] \in Nat /\ db.starts[b - 1] \in Nat BY <1>1, <2>3, <2>4
  <2>9. InList(b - 1, k) BY <2>5, <2>6, <2>7, <2>8 DEF InList
  <2> QED BY <2>4, <2>9
<1> QED BY <1>4, <1>5

\* A list begins in the target table, or at its end, and ends behind its beginning.
LEMMA InTable ==
    ASSUME R!WellFormed(db), NEW m \in Starts
    PROVE db.starts[m] - 1 \in 0..End(m) /\ End(m) \in 0..db.size
<1>1. Starts = 1..Len(db.starts) /\ Len(db.starts) \in Nat /\ db.size \in Nat
      /\ \A i \in Starts : db.starts[i] \in 1..(db.size + 1) BY Numbers
<1>2. CASE m < Len(db.starts)
  <2>1. m + 1 \in Starts BY <1>1, <1>2
  <2>2. db.starts[m] <= db.starts[m + 1] BY <1>1, <2>1, Monotone
  <2> QED BY <1>1, <1>2, <2>1, <2>2 DEF End
<1>3. CASE ~(m < Len(db.starts)) BY <1>1, <1>3 DEF End
<1> QED BY <1>2, <1>3

-----------------------------------------------------------------------------
(* The lists of the types *)

\* A direct list belongs to the type of the same row; a map names its type.
LEMMA OneOwner ==
    ASSUME R!WellFormed(db), NEW m \in Starts
    PROVE /\ \E o \in TypeRows : Owns(m, o)
          /\ \A o, p \in TypeRows : Owns(m, o) /\ Owns(m, p) => o = p
<1>1. db.types \in Nat /\ Starts = 1..Len(db.starts) /\ Len(db.starts) \in Nat BY Numbers
<1>2. CASE db.list \in R!Mapped
  <2>1. Len(db.owners) = Len(db.starts) /\ R!ToSet(db.owners) \subseteq 1..db.types
    BY <1>2 DEF R!WellFormed
  <2>2. db.owners[m] \in 1..db.types BY SMTT(20), <1>1, <2>1, Numbers DEF R!ToSet
  <2>3. db.owners[m] - 1 \in TypeRows /\ db.owners[m] = (db.owners[m] - 1) + 1
    BY <1>1, <2>2 DEF TypeRows
  <2> QED BY <1>1, <1>2, <2>2, <2>3 DEF Owns, TypeRows
<1>3. CASE db.list \notin R!Mapped
  <2>1. Len(db.starts) = db.types BY <1>3 DEF R!WellFormed
  <2>2. m - 1 \in TypeRows /\ m = (m - 1) + 1 BY <1>1, <2>1 DEF TypeRows
  <2> QED BY <1>1, <1>3, <2>2 DEF Owns, TypeRows
<1> QED BY <1>2, <1>3

\* The range of a type is the list of the row that it owns.
LEMMA RangeOfOwner ==
    ASSUME R!WellFormed(db), NEW m \in Starts, NEW o \in TypeRows, Owns(m, o)
    PROVE R!RangeOf(o) = <<db.starts[m] - 1, End(m)>>
<1>1. db.types \in Nat /\ Starts = 1..Len(db.starts) /\ Len(db.starts) \in Nat BY Numbers
<1>2. CASE db.list \notin R!Mapped
  BY <1>1, <1>2 DEF Owns, R!RangeOf, R!get_list, End, TypeRows
<1>3. CASE db.list \in R!Mapped
  <2>1. Len(db.owners) = Len(db.starts) /\ R!IsInjective(db.owners) BY <1>3 DEF R!WellFormed
  <2>2. DOMAIN db.owners = 1..Len(db.starts) BY <2>1, Numbers
  <2>3. \A i, j \in 1..Len(db.starts) : db.owners[i] = db.owners[j] => i = j
    BY <2>1, <2>2 DEF R!IsInjective
  <2>4. db.owners[m] = o + 1 BY <1>3 DEF Owns
  <2>5. R!MapRow(o) = {m - 1}
    <3>1. m - 1 \in R!MapRow(o) BY <1>1, <2>1, <2>4 DEF R!MapRow
    <3>2. ASSUME NEW x \in R!MapRow(o) PROVE x = m - 1
      <4>1. x + 1 \in 1..Len(db.starts) /\ db.owners[x + 1] = o + 1 BY <1>1, <2>1, <3>2 DEF R!MapRow
      <4>2. x + 1 = m BY <1>1, <2>3, <2>4, <4>1
      <4>3. x \in Int BY <1>1, <2>1, <3>2 DEF R!MapRow
      <4> QED BY <4>2, <4>3
    <3> QED BY <3>1, <3>2
  <2>6. (CHOOSE x \in R!MapRow(o) : \A y \in R!MapRow(o) : x <= y) = m - 1
    BY <1>1, <2>5
  <2>7. R!RangeOf(o) = R!get_list(m - 1) BY <1>3, <2>5, <2>6 DEF R!RangeOf
  <2>8. (m - 1) + 1 = m /\ (m - 1) + 2 = m + 1 BY <1>1
  <2> QED BY <2>7, <2>8 DEF R!get_list, End
<1> QED BY <1>2, <1>3

\* A type that owns no row, which only a map leaves out, has an empty range.
LEMMA RangeOfOther ==
    ASSUME R!WellFormed(db), NEW o \in TypeRows, \A m \in Starts : ~Owns(m, o)
    PROVE R!RangeOf(o) = <<db.size, db.size>>
<1>1. db.types \in Nat /\ Starts = 1..Len(db.starts) /\ Len(db.starts) \in Nat BY Numbers
<1>2. CASE db.list \notin R!Mapped
  <2>1. Len(db.starts) = db.types BY <1>2 DEF R!WellFormed
  <2>2. o + 1 \in Starts BY <1>1, <2>1 DEF TypeRows
  <2> QED BY <1>2, <2>2 DEF Owns
<1>3. CASE db.list \in R!Mapped
  <2>1. Len(db.owners) = Len(db.starts) BY <1>3 DEF R!WellFormed
  <2>2. ASSUME NEW x \in R!MapRow(o) PROVE FALSE
    <3>1. x + 1 \in Starts /\ db.owners[x + 1] = o + 1 BY <1>1, <2>1, <2>2 DEF R!MapRow
    <3> QED BY <1>3, <3>1 DEF Owns
  <2> QED BY <1>3, <2>2 DEF R!RangeOf
<1> QED BY <1>2, <1>3

\* What of a type's range the walk meets.
Meets(o, k) == R!RangeOf(o)[1] <= k /\ k < R!RangeOf(o)[2]

LEMMA RangeInTable ==
    ASSUME R!WellFormed(db), NEW o \in TypeRows
    PROVE R!RangeOf(o)[1] \in 0..R!RangeOf(o)[2] /\ R!RangeOf(o)[2] \in 0..db.size
<1>1. CASE \E m \in Starts : Owns(m, o)
  <2>1. PICK m \in Starts : Owns(m, o) BY <1>1
  <2>2. R!RangeOf(o) = <<db.starts[m] - 1, End(m)>> BY <2>1, RangeOfOwner
  <2> QED BY <2>2, InTable
<1>2. CASE ~\E m \in Starts : Owns(m, o)
  <2>1. R!RangeOf(o) = <<db.size, db.size>> BY <1>2, RangeOfOther
  <2> QED BY <2>1, Numbers
<1> QED BY <1>1, <1>2

\* The walk meets in the range of a type the members of the list that the type owns.
LEMMA MetInList ==
    ASSUME R!WellFormed(db), NEW q \in TypeRows, NEW k \in Int, Meets(q, k)
    PROVE  \E m \in Starts : Owns(m, q) /\ InList(m, k)
<1>1. db.size \in Nat BY Numbers
<1>2. CASE ~\E m \in Starts : Owns(m, q)
  <2>1. R!RangeOf(q) = <<db.size, db.size>> BY <1>2, RangeOfOther
  <2> QED BY <1>1, <2>1 DEF Meets
<1>3. CASE \E m \in Starts : Owns(m, q)
  <2>1. PICK m \in Starts : Owns(m, q) BY <1>3
  <2>2. R!RangeOf(q) = <<db.starts[m] - 1, End(m)>> BY <2>1, RangeOfOwner
  <2> QED BY <2>1, <2>2 DEF Meets, InList
<1> QED BY <1>2, <1>3

\* A member is in the range of one type only.
LEMMA MeetsOnce ==
    ASSUME R!WellFormed(db), NEW o \in TypeRows, NEW p \in TypeRows, NEW k \in Int,
           Meets(o, k), Meets(p, k)
    PROVE o = p
<1>1. PICK m \in Starts : Owns(m, o) /\ InList(m, k) BY MetInList
<1>2. PICK n \in Starts : Owns(n, p) /\ InList(n, k) BY MetInList
<1>3. m = n BY <1>1, <1>2, Disjoint
<1> QED BY <1>1, <1>2, <1>3, OneOwner

\* Each member is in the range of a type.
LEMMA MeetsAll ==
    ASSUME R!WellFormed(db), NEW k \in 0..(db.size - 1)
    PROVE \E o \in TypeRows : Meets(o, k)
<1>1. PICK m \in Starts : InList(m, k) BY Covered
<1>2. PICK o \in TypeRows : Owns(m, o) BY OneOwner
<1>3. R!RangeOf(o) = <<db.starts[m] - 1, End(m)>> BY <1>2, RangeOfOwner
<1> QED BY <1>1, <1>3 DEF Meets, InList

-----------------------------------------------------------------------------
(* The way back *)

\* Behind u the starts are larger than the value, and up to u they are not.
Splits(u, value) ==
    /\ \A i \in 1..u : db.starts[i] <= value
    /\ \A i \in (u + 1)..Len(db.starts) : value < db.starts[i]

\* The place nearest to u in a range.
Nearest(u, first, count) ==
    IF u < first THEN first ELSE IF u > first + count THEN first + count ELSE u

LEMMA NearestInPart ==
    ASSUME NEW u \in Nat, NEW first \in Nat, NEW count \in Nat, NEW half \in Nat, half < count
    PROVE  /\ first + half + 1 <= u =>
                Nearest(u, first + half + 1, count - half - 1) = Nearest(u, first, count)
           /\ ~(first + half + 1 <= u) => Nearest(u, first, half) = Nearest(u, first, count)
BY DEF Nearest

\* The search ends where the starts split: whatever satisfies its recursion gives,
\* for every range, the place in that range that is nearest to u.
LEMMA SearchEnds ==
    ASSUME R!WellFormed(db), NEW value \in Int, NEW u \in 0..Len(db.starts), Splits(u, value)
    PROVE  R!UpperBound(value) = u
<1> DEFINE n == Len(db.starts)
           Near(r) == Nearest(u, r[1], r[2])
           Half(r) == r[2] \div 2
           Mid(r) == r[1] + Half(r)
           Step(g, r) == IF r[2] = 0 THEN r[1]
                         ELSE IF ~(value < db.starts[Mid(r) + 1])
                              THEN g[<<Mid(r) + 1, r[2] - Half(r) - 1>>]
                              ELSE g[<<r[1], Half(r)>>]
           Solves(g) == g = [r \in R!Ranges |-> Step(g, r)]
           f == [r \in R!Ranges |-> Near(r)]
           search == CHOOSE g : Solves(g)
<1>1. /\ Starts = 1..n /\ n \in Nat /\ u \in Nat /\ u <= n
      /\ \A m \in 1..n : db.starts[m] \in Nat
      /\ \A m \in 1..n : ~(value < db.starts[m]) <=> m <= u
  BY Numbers DEF Splits
<1>2. ASSUME NEW r \in R!Ranges, r[2] # 0
      PROVE  /\ r[1] \in Nat /\ r[2] \in Nat /\ Half(r) \in Nat /\ Half(r) < r[2]
             /\ Mid(r) + 1 \in 1..n
             /\ <<Mid(r) + 1, r[2] - Half(r) - 1>> \in R!Ranges
             /\ <<r[1], Half(r)>> \in R!Ranges
  <2>1. r[1] \in Nat /\ r[2] \in Nat /\ r[1] + r[2] <= n BY DEF R!Ranges
  <2>2. Half(r) \in Nat /\ Half(r) < r[2] BY <1>2, <2>1
  <2> HIDE DEF Half
  <2> DEFINE a == r[1]
             c == r[2]
             h == Half(r)
  <2>3. /\ Mid(r) + 1 \in Nat /\ r[2] - Half(r) - 1 \in Nat
        /\ Mid(r) + 1 + (r[2] - Half(r) - 1) = r[1] + r[2]
    <3>1. a \in Nat /\ c \in Nat /\ h \in Nat /\ h < c BY <2>1, <2>2
    <3> HIDE DEF a, c, h
    <3>2. a + h + 1 \in Nat /\ c - h - 1 \in Nat /\ a + h + 1 + (c - h - 1) = a + c BY <3>1
    <3> QED BY <3>2 DEF a, c, h
  <2>4. Mid(r) + 1 \in 1..n /\ r[1] + Half(r) <= n
    <3>1. a \in Nat /\ c \in Nat /\ h \in Nat /\ h < c /\ a + c <= n BY <2>1, <2>2
    <3> HIDE DEF a, c, h
    <3>2. a + h + 1 \in 1..(a + c) /\ a + h <= a + c /\ a + c \in Nat BY <3>1
    <3>3. a + h + 1 \in 1..n /\ a + h <= n BY <1>1, <3>1, <3>2
    <3> QED BY <3>3 DEF a, c, h
  <2> HIDE DEF Mid
  <2> QED BY <2>1, <2>2, <2>3, <2>4 DEF R!Ranges
<1>3. ASSUME NEW r \in R!Ranges PROVE Step(f, r) = Near(r)
  <2>1. r[1] \in Nat /\ r[2] \in Nat BY DEF R!Ranges
  <2>2. CASE r[2] = 0 BY <1>1, <2>1, <2>2 DEF Nearest
  <2>3. CASE r[2] # 0 /\ ~(value < db.starts[Mid(r) + 1])
    <3>1. Mid(r) + 1 <= u BY <1>1, <1>2, <2>3
    <3>2. f[<<Mid(r) + 1, r[2] - Half(r) - 1>>] = Near(<<Mid(r) + 1, r[2] - Half(r) - 1>>)
      BY <1>2, <2>3
    <3>3. Half(r) \in Nat /\ Half(r) < r[2] BY <1>2, <2>3
    <3> HIDE DEF Half, f
    <3>4. Nearest(u, Mid(r) + 1, r[2] - Half(r) - 1) = Nearest(u, r[1], r[2])
      <4> DEFINE a == r[1]
                 c == r[2]
                 h == Half(r)
      <4>1. u \in Nat /\ a \in Nat /\ c \in Nat /\ h \in Nat /\ h < c /\ a + h + 1 <= u
        BY <1>1, <2>1, <3>1, <3>3
      <4> HIDE DEF a, c, h
      <4>2. Nearest(u, a + h + 1, c - h - 1) = Nearest(u, a, c) BY <4>1, NearestInPart
      <4> QED BY <4>2 DEF a, c, h
    <3>5. Near(<<Mid(r) + 1, r[2] - Half(r) - 1>>) = Near(r) BY <3>4
    <3> QED BY <2>3, <3>2, <3>5
  <2>4. CASE r[2] # 0 /\ value < db.starts[Mid(r) + 1]
    <3>1. ~(Mid(r) + 1 <= u) BY <1>1, <1>2, <2>4
    <3>2. f[<<r[1], Half(r)>>] = Near(<<r[1], Half(r)>>) BY <1>2, <2>4
    <3>3. Half(r) \in Nat /\ Half(r) < r[2] BY <1>2, <2>4
    <3> HIDE DEF Half, f
    <3>4. Near(<<r[1], Half(r)>>) = Near(r) BY <1>1, <2>1, <3>1, <3>3, NearestInPart
    <3> QED BY <2>4, <3>2, <3>4
  <2> QED BY <2>2, <2>3, <2>4
<1>4. Solves(f)
  <2> HIDE DEF Step, Near
  <2>1. [r \in R!Ranges |-> Step(f, r)] = [r \in R!Ranges |-> Near(r)] BY <1>3
  <2> QED BY <2>1
<1>5. Solves(search)
  <2> HIDE DEF Solves
  <2> QED BY <1>4
<1> HIDE DEF search
<1>6. \A r \in R!Ranges : search[r] = Step(search, r)
  <2> HIDE DEF Step
  <2> QED BY <1>5
<1>7. \A r \in R!Ranges : search[r] = Near(r)
  <2> DEFINE B == {c \in 0..n : \E r \in R!Ranges : r[2] = c /\ search[r] # Near(r)}
  <2>1. SUFFICES ASSUME B # {} PROVE FALSE
    <3> HIDE DEF Near
    <3>1. \A r \in R!Ranges : r[2] \in 0..n BY <1>1 DEF R!Ranges
    <3> QED BY <2>1, <3>1
  <2>2. PICK c \in B : \A d \in B : c <= d
    <3> HIDE DEF B
    <3>1. B \in SUBSET (0..n) BY DEF B
    <3> QED BY <1>1, <2>1, <3>1, Least
  <2>3. PICK r \in R!Ranges : r[2] = c /\ search[r] # Near(r)
    <3> HIDE DEF Near
    <3> QED BY <2>2
  <2>4. \A q \in R!Ranges : q[2] < r[2] => search[q] = Near(q)
    <3> HIDE DEF Near
    <3>1. ASSUME NEW q \in R!Ranges, q[2] < r[2], search[q] # Near(q) PROVE FALSE
      <4>1. q[2] \in 0..n /\ r[2] \in 0..n BY <1>1 DEF R!Ranges
      <4>2. q[2] \in B BY <3>1, <4>1
      <4> QED BY <2>2, <2>3, <3>1, <4>1, <4>2
    <3> QED BY <3>1
  <2>5. CASE r[2] = 0 BY <1>3, <1>6, <2>3, <2>5
  <2>6. CASE r[2] # 0
    <3>1. /\ <<Mid(r) + 1, r[2] - Half(r) - 1>> \in R!Ranges /\ <<r[1], Half(r)>> \in R!Ranges
          /\ r[2] \in Nat /\ Half(r) \in Nat /\ Half(r) < r[2]
      BY <1>2, <2>6
    <3> HIDE DEF Near, Mid, Half
    <3>2. r[2] - Half(r) - 1 < r[2] BY <3>1
    <3>3. /\ search[<<Mid(r) + 1, r[2] - Half(r) - 1>>] = f[<<Mid(r) + 1, r[2] - Half(r) - 1>>]
          /\ search[<<r[1], Half(r)>>] = f[<<r[1], Half(r)>>]
      BY <2>4, <3>1, <3>2
    <3>4. Step(search, r) = Step(f, r)
      <4> HIDE DEF f
      <4> QED BY <3>3
    <3> HIDE DEF Step
    <3> QED BY <1>3, <1>6, <2>3, <3>4
  <2> QED BY <2>5, <2>6
<1>8. <<0, n>> \in R!Ranges BY <1>1 DEF R!Ranges
<1>9. Near(<<0, n>>) = u BY <1>1 DEF Nearest
<1>10. R!UpperBound(value) = search[<<0, n>>] BY DEF R!UpperBound, search
<1> QED BY <1>7, <1>8, <1>9, <1>10

\* The member of a row's list leads back to that row, and by a map to its owner.
LEMMA ParentOf ==
    ASSUME R!WellFormed(db), NEW m \in Starts, NEW o \in TypeRows, Owns(m, o),
           NEW k \in Int, InList(m, k)
    PROVE  R!Parent(k) = o
<1>1. /\ Starts = 1..Len(db.starts) /\ Len(db.starts) \in Nat /\ db.types \in Nat
      /\ \A i \in Starts : db.starts[i] \in Nat
  BY SMTT(20), Numbers
<1>2. ASSUME NEW i \in 1..m PROVE db.starts[i] <= k + 1
  <2>1. i \in Starts /\ i <= m BY <1>1
  <2>2. db.starts[i] <= db.starts[m] BY <2>1, Monotone
  <2> QED BY <1>1, <2>1, <2>2 DEF InList
<1>3. ASSUME NEW i \in (m + 1)..Len(db.starts) PROVE k + 1 < db.starts[i]
  <2>1. i \in Starts /\ m + 1 \in Starts /\ m + 1 <= i /\ m < Len(db.starts) BY <1>1
  <2>2. db.starts[m + 1] <= db.starts[i] BY <2>1, Monotone
  <2>3. k + 1 < db.starts[m + 1] BY <1>1, <2>1 DEF InList, End
  <2>4. db.starts[m + 1] \in Nat /\ db.starts[i] \in Nat BY <1>1, <2>1
  <2> QED BY <2>2, <2>3, <2>4
<1>4. Splits(m, k + 1) BY <1>2, <1>3 DEF Splits
<1>5. R!UpperBound(k + 1) = m
  <2>1. m \in 0..Len(db.starts) /\ k + 1 \in Int BY <1>1
  <2> QED BY <1>4, <2>1, SearchEnds
<1>6. R!get_parent_row(k) = m - 1 /\ (m - 1) + 1 = m BY <1>1, <1>5 DEF R!get_parent_row
<1>7. o \in Int BY <1>1 DEF TypeRows
<1>8. CASE db.list \in R!Mapped
  <2>1. db.owners[m] = o + 1 /\ R!Parent(k) = db.owners[R!get_parent_row(k) + 1] - 1
    BY <1>8 DEF R!Parent, Owns
  <2> QED BY <1>6, <1>7, <2>1
<1>9. CASE db.list \notin R!Mapped BY <1>6, <1>7, <1>9 DEF R!Parent, Owns
<1> QED BY <1>8, <1>9

-----------------------------------------------------------------------------
(* The walk *)

\* Whether the walk is past member k of type o.
Past(o, k) == o < row \/ (pc = "members" /\ o = row /\ k < at)

WalkTypes ==
    /\ R!WellFormed(db)
    /\ row \in 0..db.types /\ at \in 0..db.size /\ last \in 0..db.size
    /\ pc \in {"types", "members", "done"}
    /\ met \in Seq(Nat \X Nat)

\* The iterator is inside of the range of the type.
IteratorOK ==
    /\ pc = "members" => /\ row \in TypeRows
                         /\ R!RangeOf(row) = <<R!RangeOf(row)[1], last>>
                         /\ R!RangeOf(row)[1] <= at /\ at <= last
    /\ pc = "done" => row = db.types

\* What was met is what the walk is past.
MetOnlyPast ==
    \A i \in DOMAIN met :
       \E o \in TypeRows, k \in 0..(db.size - 1) : met[i] = <<k, o>> /\ Meets(o, k) /\ Past(o, k)
PastIsMet ==
    \A o \in TypeRows, k \in 0..(db.size - 1) :
       Meets(o, k) /\ Past(o, k) => \E i \in DOMAIN met : met[i] = <<k, o>>
MetOnce == \A i, j \in DOMAIN met : met[i][1] = met[j][1] => i = j

WalkInv == WalkTypes /\ IteratorOK /\ MetOnlyPast /\ PastIsMet /\ MetOnce

LEMMA WalkInit == R!Init => WalkInv
<1> SUFFICES ASSUME R!Init PROVE WalkInv OBVIOUS
<1>1. R!WellFormed(db) /\ row = 0 /\ at = 0 /\ last = 0 /\ met = <<>> /\ pc = "types" BY DEF R!Init
<1>2. WalkTypes BY <1>1, Numbers DEF WalkTypes
<1>3. \A o \in TypeRows, k \in Int : ~Past(o, k) BY <1>1 DEF Past, TypeRows
<1> QED BY <1>1, <1>2, <1>3 DEF WalkInv, IteratorOK, MetOnlyPast, PastIsMet, MetOnce

\* The tables stay as they are.
LEMMA SameTables ==
    ASSUME db' = db
    PROVE /\ R!WellFormed(db)' <=> R!WellFormed(db)
          /\ TypeRows' = TypeRows
          /\ \A o, k : Meets(o, k)' <=> Meets(o, k)
          /\ \A o : R!RangeOf(o)' = R!RangeOf(o)
BY DEF R!WellFormed, TypeRows, Meets, R!RangeOf, R!MapRow, R!get_list

\* A step that neither meets a member nor passes one keeps what was met.
LEMMA KeepsMet ==
    ASSUME WalkInv, db' = db, met' = met,
           \A o \in TypeRows, k \in 0..(db.size - 1) : Meets(o, k) => (Past(o, k)' <=> Past(o, k))
    PROVE MetOnlyPast' /\ PastIsMet' /\ MetOnce'
BY SameTables DEF WalkInv, MetOnlyPast, PastIsMet, MetOnce

LEMMA EnterListWalk == ASSUME WalkInv, R!EnterList PROVE WalkInv'
<1>1. /\ pc = "types" /\ row < db.types /\ pc' = "members"
      /\ at' = R!RangeOf(row)[1] /\ last' = R!RangeOf(row)[2]
      /\ db' = db /\ row' = row /\ met' = met
  BY DEF R!EnterList
<1>2. R!WellFormed(db) /\ row \in 0..db.types /\ db.types \in Nat BY Numbers DEF WalkInv, WalkTypes
<1>3. row \in TypeRows BY <1>1, <1>2 DEF TypeRows
<1>4. R!RangeOf(row)[1] \in 0..R!RangeOf(row)[2] /\ R!RangeOf(row)[2] \in 0..db.size
  BY <1>2, <1>3, RangeInTable
<1>5. R!RangeOf(row) = <<R!RangeOf(row)[1], R!RangeOf(row)[2]>>
  <2>1. CASE \E m \in Starts : Owns(m, row) BY <1>2, <1>3, <2>1, RangeOfOwner
  <2>2. CASE ~\E m \in Starts : Owns(m, row) BY <1>2, <1>3, <2>2, RangeOfOther
  <2> QED BY <2>1, <2>2
<1>6. WalkTypes' BY <1>1, <1>2, <1>4, SameTables, Numbers DEF WalkInv, WalkTypes
<1>7. R!RangeOf(row)' = R!RangeOf(row) BY <1>1 DEF R!RangeOf, R!MapRow, R!get_list
<1>8. IteratorOK' BY <1>1, <1>3, <1>4, <1>5, <1>7, SameTables DEF IteratorOK
<1>9. ASSUME NEW o \in TypeRows, NEW k \in 0..(db.size - 1), Meets(o, k)
      PROVE Past(o, k)' <=> Past(o, k)
  BY <1>1, <1>2, <1>4, <1>9 DEF Past, Meets, TypeRows
<1> QED BY <1>1, <1>6, <1>8, <1>9, KeepsMet DEF WalkInv

LEMMA LeaveListWalk == ASSUME WalkInv, R!LeaveList PROVE WalkInv'
<1>1. /\ pc = "members" /\ at = last /\ row' = row + 1 /\ pc' = "types"
      /\ db' = db /\ at' = at /\ last' = last /\ met' = met
  BY DEF R!LeaveList
<1>2. R!WellFormed(db) /\ row \in 0..db.types /\ db.types \in Nat BY Numbers DEF WalkInv, WalkTypes
<1>3. row \in TypeRows /\ R!RangeOf(row)[2] = last BY <1>1 DEF WalkInv, IteratorOK
<1>4. WalkTypes' BY <1>1, <1>2, <1>3, SameTables DEF WalkInv, WalkTypes, TypeRows
<1>5. IteratorOK' BY <1>1 DEF IteratorOK
<1>6. ASSUME NEW o \in TypeRows, NEW k \in 0..(db.size - 1), Meets(o, k)
      PROVE Past(o, k)' <=> Past(o, k)
  BY <1>1, <1>2, <1>3, <1>6 DEF Past, Meets, TypeRows
<1> QED BY <1>1, <1>4, <1>5, <1>6, KeepsMet DEF WalkInv

LEMMA FinishWalk == ASSUME WalkInv, R!Finish PROVE WalkInv'
<1>1. /\ pc = "types" /\ row = db.types /\ pc' = "done"
      /\ db' = db /\ row' = row /\ at' = at /\ last' = last /\ met' = met
  BY DEF R!Finish
<1>2. WalkTypes' BY <1>1, SameTables DEF WalkInv, WalkTypes
<1>3. IteratorOK' BY <1>1 DEF IteratorOK
<1>4. \A o \in TypeRows, k \in 0..(db.size - 1) : Past(o, k)' <=> Past(o, k) BY <1>1 DEF Past
<1> QED BY <1>1, <1>2, <1>3, <1>4, KeepsMet DEF WalkInv

\* The iterator is at a member of this type and so of no other: it was not met.
LEMMA MemberWalk == ASSUME WalkInv, R!Member PROVE WalkInv'
<1>1. /\ R!WellFormed(db) /\ row \in 0..db.types /\ at \in 0..db.size /\ last \in 0..db.size
      /\ met \in Seq(Nat \X Nat) /\ db.size \in Nat /\ db.types \in Nat
  BY Numbers DEF WalkInv, WalkTypes
<1>2. pc = "members" /\ at # last BY DEF R!Member
<1>3. row \in TypeRows /\ R!RangeOf(row) = <<R!RangeOf(row)[1], last>> /\ R!RangeOf(row)[1] <= at /\ at < last
  BY <1>1, <1>2 DEF WalkInv, IteratorOK
<1>4. /\ met' = Append(met, <<at, row>>) /\ at' = at + 1 /\ pc' = pc
      /\ db' = db /\ row' = row /\ last' = last
  BY <1>1, <1>3 DEF R!Member
<1>5. Meets(row, at) /\ at \in 0..(db.size - 1) /\ row \in Nat BY <1>1, <1>3 DEF Meets
<1>6. /\ met' \in Seq(Nat \X Nat) /\ Len(met) \in Nat
      /\ DOMAIN met = 1..Len(met) /\ DOMAIN met' = 1..(Len(met) + 1)
      /\ met'[Len(met) + 1] = <<at, row>> /\ \A i \in DOMAIN met : met'[i] = met[i]
  BY SMTT(20), <1>1, <1>4, <1>5
<1>7. WalkTypes' BY <1>1, <1>2, <1>4, <1>5, <1>6, SameTables DEF WalkTypes
<1>8. IteratorOK'
  <2>1. R!RangeOf(row)' = R!RangeOf(row) BY <1>4 DEF R!RangeOf, R!MapRow, R!get_list
  <2>2. row' \in TypeRows' BY <1>3, <1>4, SameTables
  <2>3. R!RangeOf(row)' = <<R!RangeOf(row)'[1], last'>> BY <1>3, <1>4, <2>1
  <2>4. R!RangeOf(row)'[1] <= at' /\ at' <= last'
    <3>1. R!RangeOf(row)[1] \in Int BY <1>1, <1>3, RangeInTable
    <3> QED BY <1>1, <1>3, <1>4, <2>1, <3>1
  <2>5. pc' # "done" BY <1>2, <1>4
  <2> QED BY <2>2, <2>3, <2>4, <2>5 DEF IteratorOK
<1>9. \A o \in TypeRows, k \in 0..(db.size - 1) :
         Past(o, k)' <=> (Past(o, k) \/ (o = row /\ k = at))
  BY <1>1, <1>2, <1>4 DEF Past, TypeRows
<1>10. MetOnlyPast'
  <2>1. ASSUME NEW i \in DOMAIN met
        PROVE \E o \in TypeRows, k \in 0..(db.size - 1) :
                 met'[i] = <<k, o>> /\ Meets(o, k) /\ Past(o, k)'
    BY <1>6, <1>9 DEF WalkInv, MetOnlyPast
  <2>2. \E o \in TypeRows, k \in 0..(db.size - 1) :
           met'[Len(met) + 1] = <<k, o>> /\ Meets(o, k) /\ Past(o, k)'
    <3>1. PICK o \in TypeRows, k \in 0..(db.size - 1) : o = row /\ k = at BY <1>3, <1>5
    <3>2. Meets(o, k) /\ Past(o, k)' BY <1>5, <1>9, <3>1
    <3> QED BY <1>6, <3>1, <3>2
  <2>3. ASSUME NEW i \in DOMAIN met'
        PROVE \E o \in TypeRows, k \in 0..(db.size - 1) :
                 met'[i] = <<k, o>> /\ Meets(o, k) /\ Past(o, k)'
    <3>1. i \in DOMAIN met \/ i = Len(met) + 1 BY <1>6
    <3> QED BY <2>1, <2>2, <3>1
  <2> QED BY <1>4, <2>3, SameTables DEF MetOnlyPast
<1>11. PastIsMet'
  <2>1. ASSUME NEW o \in TypeRows, NEW k \in 0..(db.size - 1), Meets(o, k), Past(o, k)'
        PROVE \E i \in DOMAIN met' : met'[i] = <<k, o>>
    <3>1. CASE Past(o, k)
      <4>1. PICK i \in DOMAIN met : met[i] = <<k, o>> BY <2>1, <3>1 DEF WalkInv, PastIsMet
      <4>2. i \in DOMAIN met' /\ met'[i] = <<k, o>> BY <1>6, <4>1
      <4> QED BY <4>2
    <3>2. CASE o = row /\ k = at BY <1>6, <3>2
    <3> QED BY <1>9, <2>1, <3>1, <3>2
  <2> QED BY <1>4, <2>1, SameTables DEF PastIsMet
<1>12. MetOnce'
  <2>1. ASSUME NEW i \in DOMAIN met, met[i][1] = at PROVE FALSE
    <3>1. PICK o \in TypeRows, k \in 0..(db.size - 1) : met[i] = <<k, o>> /\ Meets(o, k) /\ Past(o, k)
      BY DEF WalkInv, MetOnlyPast
    <3>2. k = at BY <2>1, <3>1
    <3>3. o = row BY <1>1, <1>3, <1>5, <3>1, <3>2, MeetsOnce
    <3> QED BY <1>1, <3>1, <3>2, <3>3 DEF Past
  <2>2. met'[Len(met) + 1][1] = at BY <1>6
  <2>3. \A i, j \in DOMAIN met : met[i][1] = met[j][1] => i = j BY DEF WalkInv, MetOnce
  <2>4. ASSUME NEW i \in DOMAIN met', NEW j \in DOMAIN met', met'[i][1] = met'[j][1] PROVE i = j
    <3>1. i \in DOMAIN met \/ i = Len(met) + 1 BY <1>6
    <3>2. j \in DOMAIN met \/ j = Len(met) + 1 BY <1>6
    <3> QED BY <1>6, <2>1, <2>2, <2>3, <2>4, <3>1, <3>2
  <2> QED BY <2>4 DEF MetOnce
<1> QED BY <1>7, <1>8, <1>10, <1>11, <1>12 DEF WalkInv

LEMMA NextWalk == ASSUME WalkInv, [R!Next]_(R!vars) PROVE WalkInv'
<1>1. CASE UNCHANGED R!vars
  <2>1. /\ db' = db /\ row' = row /\ at' = at /\ last' = last /\ met' = met /\ pc' = pc
    BY <1>1 DEF R!vars
  <2>2. WalkTypes' BY <2>1, SameTables DEF WalkInv, WalkTypes
  <2>3. R!RangeOf(row)' = R!RangeOf(row) BY <2>1 DEF R!RangeOf, R!MapRow, R!get_list
  <2>4. IteratorOK' BY <2>1, <2>3, SameTables DEF WalkInv, IteratorOK
  <2>5. \A o \in TypeRows, k \in 0..(db.size - 1) : Past(o, k)' <=> Past(o, k) BY <2>1 DEF Past
  <2> QED BY <2>1, <2>2, <2>4, <2>5, KeepsMet DEF WalkInv
<1>2. CASE R!EnterList BY <1>2, EnterListWalk
<1>3. CASE R!Member BY <1>3, MemberWalk
<1>4. CASE R!LeaveList BY <1>4, LeaveListWalk
<1>5. CASE R!Finish BY <1>5, FinishWalk
<1>6. CASE R!Done BY <1>1, <1>6 DEF R!Done
<1> QED BY <1>1, <1>2, <1>3, <1>4, <1>5, <1>6 DEF R!Next

\* What the invariant says of what the walk meets.
LEMMA WalkMeets == ASSUME WalkInv PROVE R!TypeOK /\ R!EachMemberOnce
<1>1. /\ R!WellFormed(db) /\ db.size \in Nat /\ db.types \in Nat
      /\ row \in 0..db.types /\ at \in 0..db.size /\ last \in 0..db.size
  BY Numbers DEF WalkInv, WalkTypes
<1>2. \A i \in DOMAIN met : met[i] \in (0..(db.size - 1)) \X (0..(db.types - 1))
  BY DEF WalkInv, MetOnlyPast, TypeRows
<1>3. R!TypeOK BY <1>1, <1>2 DEF WalkInv, WalkTypes, R!TypeOK
<1>4. ASSUME pc = "done", NEW k \in 0..(db.size - 1)
      PROVE \E i \in DOMAIN met : met[i][1] = k
  <2>1. PICK o \in TypeRows : Meets(o, k) BY <1>1, MeetsAll
  <2>2. Past(o, k) BY <1>1, <1>4, <2>1 DEF Past, TypeRows, WalkInv, IteratorOK
  <2> QED BY <2>1, <2>2 DEF WalkInv, PastIsMet
<1>5. pc = "done" => {met[i][1] : i \in DOMAIN met} = 0..(db.size - 1) BY <1>2, <1>4
<1> QED BY <1>3, <1>5 DEF WalkInv, MetOnce, R!EachMemberOnce

\* What was met leads back to where it was met.
LEMMA WalkLeadsBack == ASSUME WalkInv PROVE R!ParentIsOwner
<1> SUFFICES ASSUME NEW i \in DOMAIN met PROVE R!Parent(met[i][1]) = met[i][2]
  BY DEF R!ParentIsOwner
<1>1. R!WellFormed(db) /\ db.size \in Nat BY Numbers DEF WalkInv, WalkTypes
<1>2. PICK o \in TypeRows, k \in 0..(db.size - 1) :
             met[i] = <<k, o>> /\ Meets(o, k) /\ Past(o, k)
  BY DEF WalkInv, MetOnlyPast
<1>3. k \in Int BY <1>1
<1>4. PICK m \in Starts : Owns(m, o) /\ InList(m, k) BY <1>1, <1>2, <1>3, MetInList
<1>5. R!Parent(k) = o BY <1>1, <1>3, <1>4, ParentOf
<1> QED BY <1>2, <1>5

LEMMA WalkAlone ==
    ASSUME part = "rows" => WalkInv, [ReadersNext]_readersVars
    PROVE  part' = "rows" => WalkInv'
<1>1. part' = part BY DEF ReadersNext, readersVars
<1>2. CASE part = "rows"
  <2>1. [R!Next]_(R!vars) BY <1>2 DEF ReadersNext, readersVars, tableVars, rowVars, R!vars
  <2> QED BY <1>2, <2>1, NextWalk
<1> QED BY <1>1, <1>2

LEMMA WalkStarts == ASSUME ReadersInit PROVE part = "rows" => WalkInv
BY WalkInit DEF ReadersInit

-----------------------------------------------------------------------------
(* The theorems *)

\* For any rules and any types: the longest prefix of a type's full name decides
\* whether the type is projected, an exclude before an include of the same
\* text, in whatever order the rules are given and std::sort leaves them.
THEOREM PrefixDecides == ReadersSpec => []LongestPrefixDecides
<1> DEFINE Inv == part = "filter" => FilterInv
<1>1. ReadersInit => Inv BY FilterStarts
<1>2. Inv /\ [ReadersNext]_readersVars => Inv' BY FilterAlone
<1>3. Inv => LongestPrefixDecides
  BY FirstMatchDecides DEF LongestPrefixDecides, FilterInv
<1> QED BY <1>1, <1>2, <1>3, PTL DEF ReadersSpec

\* For tables of any size, direct or by way of a map, whose lists may be empty:
\* the walk never reads a row that is not there, meets no member twice, and has
\* met every member when it is done.
THEOREM MembersMetOnce == R!Spec => [](R!TypeOK /\ R!EachMemberOnce)
<1>1. WalkInv /\ [R!Next]_(R!vars) => WalkInv' BY NextWalk
<1>2. WalkInv => R!TypeOK /\ R!EachMemberOnce BY WalkMeets
<1> QED BY <1>1, <1>2, WalkInit, PTL DEF R!Spec

\* For tables of any size: the search for the parent of a member that was met
\* ends at the row in whose list it was met, however many rows behind and before
\* it have empty lists that share its start.
THEOREM MembersFindTheirOwner == R!Spec => []R!ParentIsOwner
<1>1. WalkInv /\ [R!Next]_(R!vars) => WalkInv' BY NextWalk
<1>2. WalkInv => R!ParentIsOwner BY WalkLeadsBack
<1> QED BY <1>1, <1>2, WalkInit, PTL DEF R!Spec

\* For tables of any size: each row of a list is met once, for one owner, and
\* the search from the member back ends at that owner.
THEOREM RowsAreOwned == ReadersSpec => []RowsHaveOneOwner
<1> DEFINE Inv == part = "rows" => WalkInv
<1>1. ReadersInit => Inv BY WalkStarts
<1>2. Inv /\ [ReadersNext]_readersVars => Inv' BY WalkAlone
<1>3. Inv => RowsHaveOneOwner
  BY WalkMeets, WalkLeadsBack DEF RowsHaveOneOwner
<1> QED BY <1>1, <1>2, <1>3, PTL DEF ReadersSpec

\* For any number of files of any size: the definition that is found of a name is
\* that of the first file and of the first row in it, it is in the one list its
\* category names until remove_type takes it out, and a reference to a nested type
\* never mixes two definitions of its enclosing type.
THEOREM FirstDefinitionKept == ReadersSpec => []CacheKeepsFirst
<1> DEFINE Inv == part = "cache" => CacheInv
<1>1. ReadersInit => Inv BY CacheStarts
<1>2. Inv /\ [ReadersNext]_readersVars => Inv' BY CacheAlone
<1>3. Inv => CacheKeepsFirst
  BY CacheTyped, FirstIsFound, ListedOnce, SameRoot DEF CacheKeepsFirst, CacheInv
<1> QED BY <1>1, <1>2, <1>3, PTL DEF ReadersSpec

-----------------------------------------------------------------------------
(* The tables of a file *)

LEMMA Powers ==
    /\ 2^1 = 2 /\ 2^2 = 4 /\ 2^3 = 8 /\ 2^5 = 32
    /\ 2^11 = 2048 /\ 2^13 = 8192 /\ 2^14 = 16384 /\ 2^15 = 32768 /\ 2^16 = 65536
OBVIOUS

\* The recursion has one solution, which is that of its first 32 values.
HalvingsIs ==
    [n \in 0..31 |->
       IF n < 2 THEN 1 ELSE IF n < 4 THEN 2 ELSE IF n < 8 THEN 3 ELSE IF n < 16 THEN 4 ELSE 5]

LEMMA HalvingsValues ==
    \A n \in 0..31 : Layout!Halvings[n] = HalvingsIs[n]
<1> DEFINE P(f) == f = [n \in 0..31 |-> IF n \div 2 = 0 THEN 1 ELSE 1 + f[n \div 2]]
<1>1. P(HalvingsIs)
  <2>1. \A n \in 0..31 : HalvingsIs[n] = IF n \div 2 = 0 THEN 1 ELSE 1 + HalvingsIs[n \div 2]
    BY DEF HalvingsIs
  <2>2. HalvingsIs = [n \in 0..31 |-> HalvingsIs[n]] BY DEF HalvingsIs
  <2> QED BY <2>1, <2>2
<1>2. Layout!Halvings = CHOOSE f : P(f) BY Zenon DEF Layout!Halvings
<1>3. P(Layout!Halvings)
  <2> HIDE DEF P
  <2> QED BY <1>1, <1>2
<1> DEFINE H == Layout!Halvings
<1>4. \A n \in 0..31 : H[n] = IF n \div 2 = 0 THEN 1 ELSE 1 + H[n \div 2]
  <2> HIDE DEF H
  <2>1. P(H) BY <1>3 DEF H
  <2> QED BY <2>1
<1> HIDE DEF H
<1>5. \A n \in 0..1 : H[n] = 1 BY <1>4
<1>6. \A n \in 2..3 : H[n] = 2 BY <1>4, <1>5
<1>7. \A n \in 4..7 : H[n] = 3 BY <1>4, <1>6
<1>8. \A n \in 8..15 : H[n] = 4 BY <1>4, <1>7
<1>9. \A n \in 16..31 : H[n] = 5 BY <1>4, <1>8
<1> QED BY <1>5, <1>6, <1>7, <1>8, <1>9 DEF HalvingsIs, H

-----------------------------------------------------------------------------
\* The columns table by table.
LEMMA ColumnsAre ==
    /\ Layout!Columns["Assembly"] =
         <<4, 8, 4, Layout!blob_index_size, Layout!string_index_size, Layout!string_index_size>>
    /\ Layout!Columns["AssemblyOS"] = <<4, 4, 4>>
    /\ Layout!Columns["AssemblyProcessor"] = <<4>>
    /\ Layout!Columns["AssemblyRef"] =
         <<8, 4, Layout!blob_index_size, Layout!string_index_size, Layout!string_index_size,
           Layout!blob_index_size>>
    /\ Layout!Columns["AssemblyRefOS"] = <<4, 4, 4, Layout!index_size("AssemblyRef")>>
    /\ Layout!Columns["AssemblyRefProcessor"] = <<4, Layout!index_size("AssemblyRef")>>
    /\ Layout!Columns["ClassLayout"] = <<2, 4, Layout!index_size("TypeDef")>>
    /\ Layout!Columns["Constant"] = <<2, Layout!Composite.HasConstant, Layout!blob_index_size>>
    /\ Layout!Columns["CustomAttribute"] =
         <<Layout!Composite.HasCustomAttribute, Layout!Composite.CustomAttributeType,
           Layout!blob_index_size>>
    /\ Layout!Columns["DeclSecurity"] =
         <<2, Layout!Composite.HasDeclSecurity, Layout!blob_index_size>>
    /\ Layout!Columns["EventMap"] = <<Layout!index_size("TypeDef"), Layout!index_size("Event")>>
    /\ Layout!Columns["Event"] = <<2, Layout!string_index_size, Layout!Composite.TypeDefOrRef>>
    /\ Layout!Columns["ExportedType"] =
         <<4, 4, Layout!string_index_size, Layout!string_index_size,
           Layout!Composite.Implementation>>
    /\ Layout!Columns["Field"] = <<2, Layout!string_index_size, Layout!blob_index_size>>
    /\ Layout!Columns["FieldLayout"] = <<4, Layout!index_size("Field")>>
    /\ Layout!Columns["FieldMarshal"] = <<Layout!Composite.HasFieldMarshal, Layout!blob_index_size>>
    /\ Layout!Columns["FieldRVA"] = <<4, Layout!index_size("Field")>>
    /\ Layout!Columns["File"] = <<4, Layout!string_index_size, Layout!blob_index_size>>
    /\ Layout!Columns["GenericParam"] =
         <<2, 2, Layout!Composite.TypeOrMethodDef, Layout!string_index_size>>
    /\ Layout!Columns["GenericParamConstraint"] =
         <<Layout!index_size("GenericParam"), Layout!Composite.TypeDefOrRef>>
    /\ Layout!Columns["ImplMap"] =
         <<2, Layout!Composite.MemberForwarded, Layout!string_index_size,
           Layout!index_size("ModuleRef")>>
    /\ Layout!Columns["InterfaceImpl"] =
         <<Layout!index_size("TypeDef"), Layout!Composite.TypeDefOrRef>>
    /\ Layout!Columns["ManifestResource"] =
         <<4, 4, Layout!string_index_size, Layout!Composite.Implementation>>
    /\ Layout!Columns["MemberRef"] =
         <<Layout!Composite.MemberRefParent, Layout!string_index_size, Layout!blob_index_size>>
    /\ Layout!Columns["MethodDef"] =
         <<4, 2, 2, Layout!string_index_size, Layout!blob_index_size, Layout!index_size("Param")>>
    /\ Layout!Columns["MethodImpl"] =
         <<Layout!index_size("TypeDef"), Layout!Composite.MethodDefOrRef,
           Layout!Composite.MethodDefOrRef>>
    /\ Layout!Columns["MethodSemantics"] =
         <<2, Layout!index_size("MethodDef"), Layout!Composite.HasSemantics>>
    /\ Layout!Columns["MethodSpec"] = <<Layout!Composite.MethodDefOrRef, Layout!blob_index_size>>
    /\ Layout!Columns["Module"] =
         <<2, Layout!string_index_size, Layout!guid_index_size, Layout!guid_index_size,
           Layout!guid_index_size>>
    /\ Layout!Columns["ModuleRef"] = <<Layout!string_index_size>>
    /\ Layout!Columns["NestedClass"] =
         <<Layout!index_size("TypeDef"), Layout!index_size("TypeDef")>>
    /\ Layout!Columns["Param"] = <<2, 2, Layout!string_index_size>>
    /\ Layout!Columns["Property"] = <<2, Layout!string_index_size, Layout!blob_index_size>>
    /\ Layout!Columns["PropertyMap"] =
         <<Layout!index_size("TypeDef"), Layout!index_size("Property")>>
    /\ Layout!Columns["StandAloneSig"] = <<Layout!blob_index_size>>
    /\ Layout!Columns["TypeDef"] =
         <<4, Layout!string_index_size, Layout!string_index_size, Layout!Composite.TypeDefOrRef,
           Layout!index_size("Field"), Layout!index_size("MethodDef")>>
    /\ Layout!Columns["TypeRef"] =
         <<Layout!Composite.ResolutionScope, Layout!string_index_size, Layout!string_index_size>>
    /\ Layout!Columns["TypeSpec"] = <<Layout!blob_index_size>>
BY DEF Layout!Columns

LEMMA TablesHaveColumns == DOMAIN Layout!Columns = Layout!Table
BY DEF Layout!Columns, Layout!Table, Layout!Number

LEMMA CodedNames ==
    Layout!Coded = {"TypeDefOrRef", "HasConstant", "HasCustomAttribute", "HasFieldMarshal",
                    "HasDeclSecurity", "MemberRefParent", "HasSemantics", "MethodDefOrRef",
                    "MemberForwarded", "Implementation", "CustomAttributeType",
                    "ResolutionScope", "TypeOrMethodDef"}
BY DEF Layout!Coded, Layout!Enumerators

\* The sizes of coded indexes one by one.
LEMMA CompositeIs ==
    /\ Layout!Composite["TypeDefOrRef"] = Layout!composite_index_size(
         <<"TypeDef", "TypeRef", "TypeSpec">>)
    /\ Layout!Composite["HasConstant"] = Layout!composite_index_size(
         <<"Field", "Param", "Property">>)
    /\ Layout!Composite["HasCustomAttribute"] = Layout!composite_index_size(
         <<"MethodDef", "Field", "TypeRef", "TypeDef", "Param", "InterfaceImpl", "MemberRef",
         "Module", "Property", "Event", "StandAloneSig", "ModuleRef", "TypeSpec", "Assembly",
         "AssemblyRef", "File", "ExportedType", "ManifestResource", "GenericParam",
         "GenericParamConstraint", "MethodSpec">>)
    /\ Layout!Composite["HasFieldMarshal"] = Layout!composite_index_size(<<"Field", "Param">>)
    /\ Layout!Composite["HasDeclSecurity"] = Layout!composite_index_size(
         <<"TypeDef", "MethodDef", "Assembly">>)
    /\ Layout!Composite["MemberRefParent"] = Layout!composite_index_size(
         <<"TypeDef", "TypeRef", "ModuleRef", "MethodDef", "TypeSpec">>)
    /\ Layout!Composite["HasSemantics"] = Layout!composite_index_size(<<"Event", "Property">>)
    /\ Layout!Composite["MethodDefOrRef"] = Layout!composite_index_size(
         <<"MethodDef", "MemberRef">>)
    /\ Layout!Composite["MemberForwarded"] = Layout!composite_index_size(<<"Field", "MethodDef">>)
    /\ Layout!Composite["Implementation"] = Layout!composite_index_size(
         <<"File", "AssemblyRef", "ExportedType">>)
    /\ Layout!Composite["CustomAttributeType"] = Layout!composite_index_size(
         <<"MethodDef", "MemberRef", "", "", "">>)
    /\ Layout!Composite["ResolutionScope"] = Layout!composite_index_size(
         <<"Module", "ModuleRef", "AssemblyRef", "TypeRef">>)
    /\ Layout!Composite["TypeOrMethodDef"] = Layout!composite_index_size(
         <<"TypeDef", "MethodDef">>)
BY DEF Layout!Composite

\* Every index takes 2 or 4 bytes.
LEMMA IndexesWide ==
    /\ Layout!string_index_size \in {2, 4} /\ Layout!guid_index_size \in {2, 4}
    /\ Layout!blob_index_size \in {2, 4}
    /\ \A t : Layout!index_size(t) \in {2, 4}
    /\ \A c \in Layout!Coded : Layout!Composite[c] \in {2, 4}
<1>1. /\ Layout!string_index_size \in {2, 4} /\ Layout!guid_index_size \in {2, 4}
      /\ Layout!blob_index_size \in {2, 4} /\ \A t : Layout!index_size(t) \in {2, 4}
  BY DEF Layout!string_index_size, Layout!guid_index_size, Layout!blob_index_size, Layout!index_size
<1>2. \A s : Layout!composite_index_size(s) \in {2, 4} BY DEF Layout!composite_index_size
<1>3. \A c \in Layout!Coded : Layout!Composite[c] \in {2, 4}
  <2> HIDE DEF Layout!composite_index_size
  <2> QED BY <1>2, CompositeIs, CodedNames
<1> QED BY <1>1, <1>3

LEMMA TableNames ==
    Layout!Table = {"Assembly", "AssemblyOS", "AssemblyProcessor", "AssemblyRef",
                    "AssemblyRefOS", "AssemblyRefProcessor", "ClassLayout", "Constant",
                    "CustomAttribute", "DeclSecurity", "EventMap", "Event", "ExportedType",
                    "Field", "FieldLayout", "FieldMarshal", "FieldRVA", "File",
                    "GenericParam", "GenericParamConstraint", "ImplMap", "InterfaceImpl",
                    "ManifestResource", "MemberRef", "MethodDef", "MethodImpl",
                    "MethodSemantics", "MethodSpec", "Module", "ModuleRef", "NestedClass",
                    "Param", "Property", "PropertyMap", "StandAloneSig", "TypeDef",
                    "TypeRef", "TypeSpec"}
BY DEF Layout!Table, Layout!Number

\* One to six columns of sizes that get_value can read.
Fit(s) == s \in Seq({2, 4, 8}) /\ Len(s) \in 1..6

LEMMA ColumnsFit == \A t \in Layout!Table : Fit(Layout!Columns[t])
<1> USE IndexesWide DEF Layout!Coded, Layout!Enumerators
<1>1. /\ Fit(Layout!Columns["Assembly"])
      /\ Fit(Layout!Columns["AssemblyOS"])
      /\ Fit(Layout!Columns["AssemblyProcessor"])
      /\ Fit(Layout!Columns["AssemblyRef"])
      /\ Fit(Layout!Columns["AssemblyRefOS"])
      /\ Fit(Layout!Columns["AssemblyRefProcessor"])
  BY ColumnsAre DEF Fit
<1>2. /\ Fit(Layout!Columns["ClassLayout"])
      /\ Fit(Layout!Columns["Constant"])
      /\ Fit(Layout!Columns["CustomAttribute"])
      /\ Fit(Layout!Columns["DeclSecurity"])
      /\ Fit(Layout!Columns["EventMap"])
      /\ Fit(Layout!Columns["Event"])
  BY ColumnsAre DEF Fit
<1>3. /\ Fit(Layout!Columns["ExportedType"])
      /\ Fit(Layout!Columns["Field"])
      /\ Fit(Layout!Columns["FieldLayout"])
      /\ Fit(Layout!Columns["FieldMarshal"])
      /\ Fit(Layout!Columns["FieldRVA"])
      /\ Fit(Layout!Columns["File"])
  BY ColumnsAre DEF Fit
<1>4. /\ Fit(Layout!Columns["GenericParam"])
      /\ Fit(Layout!Columns["GenericParamConstraint"])
      /\ Fit(Layout!Columns["ImplMap"])
      /\ Fit(Layout!Columns["InterfaceImpl"])
      /\ Fit(Layout!Columns["ManifestResource"])
      /\ Fit(Layout!Columns["MemberRef"])
  BY ColumnsAre DEF Fit
<1>5. /\ Fit(Layout!Columns["MethodDef"])
      /\ Fit(Layout!Columns["MethodImpl"])
      /\ Fit(Layout!Columns["MethodSemantics"])
      /\ Fit(Layout!Columns["MethodSpec"])
      /\ Fit(Layout!Columns["Module"])
      /\ Fit(Layout!Columns["ModuleRef"])
  BY ColumnsAre DEF Fit
<1>6. /\ Fit(Layout!Columns["NestedClass"])
      /\ Fit(Layout!Columns["Param"])
      /\ Fit(Layout!Columns["Property"])
      /\ Fit(Layout!Columns["PropertyMap"])
      /\ Fit(Layout!Columns["StandAloneSig"])
      /\ Fit(Layout!Columns["TypeDef"])
  BY ColumnsAre DEF Fit
<1>7. /\ Fit(Layout!Columns["TypeRef"])
      /\ Fit(Layout!Columns["TypeSpec"])
  BY ColumnsAre DEF Fit
<1> HIDE IndexesWide DEF Layout!Coded, Layout!Enumerators
<1> QED BY TableNames, <1>1, <1>2, <1>3, <1>4, <1>5, <1>6, <1>7

-----------------------------------------------------------------------------
\* A coded index has this many values for a row, and is narrow below this many rows.
Step(b) == 2^b
Limit(b) == 2^(16 - b)

LEMMA Limits ==
    ASSUME NEW b \in {1, 2, 3, 5}
    PROVE  \/ Step(b) = 2 /\ Limit(b) = 32768
           \/ Step(b) = 4 /\ Limit(b) = 16384
           \/ Step(b) = 8 /\ Limit(b) = 8192
           \/ Step(b) = 32 /\ Limit(b) = 2048
<1>1. CASE b = 1 BY <1>1, Powers DEF Step, Limit
<1>2. CASE b = 2 BY <1>2, Powers DEF Step, Limit
<1>3. CASE b = 3 BY <1>3, Powers DEF Step, Limit
<1>4. CASE b = 5 BY <1>4, Powers DEF Step, Limit
<1> QED BY <1>1, <1>2, <1>3, <1>4

\* The tag of a table is its place among the enumerators, and the bits have room for it.
LEMMA TagsFit ==
    ASSUME NEW c \in Layout!Coded
    PROVE  /\ Layout!coded_index_bits[c] \in {1, 2, 3, 5}
           /\ 2^Layout!coded_index_bits[c] \in {2, 4, 8, 32}
           /\ Len(Layout!Enumerators[c]) \in 1..2^Layout!coded_index_bits[c]
           /\ DOMAIN Layout!Enumerators[c] = 1..Len(Layout!Enumerators[c])
<1>1. CASE c = "TypeDefOrRef"
  <2>1. Layout!coded_index_bits[c] = 2 BY <1>1 DEF Layout!coded_index_bits
  <2>2. Len(Layout!Enumerators[c]) = 3 /\ DOMAIN Layout!Enumerators[c] = 1..3
    BY <1>1 DEF Layout!Enumerators
  <2> QED BY <2>1, <2>2, Powers
<1>2. CASE c = "HasConstant"
  <2>1. Layout!coded_index_bits[c] = 2 BY <1>2 DEF Layout!coded_index_bits
  <2>2. Len(Layout!Enumerators[c]) = 3 /\ DOMAIN Layout!Enumerators[c] = 1..3
    BY <1>2 DEF Layout!Enumerators
  <2> QED BY <2>1, <2>2, Powers
<1>3. CASE c = "HasCustomAttribute"
  <2>1. Layout!coded_index_bits[c] = 5 BY <1>3 DEF Layout!coded_index_bits
  <2>2. Len(Layout!Enumerators[c]) = 22 /\ DOMAIN Layout!Enumerators[c] = 1..22
    BY <1>3 DEF Layout!Enumerators
  <2> QED BY <2>1, <2>2, Powers
<1>4. CASE c = "HasFieldMarshal"
  <2>1. Layout!coded_index_bits[c] = 1 BY <1>4 DEF Layout!coded_index_bits
  <2>2. Len(Layout!Enumerators[c]) = 2 /\ DOMAIN Layout!Enumerators[c] = 1..2
    BY <1>4 DEF Layout!Enumerators
  <2> QED BY <2>1, <2>2, Powers
<1>5. CASE c = "HasDeclSecurity"
  <2>1. Layout!coded_index_bits[c] = 2 BY <1>5 DEF Layout!coded_index_bits
  <2>2. Len(Layout!Enumerators[c]) = 3 /\ DOMAIN Layout!Enumerators[c] = 1..3
    BY <1>5 DEF Layout!Enumerators
  <2> QED BY <2>1, <2>2, Powers
<1>6. CASE c = "MemberRefParent"
  <2>1. Layout!coded_index_bits[c] = 3 BY <1>6 DEF Layout!coded_index_bits
  <2>2. Len(Layout!Enumerators[c]) = 5 /\ DOMAIN Layout!Enumerators[c] = 1..5
    BY <1>6 DEF Layout!Enumerators
  <2> QED BY <2>1, <2>2, Powers
<1>7. CASE c = "HasSemantics"
  <2>1. Layout!coded_index_bits[c] = 1 BY <1>7 DEF Layout!coded_index_bits
  <2>2. Len(Layout!Enumerators[c]) = 2 /\ DOMAIN Layout!Enumerators[c] = 1..2
    BY <1>7 DEF Layout!Enumerators
  <2> QED BY <2>1, <2>2, Powers
<1>8. CASE c = "MethodDefOrRef"
  <2>1. Layout!coded_index_bits[c] = 1 BY <1>8 DEF Layout!coded_index_bits
  <2>2. Len(Layout!Enumerators[c]) = 2 /\ DOMAIN Layout!Enumerators[c] = 1..2
    BY <1>8 DEF Layout!Enumerators
  <2> QED BY <2>1, <2>2, Powers
<1>9. CASE c = "MemberForwarded"
  <2>1. Layout!coded_index_bits[c] = 1 BY <1>9 DEF Layout!coded_index_bits
  <2>2. Len(Layout!Enumerators[c]) = 2 /\ DOMAIN Layout!Enumerators[c] = 1..2
    BY <1>9 DEF Layout!Enumerators
  <2> QED BY <2>1, <2>2, Powers
<1>10. CASE c = "Implementation"
  <2>1. Layout!coded_index_bits[c] = 2 BY <1>10 DEF Layout!coded_index_bits
  <2>2. Len(Layout!Enumerators[c]) = 3 /\ DOMAIN Layout!Enumerators[c] = 1..3
    BY <1>10 DEF Layout!Enumerators
  <2> QED BY <2>1, <2>2, Powers
<1>11. CASE c = "CustomAttributeType"
  <2>1. Layout!coded_index_bits[c] = 3 BY <1>11 DEF Layout!coded_index_bits
  <2>2. Len(Layout!Enumerators[c]) = 4 /\ DOMAIN Layout!Enumerators[c] = 1..4
    BY <1>11 DEF Layout!Enumerators
  <2> QED BY <2>1, <2>2, Powers
<1>12. CASE c = "ResolutionScope"
  <2>1. Layout!coded_index_bits[c] = 2 BY <1>12 DEF Layout!coded_index_bits
  <2>2. Len(Layout!Enumerators[c]) = 4 /\ DOMAIN Layout!Enumerators[c] = 1..4
    BY <1>12 DEF Layout!Enumerators
  <2> QED BY <2>1, <2>2, Powers
<1>13. CASE c = "TypeOrMethodDef"
  <2>1. Layout!coded_index_bits[c] = 1 BY <1>13 DEF Layout!coded_index_bits
  <2>2. Len(Layout!Enumerators[c]) = 2 /\ DOMAIN Layout!Enumerators[c] = 1..2
    BY <1>13 DEF Layout!Enumerators
  <2> QED BY <2>1, <2>2, Powers
<1> QED BY CodedNames, <1>1, <1>2, <1>3, <1>4, <1>5, <1>6, <1>7, <1>8, <1>9, <1>10, <1>11, <1>12,
           <1>13

LEMMA TagOf ==
    ASSUME NEW c \in Layout!Coded, NEW t \in Layout!NamedBy(c)
    PROVE  /\ Layout!index_tag(c, t) \in 0..(2^Layout!coded_index_bits[c] - 1)
           /\ Layout!Enumerators[c][Layout!index_tag(c, t) + 1] = t
<1> DEFINE E == Layout!Enumerators[c]
           i == CHOOSE k \in 1..Len(E) : E[k] = t
<1>1. DOMAIN E = 1..Len(E) /\ Len(E) \in 1..2^Layout!coded_index_bits[c]
      /\ 2^Layout!coded_index_bits[c] \in Nat
  BY TagsFit
<1>2. \E k \in 1..Len(E) : E[k] = t
  <2>1. t \in Layout!ToSet(E) BY DEF Layout!NamedBy
  <2> HIDE DEF E
  <2> QED BY <1>1, <2>1 DEF Layout!ToSet
<1>3. i \in 1..Len(E) /\ E[i] = t
  <2> HIDE DEF E
  <2> QED BY <1>2
<1>4. Layout!index_tag(c, t) = i - 1 BY DEF Layout!index_tag
<1> HIDE DEF i, E
<1>5. Layout!index_tag(c, t) \in 0..(2^Layout!coded_index_bits[c] - 1) /\ Layout!index_tag(c, t) + 1 = i
  BY <1>1, <1>3, <1>4
<1> QED BY <1>3, <1>5 DEF E

\* A list with blanks for tables that there are not.
LEMMA Blanks ==
    ASSUME NEW a, NEW b, NEW blank
    PROVE  /\ Layout!ToSet(<<blank, blank, a, b>>) = {blank, a, b}
           /\ Layout!ToSet(<<a, b, blank, blank, blank>>) = {blank, a, b}
<1>1. Layout!ToSet(<<blank, blank, a, b>>) = {blank, blank, a, b} BY DEF Layout!ToSet
<1>2. Layout!ToSet(<<a, b, blank, blank, blank>>) = {a, b, blank, blank, blank}
  <2>1. \A c, d, e : Layout!ToSet(<<a, b, c, d, e>>) = {a, b, c, d, e} BY DEF Layout!ToSet
  <2> QED BY <2>1
<1>3. {blank, blank, a, b} = {blank, a, b} /\ {a, b, blank, blank, blank} = {blank, a, b} OBVIOUS
<1> QED BY <1>1, <1>2, <1>3

\* The tables that each coded index names.
LEMMA NamedAre ==
    /\ Layout!NamedBy("TypeDefOrRef") = {"TypeDef", "TypeRef", "TypeSpec"}
    /\ Layout!NamedBy("HasConstant") = {"Field", "Param", "Property"}
    /\ Layout!NamedBy("HasCustomAttribute") = {"MethodDef", "Field", "TypeRef",
                                                     "TypeDef", "Param", "InterfaceImpl",
                                                     "MemberRef", "Module", "DeclSecurity",
                                                     "Property", "Event", "StandAloneSig",
                                                     "ModuleRef", "TypeSpec", "Assembly",
                                                     "AssemblyRef", "File", "ExportedType",
                                                     "ManifestResource", "GenericParam",
                                                     "GenericParamConstraint", "MethodSpec"}
    /\ Layout!NamedBy("HasFieldMarshal") = {"Field", "Param"}
    /\ Layout!NamedBy("HasDeclSecurity") = {"TypeDef", "MethodDef", "Assembly"}
    /\ Layout!NamedBy("MemberRefParent") = {"TypeDef", "TypeRef", "ModuleRef",
                                                  "MethodDef", "TypeSpec"}
    /\ Layout!NamedBy("HasSemantics") = {"Event", "Property"}
    /\ Layout!NamedBy("MethodDefOrRef") = {"MethodDef", "MemberRef"}
    /\ Layout!NamedBy("MemberForwarded") = {"Field", "MethodDef"}
    /\ Layout!NamedBy("Implementation") = {"File", "AssemblyRef", "ExportedType"}
    /\ Layout!NamedBy("CustomAttributeType") = {"MethodDef", "MemberRef"}
    /\ Layout!NamedBy("ResolutionScope") = {"Module", "ModuleRef", "AssemblyRef",
                                                  "TypeRef"}
    /\ Layout!NamedBy("TypeOrMethodDef") = {"TypeDef", "MethodDef"}
<1>1. Layout!NamedBy("TypeDefOrRef") = {"TypeDef", "TypeRef", "TypeSpec"}
  <2>1. Layout!Enumerators["TypeDefOrRef"] =
          <<"TypeDef", "TypeRef", "TypeSpec">>
    BY DEF Layout!Enumerators
  <2>2. Layout!ToSet(
          <<"TypeDef", "TypeRef", "TypeSpec">>) =
          {"TypeDef", "TypeRef", "TypeSpec"}
    BY DEF Layout!ToSet
  <2> QED BY <2>1, <2>2 DEF Layout!NamedBy
<1>2. Layout!NamedBy("HasConstant") = {"Field", "Param", "Property"}
  <2>1. Layout!Enumerators["HasConstant"] =
          <<"Field", "Param", "Property">>
    BY DEF Layout!Enumerators
  <2>2. Layout!ToSet(
          <<"Field", "Param", "Property">>) =
          {"Field", "Param", "Property"}
    BY DEF Layout!ToSet
  <2> QED BY <2>1, <2>2 DEF Layout!NamedBy
<1>3. Layout!NamedBy("HasCustomAttribute") = {"MethodDef", "Field", "TypeRef", "TypeDef",
                                                 "Param", "InterfaceImpl", "MemberRef",
                                                 "Module", "DeclSecurity", "Property", "Event",
                                                 "StandAloneSig", "ModuleRef", "TypeSpec",
                                                 "Assembly", "AssemblyRef", "File",
                                                 "ExportedType", "ManifestResource",
                                                 "GenericParam", "GenericParamConstraint",
                                                 "MethodSpec"}
  <2>1. Layout!Enumerators["HasCustomAttribute"] =
          <<"MethodDef", "Field", "TypeRef", "TypeDef", "Param", "InterfaceImpl", "MemberRef",
            "Module", "DeclSecurity", "Property", "Event", "StandAloneSig", "ModuleRef",
            "TypeSpec", "Assembly", "AssemblyRef", "File", "ExportedType", "ManifestResource",
            "GenericParam", "GenericParamConstraint", "MethodSpec">>
    BY DEF Layout!Enumerators
  <2>2. Layout!ToSet(
          <<"MethodDef", "Field", "TypeRef", "TypeDef", "Param", "InterfaceImpl", "MemberRef",
            "Module", "DeclSecurity", "Property", "Event", "StandAloneSig", "ModuleRef",
            "TypeSpec", "Assembly", "AssemblyRef", "File", "ExportedType", "ManifestResource",
            "GenericParam", "GenericParamConstraint", "MethodSpec">>) =
          {"MethodDef", "Field", "TypeRef", "TypeDef", "Param", "InterfaceImpl", "MemberRef",
           "Module", "DeclSecurity", "Property", "Event", "StandAloneSig", "ModuleRef",
           "TypeSpec", "Assembly", "AssemblyRef", "File", "ExportedType", "ManifestResource",
           "GenericParam", "GenericParamConstraint", "MethodSpec"}
    BY DEF Layout!ToSet
  <2> QED BY <2>1, <2>2 DEF Layout!NamedBy
<1>4. Layout!NamedBy("HasFieldMarshal") = {"Field", "Param"}
  <2>1. Layout!Enumerators["HasFieldMarshal"] =
          <<"Field", "Param">>
    BY DEF Layout!Enumerators
  <2>2. Layout!ToSet(
          <<"Field", "Param">>) =
          {"Field", "Param"}
    BY DEF Layout!ToSet
  <2> QED BY <2>1, <2>2 DEF Layout!NamedBy
<1>5. Layout!NamedBy("HasDeclSecurity") = {"TypeDef", "MethodDef", "Assembly"}
  <2>1. Layout!Enumerators["HasDeclSecurity"] =
          <<"TypeDef", "MethodDef", "Assembly">>
    BY DEF Layout!Enumerators
  <2>2. Layout!ToSet(
          <<"TypeDef", "MethodDef", "Assembly">>) =
          {"TypeDef", "MethodDef", "Assembly"}
    BY DEF Layout!ToSet
  <2> QED BY <2>1, <2>2 DEF Layout!NamedBy
<1>6. Layout!NamedBy("MemberRefParent") = {"TypeDef", "TypeRef", "ModuleRef", "MethodDef",
                                              "TypeSpec"}
  <2>1. Layout!Enumerators["MemberRefParent"] =
          <<"TypeDef", "TypeRef", "ModuleRef", "MethodDef", "TypeSpec">>
    BY DEF Layout!Enumerators
  <2>2. Layout!ToSet(
          <<"TypeDef", "TypeRef", "ModuleRef", "MethodDef", "TypeSpec">>) =
          {"TypeDef", "TypeRef", "ModuleRef", "MethodDef", "TypeSpec"}
    BY DEF Layout!ToSet
  <2> QED BY <2>1, <2>2 DEF Layout!NamedBy
<1>7. Layout!NamedBy("HasSemantics") = {"Event", "Property"}
  <2>1. Layout!Enumerators["HasSemantics"] =
          <<"Event", "Property">>
    BY DEF Layout!Enumerators
  <2>2. Layout!ToSet(
          <<"Event", "Property">>) =
          {"Event", "Property"}
    BY DEF Layout!ToSet
  <2> QED BY <2>1, <2>2 DEF Layout!NamedBy
<1>8. Layout!NamedBy("MethodDefOrRef") = {"MethodDef", "MemberRef"}
  <2>1. Layout!Enumerators["MethodDefOrRef"] =
          <<"MethodDef", "MemberRef">>
    BY DEF Layout!Enumerators
  <2>2. Layout!ToSet(
          <<"MethodDef", "MemberRef">>) =
          {"MethodDef", "MemberRef"}
    BY DEF Layout!ToSet
  <2> QED BY <2>1, <2>2 DEF Layout!NamedBy
<1>9. Layout!NamedBy("MemberForwarded") = {"Field", "MethodDef"}
  <2>1. Layout!Enumerators["MemberForwarded"] =
          <<"Field", "MethodDef">>
    BY DEF Layout!Enumerators
  <2>2. Layout!ToSet(
          <<"Field", "MethodDef">>) =
          {"Field", "MethodDef"}
    BY DEF Layout!ToSet
  <2> QED BY <2>1, <2>2 DEF Layout!NamedBy
<1>10. Layout!NamedBy("Implementation") = {"File", "AssemblyRef", "ExportedType"}
  <2>1. Layout!Enumerators["Implementation"] =
          <<"File", "AssemblyRef", "ExportedType">>
    BY DEF Layout!Enumerators
  <2>2. Layout!ToSet(
          <<"File", "AssemblyRef", "ExportedType">>) =
          {"File", "AssemblyRef", "ExportedType"}
    BY DEF Layout!ToSet
  <2> QED BY <2>1, <2>2 DEF Layout!NamedBy
<1>11. Layout!NamedBy("CustomAttributeType") = {"MethodDef", "MemberRef"}
  <2>1. Layout!Enumerators["CustomAttributeType"] =
          <<"", "", "MethodDef", "MemberRef">>
    BY DEF Layout!Enumerators
  <2>2. Layout!ToSet(
          <<"", "", "MethodDef", "MemberRef">>) =
          {"", "MethodDef", "MemberRef"}
    BY Blanks, Zenon
  <2> QED BY <2>1, <2>2 DEF Layout!NamedBy
<1>12. Layout!NamedBy("ResolutionScope") = {"Module", "ModuleRef", "AssemblyRef", "TypeRef"}
  <2>1. Layout!Enumerators["ResolutionScope"] =
          <<"Module", "ModuleRef", "AssemblyRef", "TypeRef">>
    BY DEF Layout!Enumerators
  <2>2. Layout!ToSet(
          <<"Module", "ModuleRef", "AssemblyRef", "TypeRef">>) =
          {"Module", "ModuleRef", "AssemblyRef", "TypeRef"}
    BY DEF Layout!ToSet
  <2> QED BY <2>1, <2>2 DEF Layout!NamedBy
<1>13. Layout!NamedBy("TypeOrMethodDef") = {"TypeDef", "MethodDef"}
  <2>1. Layout!Enumerators["TypeOrMethodDef"] =
          <<"TypeDef", "MethodDef">>
    BY DEF Layout!Enumerators
  <2>2. Layout!ToSet(
          <<"TypeDef", "MethodDef">>) =
          {"TypeDef", "MethodDef"}
    BY DEF Layout!ToSet
  <2> QED BY <2>1, <2>2 DEF Layout!NamedBy
<1> QED BY <1>1, <1>2, <1>3, <1>4, <1>5, <1>6, <1>7, <1>8, <1>9, <1>10, <1>11, <1>12, <1>13

LEMMA CodedTables == \A c \in Layout!Coded : Layout!NamedBy(c) \subseteq Layout!Table
BY CodedNames, NamedAre, TableNames

\* A row and a tag come out of a coded index as they went in.
LEMMA CodedValues ==
    ASSUME NEW c \in Layout!Coded, NEW t \in Layout!NamedBy(c), NEW n \in Nat
    PROVE  /\ Layout!TypeOf(c, Layout!ValueOf(c, t, n)) = t
           /\ Layout!IndexOf(c, Layout!ValueOf(c, t, n)) = n
<1> DEFINE m == 2^Layout!coded_index_bits[c]
           g == Layout!index_tag(c, t)
           v == (n + 1) * m + g
<1>1. m \in {2, 4, 8, 32} /\ g \in 0..(m - 1) BY TagsFit, TagOf
<1>2. v % m = g /\ v \div m = n + 1
  <2> HIDE DEF m, g
  <2>1. CASE m = 2 BY <1>1, <2>1
  <2>2. CASE m = 4 BY <1>1, <2>2
  <2>3. CASE m = 8 BY <1>1, <2>3
  <2>4. CASE m = 32 BY <1>1, <2>4
  <2> QED BY <1>1, <2>1, <2>2, <2>3, <2>4
<1>3. Layout!ValueOf(c, t, n) = v BY DEF Layout!ValueOf
<1>4. Layout!TypeOf(c, v) = Layout!Enumerators[c][(v % m) + 1] /\ Layout!IndexOf(c, v) = (v \div m) - 1
  BY DEF Layout!TypeOf, Layout!IndexOf
<1>5. Layout!Enumerators[c][g + 1] = t BY TagOf
<1> HIDE DEF v, m, g
<1> QED BY <1>2, <1>3, <1>4, <1>5

-----------------------------------------------------------------------------
\* What a coded index can hold, as Held has it, and the width that the file gives it.
Values(c) ==
    {Layout!ValueOf(c, t, row_count[t] - 1) : t \in {u \in Layout!NamedBy(c) : row_count[u] # 0}}
Width(values) == IF \A v \in values : v < 2^16 THEN 2 ELSE 4

\* The values of all rows of a table are narrow if there are few enough rows.
LEMMA NarrowValues ==
    ASSUME NEW c \in Layout!Coded, row_count \in [Layout!Table -> Nat]
    PROVE  \A t \in Layout!NamedBy(c) :
              /\ row_count[t] \in Nat
              /\ row_count[t] # 0 =>
                    (Layout!ValueOf(c, t, row_count[t] - 1) < 2^16
                       <=> row_count[t] < 2^(16 - Layout!coded_index_bits[c]))
<1> TAKE t \in Layout!NamedBy(c)
<1> DEFINE b == Layout!coded_index_bits[c]
           m == Step(b)
           k == Limit(b)
           g == Layout!index_tag(c, t)
           n == row_count[t]
<1>1. n \in Nat BY CodedTables
<1>2. g \in 0..(m - 1) BY TagOf DEF Step
<1>3. (m = 2 /\ k = 32768) \/ (m = 4 /\ k = 16384) \/ (m = 8 /\ k = 8192) \/ (m = 32 /\ k = 2048)
  <2>1. b \in {1, 2, 3, 5} BY TagsFit
  <2> HIDE DEF b
  <2> QED BY <2>1, Limits
<1>4. Layout!ValueOf(c, t, n - 1) = ((n - 1) + 1) * m + g BY DEF Layout!ValueOf, Step
<1> HIDE DEF m, k, g, n
<1>5. ((n - 1) + 1) * m + g = n * m + g BY <1>1
<1>6. n * m + g < 65536 <=> n < k
  <2>1. CASE m = 2 /\ k = 32768 BY <1>1, <1>2, <2>1
  <2>2. CASE m = 4 /\ k = 16384 BY <1>1, <1>2, <2>2
  <2>3. CASE m = 8 /\ k = 8192 BY <1>1, <1>2, <2>3
  <2>4. CASE m = 32 /\ k = 2048 BY <1>1, <1>2, <2>4
  <2> QED BY <1>3, <2>1, <2>2, <2>3, <2>4
<1>7. Layout!ValueOf(c, t, n - 1) < 65536 <=> n < k BY <1>4, <1>5, <1>6
<1> QED BY <1>1, <1>7, Powers DEF n, k, b, Limit

\* The tables that are listed need not be all that the index names.
LEMMA CompositeFits ==
    ASSUME NEW c \in Layout!Coded, row_count \in [Layout!Table -> Nat],
           NEW T \in SUBSET Layout!NamedBy(c),
           \A t \in Layout!NamedBy(c) \ T : row_count[t] < Limit(Layout!coded_index_bits[c])
    PROVE  (\A t \in T : row_count[t] < Limit(Layout!coded_index_bits[c]))
              <=> \A v \in Values(c) : v < 2^16
<1> DEFINE b == Layout!coded_index_bits[c]
           k == Limit(b)
<1>1. k \in {32768, 16384, 8192, 2048}
  <2>1. b \in {1, 2, 3, 5} BY TagsFit
  <2> HIDE DEF b
  <2> QED BY <2>1, Limits
<1> DEFINE value(t) == Layout!ValueOf(c, t, row_count[t] - 1)
<1>3. \A t \in Layout!NamedBy(c) :
        row_count[t] \in Nat /\ (row_count[t] # 0 => (value(t) < 2^16 <=> row_count[t] < k))
  BY NarrowValues DEF Limit
<1>4. Values(c) = {value(t) : t \in {u \in Layout!NamedBy(c) : row_count[u] # 0}} BY DEF Values
<1> HIDE DEF k, value
<1>5. (\A v \in Values(c) : v < 2^16) <=> \A t \in Layout!NamedBy(c) : row_count[t] # 0 => value(t) < 2^16
  BY <1>4
<1>6. (\A t \in T : row_count[t] < k) <=> \A t \in Layout!NamedBy(c) : row_count[t] # 0 => value(t) < 2^16
  <2>1. \A t \in Layout!NamedBy(c) \ T : row_count[t] < k BY DEF k, b
  <2>2. k \in Nat /\ k > 0 BY <1>1
  <2>3. \A t \in Layout!NamedBy(c) : row_count[t] < k <=> (row_count[t] # 0 => value(t) < 2^16)
    BY <1>3, <2>2
  <2> QED BY <2>1, <2>3
<1> QED BY <1>5, <1>6 DEF k, b

\* Both definitions of composite_index_size in one.
LEMMA CompositeOf ==
    ASSUME NEW s, NEW b \in {1, 2, 3, 5}, Layout!bits_needed(Len(s)) = b,
           NEW T, Layout!ToSet(s) \ {""} = T
    PROVE  Layout!composite_index_size(s) = IF \A t \in T : row_count[t] < Limit(b) THEN 2 ELSE 4
BY DEF Layout!composite_index_size, Limit

\* The size of a coded index is that of the file, if a custom attribute cannot belong
\* to a permission that only a wide index names.
LEMMA CodedWidths ==
    ASSUME NEW c \in Layout!Coded, row_count \in [Layout!Table -> Nat],
           c = "HasCustomAttribute" => row_count["DeclSecurity"] < 2^11
    PROVE  Layout!Composite[c] = Width(Values(c))
<1>1. \A n \in 1..32 : Layout!bits_needed(n) = HalvingsIs[n - 1]
  BY HalvingsValues DEF Layout!bits_needed
<1>2. /\ Layout!bits_needed(2) = 1 /\ Layout!bits_needed(3) = 2 /\ Layout!bits_needed(4) = 2
      /\ Layout!bits_needed(5) = 3 /\ Layout!bits_needed(21) = 5
  BY <1>1 DEF HalvingsIs
<1>3. CASE c = "TypeDefOrRef"
  <2> DEFINE s == <<"TypeDef", "TypeRef", "TypeSpec">>
  <2>1. Len(s) = 3 /\ Layout!coded_index_bits[c] = 2 BY <1>3 DEF Layout!coded_index_bits
  <2>2. Layout!ToSet(s) = {"TypeDef", "TypeRef", "TypeSpec"} BY DEF Layout!ToSet
  <2>3. Layout!ToSet(s) \ {""} = Layout!NamedBy(c) BY <1>3, <2>2, NamedAre
  <2>4. Layout!Composite[c] = Layout!composite_index_size(s) BY <1>3, CompositeIs
  <2>5. Layout!composite_index_size(s) =
           IF \A t \in Layout!NamedBy(c) : row_count[t] < Limit(Layout!coded_index_bits[c]) THEN 2 ELSE 4
    <3> HIDE DEF s
    <3> QED BY <1>2, <2>1, <2>3, CompositeOf
  <2> QED BY <2>4, <2>5, CompositeFits DEF Width
<1>4. CASE c = "HasConstant"
  <2> DEFINE s == <<"Field", "Param", "Property">>
  <2>1. Len(s) = 3 /\ Layout!coded_index_bits[c] = 2 BY <1>4 DEF Layout!coded_index_bits
  <2>2. Layout!ToSet(s) = {"Field", "Param", "Property"} BY DEF Layout!ToSet
  <2>3. Layout!ToSet(s) \ {""} = Layout!NamedBy(c) BY <1>4, <2>2, NamedAre
  <2>4. Layout!Composite[c] = Layout!composite_index_size(s) BY <1>4, CompositeIs
  <2>5. Layout!composite_index_size(s) =
           IF \A t \in Layout!NamedBy(c) : row_count[t] < Limit(Layout!coded_index_bits[c]) THEN 2 ELSE 4
    <3> HIDE DEF s
    <3> QED BY <1>2, <2>1, <2>3, CompositeOf
  <2> QED BY <2>4, <2>5, CompositeFits DEF Width
<1>5. CASE c = "HasCustomAttribute"
  <2> DEFINE s == <<"MethodDef", "Field", "TypeRef", "TypeDef", "Param", "InterfaceImpl",
                   "MemberRef", "Module", "Property", "Event", "StandAloneSig", "ModuleRef",
                   "TypeSpec", "Assembly", "AssemblyRef", "File", "ExportedType",
                   "ManifestResource", "GenericParam", "GenericParamConstraint", "MethodSpec">>
  <2>1. Len(s) = 21 /\ Layout!coded_index_bits[c] = 5 BY <1>5 DEF Layout!coded_index_bits
  <2>2. Layout!ToSet(s) = {"MethodDef", "Field", "TypeRef", "TypeDef", "Param", "InterfaceImpl",
                         "MemberRef", "Module", "Property", "Event", "StandAloneSig",
                         "ModuleRef", "TypeSpec", "Assembly", "AssemblyRef", "File",
                         "ExportedType", "ManifestResource", "GenericParam",
                         "GenericParamConstraint", "MethodSpec"} BY DEF Layout!ToSet
  <2>3. Layout!ToSet(s) \ {""} = Layout!NamedBy(c) \ {"DeclSecurity"} BY <1>5, <2>2, NamedAre
  <2>4. \A t \in Layout!NamedBy(c) \ (Layout!NamedBy(c) \ {"DeclSecurity"}) :
           row_count[t] < Limit(Layout!coded_index_bits[c])
    BY <1>5, <2>1, Powers DEF Limit
  <2>5. Layout!Composite[c] = Layout!composite_index_size(s) BY <1>5, CompositeIs
  <2>6. Layout!composite_index_size(s) =
           IF \A t \in Layout!NamedBy(c) \ {"DeclSecurity"} : row_count[t] < Limit(Layout!coded_index_bits[c])
           THEN 2 ELSE 4
    <3> HIDE DEF s
    <3> QED BY <1>2, <2>1, <2>3, CompositeOf
  <2> QED BY <2>4, <2>5, <2>6, CompositeFits DEF Width
<1>6. CASE c = "HasFieldMarshal"
  <2> DEFINE s == <<"Field", "Param">>
  <2>1. Len(s) = 2 /\ Layout!coded_index_bits[c] = 1 BY <1>6 DEF Layout!coded_index_bits
  <2>2. Layout!ToSet(s) = {"Field", "Param"} BY DEF Layout!ToSet
  <2>3. Layout!ToSet(s) \ {""} = Layout!NamedBy(c) BY <1>6, <2>2, NamedAre
  <2>4. Layout!Composite[c] = Layout!composite_index_size(s) BY <1>6, CompositeIs
  <2>5. Layout!composite_index_size(s) =
           IF \A t \in Layout!NamedBy(c) : row_count[t] < Limit(Layout!coded_index_bits[c]) THEN 2 ELSE 4
    <3> HIDE DEF s
    <3> QED BY <1>2, <2>1, <2>3, CompositeOf
  <2> QED BY <2>4, <2>5, CompositeFits DEF Width
<1>7. CASE c = "HasDeclSecurity"
  <2> DEFINE s == <<"TypeDef", "MethodDef", "Assembly">>
  <2>1. Len(s) = 3 /\ Layout!coded_index_bits[c] = 2 BY <1>7 DEF Layout!coded_index_bits
  <2>2. Layout!ToSet(s) = {"TypeDef", "MethodDef", "Assembly"} BY DEF Layout!ToSet
  <2>3. Layout!ToSet(s) \ {""} = Layout!NamedBy(c) BY <1>7, <2>2, NamedAre
  <2>4. Layout!Composite[c] = Layout!composite_index_size(s) BY <1>7, CompositeIs
  <2>5. Layout!composite_index_size(s) =
           IF \A t \in Layout!NamedBy(c) : row_count[t] < Limit(Layout!coded_index_bits[c]) THEN 2 ELSE 4
    <3> HIDE DEF s
    <3> QED BY <1>2, <2>1, <2>3, CompositeOf
  <2> QED BY <2>4, <2>5, CompositeFits DEF Width
<1>8. CASE c = "MemberRefParent"
  <2> DEFINE s == <<"TypeDef", "TypeRef", "ModuleRef", "MethodDef", "TypeSpec">>
  <2>1. Len(s) = 5 /\ Layout!coded_index_bits[c] = 3 BY <1>8 DEF Layout!coded_index_bits
  <2>2. Layout!ToSet(s) = {"TypeDef", "TypeRef", "ModuleRef", "MethodDef", "TypeSpec"}
    BY DEF Layout!ToSet
  <2>3. Layout!ToSet(s) \ {""} = Layout!NamedBy(c) BY <1>8, <2>2, NamedAre
  <2>4. Layout!Composite[c] = Layout!composite_index_size(s) BY <1>8, CompositeIs
  <2>5. Layout!composite_index_size(s) =
           IF \A t \in Layout!NamedBy(c) : row_count[t] < Limit(Layout!coded_index_bits[c]) THEN 2 ELSE 4
    <3> HIDE DEF s
    <3> QED BY <1>2, <2>1, <2>3, CompositeOf
  <2> QED BY <2>4, <2>5, CompositeFits DEF Width
<1>9. CASE c = "HasSemantics"
  <2> DEFINE s == <<"Event", "Property">>
  <2>1. Len(s) = 2 /\ Layout!coded_index_bits[c] = 1 BY <1>9 DEF Layout!coded_index_bits
  <2>2. Layout!ToSet(s) = {"Event", "Property"} BY DEF Layout!ToSet
  <2>3. Layout!ToSet(s) \ {""} = Layout!NamedBy(c) BY <1>9, <2>2, NamedAre
  <2>4. Layout!Composite[c] = Layout!composite_index_size(s) BY <1>9, CompositeIs
  <2>5. Layout!composite_index_size(s) =
           IF \A t \in Layout!NamedBy(c) : row_count[t] < Limit(Layout!coded_index_bits[c]) THEN 2 ELSE 4
    <3> HIDE DEF s
    <3> QED BY <1>2, <2>1, <2>3, CompositeOf
  <2> QED BY <2>4, <2>5, CompositeFits DEF Width
<1>10. CASE c = "MethodDefOrRef"
  <2> DEFINE s == <<"MethodDef", "MemberRef">>
  <2>1. Len(s) = 2 /\ Layout!coded_index_bits[c] = 1 BY <1>10 DEF Layout!coded_index_bits
  <2>2. Layout!ToSet(s) = {"MethodDef", "MemberRef"} BY DEF Layout!ToSet
  <2>3. Layout!ToSet(s) \ {""} = Layout!NamedBy(c) BY <1>10, <2>2, NamedAre
  <2>4. Layout!Composite[c] = Layout!composite_index_size(s) BY <1>10, CompositeIs
  <2>5. Layout!composite_index_size(s) =
           IF \A t \in Layout!NamedBy(c) : row_count[t] < Limit(Layout!coded_index_bits[c]) THEN 2 ELSE 4
    <3> HIDE DEF s
    <3> QED BY <1>2, <2>1, <2>3, CompositeOf
  <2> QED BY <2>4, <2>5, CompositeFits DEF Width
<1>11. CASE c = "MemberForwarded"
  <2> DEFINE s == <<"Field", "MethodDef">>
  <2>1. Len(s) = 2 /\ Layout!coded_index_bits[c] = 1 BY <1>11 DEF Layout!coded_index_bits
  <2>2. Layout!ToSet(s) = {"Field", "MethodDef"} BY DEF Layout!ToSet
  <2>3. Layout!ToSet(s) \ {""} = Layout!NamedBy(c) BY <1>11, <2>2, NamedAre
  <2>4. Layout!Composite[c] = Layout!composite_index_size(s) BY <1>11, CompositeIs
  <2>5. Layout!composite_index_size(s) =
           IF \A t \in Layout!NamedBy(c) : row_count[t] < Limit(Layout!coded_index_bits[c]) THEN 2 ELSE 4
    <3> HIDE DEF s
    <3> QED BY <1>2, <2>1, <2>3, CompositeOf
  <2> QED BY <2>4, <2>5, CompositeFits DEF Width
<1>12. CASE c = "Implementation"
  <2> DEFINE s == <<"File", "AssemblyRef", "ExportedType">>
  <2>1. Len(s) = 3 /\ Layout!coded_index_bits[c] = 2 BY <1>12 DEF Layout!coded_index_bits
  <2>2. Layout!ToSet(s) = {"File", "AssemblyRef", "ExportedType"} BY DEF Layout!ToSet
  <2>3. Layout!ToSet(s) \ {""} = Layout!NamedBy(c) BY <1>12, <2>2, NamedAre
  <2>4. Layout!Composite[c] = Layout!composite_index_size(s) BY <1>12, CompositeIs
  <2>5. Layout!composite_index_size(s) =
           IF \A t \in Layout!NamedBy(c) : row_count[t] < Limit(Layout!coded_index_bits[c]) THEN 2 ELSE 4
    <3> HIDE DEF s
    <3> QED BY <1>2, <2>1, <2>3, CompositeOf
  <2> QED BY <2>4, <2>5, CompositeFits DEF Width
<1>13. CASE c = "CustomAttributeType"
  <2> DEFINE s == <<"MethodDef", "MemberRef", "", "", "">>
  <2>1. Len(s) = 5 /\ Layout!coded_index_bits[c] = 3 BY <1>13 DEF Layout!coded_index_bits
  <2>2. Layout!ToSet(s) = {"", "MethodDef", "MemberRef"} BY Blanks, Zenon
  <2>3. Layout!ToSet(s) \ {""} = Layout!NamedBy(c) BY <1>13, <2>2, NamedAre
  <2>4. Layout!Composite[c] = Layout!composite_index_size(s) BY <1>13, CompositeIs
  <2>5. Layout!composite_index_size(s) =
           IF \A t \in Layout!NamedBy(c) : row_count[t] < Limit(Layout!coded_index_bits[c]) THEN 2 ELSE 4
    <3> HIDE DEF s
    <3> QED BY <1>2, <2>1, <2>3, CompositeOf
  <2> QED BY <2>4, <2>5, CompositeFits DEF Width
<1>14. CASE c = "ResolutionScope"
  <2> DEFINE s == <<"Module", "ModuleRef", "AssemblyRef", "TypeRef">>
  <2>1. Len(s) = 4 /\ Layout!coded_index_bits[c] = 2 BY <1>14 DEF Layout!coded_index_bits
  <2>2. Layout!ToSet(s) = {"Module", "ModuleRef", "AssemblyRef", "TypeRef"} BY DEF Layout!ToSet
  <2>3. Layout!ToSet(s) \ {""} = Layout!NamedBy(c) BY <1>14, <2>2, NamedAre
  <2>4. Layout!Composite[c] = Layout!composite_index_size(s) BY <1>14, CompositeIs
  <2>5. Layout!composite_index_size(s) =
           IF \A t \in Layout!NamedBy(c) : row_count[t] < Limit(Layout!coded_index_bits[c]) THEN 2 ELSE 4
    <3> HIDE DEF s
    <3> QED BY <1>2, <2>1, <2>3, CompositeOf
  <2> QED BY <2>4, <2>5, CompositeFits DEF Width
<1>15. CASE c = "TypeOrMethodDef"
  <2> DEFINE s == <<"TypeDef", "MethodDef">>
  <2>1. Len(s) = 2 /\ Layout!coded_index_bits[c] = 1 BY <1>15 DEF Layout!coded_index_bits
  <2>2. Layout!ToSet(s) = {"TypeDef", "MethodDef"} BY DEF Layout!ToSet
  <2>3. Layout!ToSet(s) \ {""} = Layout!NamedBy(c) BY <1>15, <2>2, NamedAre
  <2>4. Layout!Composite[c] = Layout!composite_index_size(s) BY <1>15, CompositeIs
  <2>5. Layout!composite_index_size(s) =
           IF \A t \in Layout!NamedBy(c) : row_count[t] < Limit(Layout!coded_index_bits[c]) THEN 2 ELSE 4
    <3> HIDE DEF s
    <3> QED BY <1>2, <2>1, <2>3, CompositeOf
  <2> QED BY <2>4, <2>5, CompositeFits DEF Width
<1> QED BY CodedNames, <1>3, <1>4, <1>5, <1>6, <1>7, <1>8, <1>9, <1>10, <1>11, <1>12, <1>13, <1>14,
           <1>15

-----------------------------------------------------------------------------
\* An accessor finds a column of the width of the file.
Right(a) ==
    \/ Layout!KnownMisfits(a)
    \/ Layout!Exists(a) /\ columns[a.table][a.column + 1] = Layout!FileWidth(a)

\* How the tables are laid out once the sizes are known.
Sized == columns = Layout!Columns /\ row_count \in [Layout!Table -> Nat]

Is(t, c, bytes) == c \in Nat /\ c < Len(Layout!Columns[t]) /\ Layout!Columns[t][c + 1] = bytes

LEMMA ValueRight ==
    ASSUME Sized, NEW t, NEW c, NEW bytes, Is(t, c, bytes)
    PROVE  Right(Layout!Value(t, c, bytes))
BY DEF Is, Sized, Right, Layout!Exists, Layout!FileWidth, Layout!Value

LEMMA StringRight ==
    ASSUME Sized, NEW t, NEW c, Is(t, c, Layout!string_index_size)
    PROVE  Right(Layout!Heap(t, c, "string"))
BY DEF Is, Sized, Right, Layout!Exists, Layout!FileWidth, Layout!Heap

LEMMA BlobRight ==
    ASSUME Sized, NEW t, NEW c, Is(t, c, Layout!blob_index_size)
    PROVE  Right(Layout!Heap(t, c, "blob"))
BY DEF Is, Sized, Right, Layout!Exists, Layout!FileWidth, Layout!Heap

LEMMA RowRight ==
    ASSUME Sized, NEW t, NEW c, NEW of, Is(t, c, Layout!index_size(of))
    PROVE  Right(Layout!Target(t, c, of))
<1> DEFINE a == Layout!Target(t, c, of)
<1>1. a.table = t /\ a.column = c /\ a.as = "row" /\ a.of = of BY DEF Layout!Target
<1>2. Layout!FileWidth(a) = Layout!index_size(of)
  BY <1>1 DEF Layout!FileWidth, Layout!Held, Layout!index_size
<1> QED BY <1>1, <1>2 DEF Is, Sized, Right, Layout!Exists

LEMMA CodedRight ==
    ASSUME Sized, NEW t, NEW c, NEW of \in Layout!Coded, Is(t, c, Layout!Composite[of])
    PROVE  Right(Layout!CodedIndex(t, c, of))
<1> DEFINE a == Layout!CodedIndex(t, c, of)
<1>1. a.table = t /\ a.column = c /\ a.as = "coded" /\ a.of = of BY DEF Layout!CodedIndex
<1>2. Layout!FileWidth(a) = Width(Values(of))
  BY <1>1 DEF Layout!FileWidth, Layout!Held, Width, Values
<1>3. CASE of = "HasCustomAttribute" /\ ~(row_count["DeclSecurity"] < 2^11)
  <2>1. row_count["DeclSecurity"] \in Nat BY TableNames DEF Sized
  <2>2. Layout!KnownMisfits(a) BY <1>1, <1>3, <2>1, Powers DEF Layout!KnownMisfits
  <2> QED BY <2>2 DEF Right
<1>4. CASE ~(of = "HasCustomAttribute" /\ ~(row_count["DeclSecurity"] < 2^11))
  <2>1. Layout!Composite[of] = Width(Values(of)) BY <1>4, CodedWidths DEF Sized
  <2> QED BY <1>1, <1>2, <2>1 DEF Is, Sized, Right, Layout!Exists
<1> QED BY <1>3, <1>4

LEMMA TypeAccessorRight == ASSUME Sized PROVE \A a \in Layout!TypeAccessors : Right(a)
<1>1. /\ Right(Layout!CodedIndex("TypeRef", 0, "ResolutionScope"))
      /\ Right(Layout!Heap("TypeRef", 1, "string"))
      /\ Right(Layout!Heap("TypeRef", 2, "string"))
  <2>1. /\ Is("TypeRef", 0, Layout!Composite["ResolutionScope"])
        /\ Is("TypeRef", 1, Layout!string_index_size)
        /\ Is("TypeRef", 2, Layout!string_index_size)
    BY ColumnsAre DEF Is
  <2> QED BY <2>1, CodedRight, CodedNames, StringRight
<1>2. /\ Right(Layout!CodedIndex("CustomAttribute", 0, "HasCustomAttribute"))
      /\ Right(Layout!CodedIndex("CustomAttribute", 1, "CustomAttributeType"))
  <2>1. /\ Is("CustomAttribute", 0, Layout!Composite["HasCustomAttribute"])
        /\ Is("CustomAttribute", 1, Layout!Composite["CustomAttributeType"])
    BY ColumnsAre DEF Is
  <2> QED BY <2>1, CodedRight, CodedNames
<1>3. /\ Right(Layout!Value("TypeDef", 0, 4))
      /\ Right(Layout!Heap("TypeDef", 1, "string"))
      /\ Right(Layout!Heap("TypeDef", 2, "string"))
      /\ Right(Layout!CodedIndex("TypeDef", 3, "TypeDefOrRef"))
  <2>1. /\ Is("TypeDef", 0, 4)
        /\ Is("TypeDef", 1, Layout!string_index_size)
        /\ Is("TypeDef", 2, Layout!string_index_size)
        /\ Is("TypeDef", 3, Layout!Composite["TypeDefOrRef"])
    BY ColumnsAre DEF Is
  <2> QED BY <2>1, ValueRight, StringRight, CodedRight, CodedNames
<1>4. /\ Right(Layout!Value("MethodDef", 0, 4))
      /\ Right(Layout!Value("MethodDef", 1, 2))
      /\ Right(Layout!Value("MethodDef", 2, 2))
      /\ Right(Layout!Heap("MethodDef", 3, "string"))
      /\ Right(Layout!Heap("MethodDef", 4, "blob"))
  <2>1. /\ Is("MethodDef", 0, 4)
        /\ Is("MethodDef", 1, 2)
        /\ Is("MethodDef", 2, 2)
        /\ Is("MethodDef", 3, Layout!string_index_size)
        /\ Is("MethodDef", 4, Layout!blob_index_size)
    BY ColumnsAre DEF Is
  <2> QED BY <2>1, ValueRight, StringRight, BlobRight
<1>5. /\ Right(Layout!CodedIndex("MemberRef", 0, "MemberRefParent"))
      /\ Right(Layout!Heap("MemberRef", 1, "string"))
      /\ Right(Layout!Heap("MemberRef", 2, "blob"))
  <2>1. /\ Is("MemberRef", 0, Layout!Composite["MemberRefParent"])
        /\ Is("MemberRef", 1, Layout!string_index_size)
        /\ Is("MemberRef", 2, Layout!blob_index_size)
    BY ColumnsAre DEF Is
  <2> QED BY <2>1, CodedRight, CodedNames, StringRight, BlobRight
<1> QED BY <1>1, <1>2, <1>3, <1>4, <1>5 DEF Layout!TypeAccessors

LEMMA MemberAccessorRight == ASSUME Sized PROVE \A a \in Layout!MemberAccessors : Right(a)
<1>1. Right(Layout!Heap("Module", 1, "string"))
  <2>1. Is("Module", 1, Layout!string_index_size)
    BY ColumnsAre DEF Is
  <2> QED BY <2>1, StringRight
<1>2. /\ Right(Layout!Value("Field", 0, 2))
      /\ Right(Layout!Heap("Field", 1, "string"))
      /\ Right(Layout!Heap("Field", 2, "blob"))
  <2>1. /\ Is("Field", 0, 2)
        /\ Is("Field", 1, Layout!string_index_size)
        /\ Is("Field", 2, Layout!blob_index_size)
    BY ColumnsAre DEF Is
  <2> QED BY <2>1, ValueRight, StringRight, BlobRight
<1>3. /\ Right(Layout!Value("Param", 0, 2))
      /\ Right(Layout!Value("Param", 1, 2))
      /\ Right(Layout!Heap("Param", 2, "string"))
  <2>1. /\ Is("Param", 0, 2)
        /\ Is("Param", 1, 2)
        /\ Is("Param", 2, Layout!string_index_size)
    BY ColumnsAre DEF Is
  <2> QED BY <2>1, ValueRight, StringRight
<1>4. Right(Layout!CodedIndex("InterfaceImpl", 1, "TypeDefOrRef"))
  <2>1. Is("InterfaceImpl", 1, Layout!Composite["TypeDefOrRef"])
    BY ColumnsAre DEF Is
  <2> QED BY <2>1, CodedRight, CodedNames
<1>5. /\ Right(Layout!Value("Constant", 0, 2))
      /\ Right(Layout!CodedIndex("Constant", 1, "HasConstant"))
  <2>1. /\ Is("Constant", 0, 2)
        /\ Is("Constant", 1, Layout!Composite["HasConstant"])
    BY ColumnsAre DEF Is
  <2> QED BY <2>1, ValueRight, CodedRight, CodedNames
<1>6. Right(Layout!CodedIndex("FieldMarshal", 0, "HasFieldMarshal"))
  <2>1. Is("FieldMarshal", 0, Layout!Composite["HasFieldMarshal"])
    BY ColumnsAre DEF Is
  <2> QED BY <2>1, CodedRight, CodedNames
<1>7. Right(Layout!Heap("TypeSpec", 0, "blob"))
  <2>1. Is("TypeSpec", 0, Layout!blob_index_size)
    BY ColumnsAre DEF Is
  <2> QED BY <2>1, BlobRight
<1> QED BY <1>1, <1>2, <1>3, <1>4, <1>5, <1>6, <1>7 DEF Layout!MemberAccessors

LEMMA LayoutAccessorRight == ASSUME Sized PROVE \A a \in Layout!LayoutAccessors : Right(a)
<1>1. /\ Right(Layout!Value("ClassLayout", 0, 2))
      /\ Right(Layout!Value("ClassLayout", 1, 4))
  <2>1. /\ Is("ClassLayout", 0, 2)
        /\ Is("ClassLayout", 1, 4)
    BY ColumnsAre DEF Is
  <2> QED BY <2>1, ValueRight
<1>2. /\ Right(Layout!Value("Event", 0, 2))
      /\ Right(Layout!Heap("Event", 1, "string"))
      /\ Right(Layout!CodedIndex("Event", 2, "TypeDefOrRef"))
  <2>1. /\ Is("Event", 0, 2)
        /\ Is("Event", 1, Layout!string_index_size)
        /\ Is("Event", 2, Layout!Composite["TypeDefOrRef"])
    BY ColumnsAre DEF Is
  <2> QED BY <2>1, ValueRight, StringRight, CodedRight, CodedNames
<1>3. /\ Right(Layout!Value("Property", 0, 2))
      /\ Right(Layout!Heap("Property", 1, "string"))
      /\ Right(Layout!Heap("Property", 2, "blob"))
  <2>1. /\ Is("Property", 0, 2)
        /\ Is("Property", 1, Layout!string_index_size)
        /\ Is("Property", 2, Layout!blob_index_size)
    BY ColumnsAre DEF Is
  <2> QED BY <2>1, ValueRight, StringRight, BlobRight
<1>4. /\ Right(Layout!Value("MethodSemantics", 0, 2))
      /\ Right(Layout!CodedIndex("MethodSemantics", 2, "HasSemantics"))
  <2>1. /\ Is("MethodSemantics", 0, 2)
        /\ Is("MethodSemantics", 2, Layout!Composite["HasSemantics"])
    BY ColumnsAre DEF Is
  <2> QED BY <2>1, ValueRight, CodedRight, CodedNames
<1>5. /\ Right(Layout!CodedIndex("MethodImpl", 1, "MethodDefOrRef"))
      /\ Right(Layout!CodedIndex("MethodImpl", 2, "MethodDefOrRef"))
  <2>1. /\ Is("MethodImpl", 1, Layout!Composite["MethodDefOrRef"])
        /\ Is("MethodImpl", 2, Layout!Composite["MethodDefOrRef"])
    BY ColumnsAre DEF Is
  <2> QED BY <2>1, CodedRight, CodedNames
<1> QED BY <1>1, <1>2, <1>3, <1>4, <1>5 DEF Layout!LayoutAccessors

LEMMA AssemblyAccessorRight == ASSUME Sized PROVE \A a \in Layout!AssemblyAccessors : Right(a)
<1>1. /\ Right(Layout!Value("Assembly", 0, 4))
      /\ Right(Layout!Value("Assembly", 2, 4))
      /\ Right(Layout!Heap("Assembly", 3, "blob"))
      /\ Right(Layout!Heap("Assembly", 4, "string"))
      /\ Right(Layout!Heap("Assembly", 5, "string"))
  <2>1. /\ Is("Assembly", 0, 4)
        /\ Is("Assembly", 2, 4)
        /\ Is("Assembly", 3, Layout!blob_index_size)
        /\ Is("Assembly", 4, Layout!string_index_size)
        /\ Is("Assembly", 5, Layout!string_index_size)
    BY ColumnsAre DEF Is
  <2> QED BY <2>1, ValueRight, BlobRight, StringRight
<1>2. Right(Layout!Value("AssemblyProcessor", 0, 4))
  <2>1. Is("AssemblyProcessor", 0, 4)
    BY ColumnsAre DEF Is
  <2> QED BY <2>1, ValueRight
<1>3. /\ Right(Layout!Value("AssemblyRef", 1, 4))
      /\ Right(Layout!Heap("AssemblyRef", 2, "blob"))
      /\ Right(Layout!Heap("AssemblyRef", 3, "string"))
      /\ Right(Layout!Heap("AssemblyRef", 4, "string"))
  <2>1. /\ Is("AssemblyRef", 1, 4)
        /\ Is("AssemblyRef", 2, Layout!blob_index_size)
        /\ Is("AssemblyRef", 3, Layout!string_index_size)
        /\ Is("AssemblyRef", 4, Layout!string_index_size)
    BY ColumnsAre DEF Is
  <2> QED BY <2>1, ValueRight, BlobRight, StringRight
<1>4. Right(Layout!Value("AssemblyRefProcessor", 0, 4))
  <2>1. Is("AssemblyRefProcessor", 0, 4)
    BY ColumnsAre DEF Is
  <2> QED BY <2>1, ValueRight
<1>5. /\ Right(Layout!Value("GenericParam", 0, 2))
      /\ Right(Layout!Value("GenericParam", 1, 2))
      /\ Right(Layout!CodedIndex("GenericParam", 2, "TypeOrMethodDef"))
      /\ Right(Layout!Heap("GenericParam", 3, "string"))
  <2>1. /\ Is("GenericParam", 0, 2)
        /\ Is("GenericParam", 1, 2)
        /\ Is("GenericParam", 2, Layout!Composite["TypeOrMethodDef"])
        /\ Is("GenericParam", 3, Layout!string_index_size)
    BY ColumnsAre DEF Is
  <2> QED BY <2>1, ValueRight, CodedRight, CodedNames, StringRight
<1>6. /\ Right(Layout!Value("AssemblyOS", 0, 4))
      /\ Right(Layout!Value("AssemblyOS", 1, 4))
      /\ Right(Layout!Value("AssemblyOS", 2, 4))
  <2>1. /\ Is("AssemblyOS", 0, 4)
        /\ Is("AssemblyOS", 1, 4)
        /\ Is("AssemblyOS", 2, 4)
    BY ColumnsAre DEF Is
  <2> QED BY <2>1, ValueRight
<1>7. /\ Right(Layout!Value("AssemblyRefOS", 0, 4))
      /\ Right(Layout!Value("AssemblyRefOS", 1, 4))
      /\ Right(Layout!Value("AssemblyRefOS", 2, 4))
  <2>1. /\ Is("AssemblyRefOS", 0, 4)
        /\ Is("AssemblyRefOS", 1, 4)
        /\ Is("AssemblyRefOS", 2, 4)
    BY ColumnsAre DEF Is
  <2> QED BY <2>1, ValueRight
<1>8. Right(Layout!HashValue)
  <2>1. CASE Layout!string_index_size # Layout!blob_index_size
    BY <2>1 DEF Right, Layout!KnownMisfits, Layout!HashValue
  <2>2. CASE Layout!string_index_size = Layout!blob_index_size
    <3>1. Is("AssemblyRef", 5, Layout!blob_index_size) BY ColumnsAre DEF Is
    <3> QED BY <2>2, <3>1, StringRight DEF Layout!HashValue
  <2> QED BY <2>1, <2>2
<1> QED BY <1>1, <1>2, <1>3, <1>4, <1>5, <1>6, <1>7, <1>8 DEF Layout!AssemblyAccessors

LEMMA ListAccessorRight == ASSUME Sized PROVE \A a \in Layout!ListAccessors : Right(a)
<1>1. /\ Right(Layout!Target("TypeDef", 4, "Field"))
      /\ Right(Layout!Target("TypeDef", 5, "MethodDef"))
  <2>1. /\ Is("TypeDef", 4, Layout!index_size("Field"))
        /\ Is("TypeDef", 5, Layout!index_size("MethodDef"))
    BY ColumnsAre DEF Is
  <2> QED BY <2>1, RowRight
<1>2. Right(Layout!Target("MethodDef", 5, "Param"))
  <2>1. Is("MethodDef", 5, Layout!index_size("Param"))
    BY ColumnsAre DEF Is
  <2> QED BY <2>1, RowRight
<1>3. Right(Layout!Target("InterfaceImpl", 0, "TypeDef"))
  <2>1. Is("InterfaceImpl", 0, Layout!index_size("TypeDef"))
    BY ColumnsAre DEF Is
  <2> QED BY <2>1, RowRight
<1>4. Right(Layout!Target("MethodSemantics", 1, "MethodDef"))
  <2>1. Is("MethodSemantics", 1, Layout!index_size("MethodDef"))
    BY ColumnsAre DEF Is
  <2> QED BY <2>1, RowRight
<1>5. /\ Right(Layout!Target("PropertyMap", 0, "TypeDef"))
      /\ Right(Layout!Target("PropertyMap", 1, "Property"))
  <2>1. /\ Is("PropertyMap", 0, Layout!index_size("TypeDef"))
        /\ Is("PropertyMap", 1, Layout!index_size("Property"))
    BY ColumnsAre DEF Is
  <2> QED BY <2>1, RowRight
<1>6. /\ Right(Layout!Target("EventMap", 0, "TypeDef"))
      /\ Right(Layout!Target("EventMap", 1, "Event"))
  <2>1. /\ Is("EventMap", 0, Layout!index_size("TypeDef"))
        /\ Is("EventMap", 1, Layout!index_size("Event"))
    BY ColumnsAre DEF Is
  <2> QED BY <2>1, RowRight
<1>7. Right(Layout!Target("MethodImpl", 0, "TypeDef"))
  <2>1. Is("MethodImpl", 0, Layout!index_size("TypeDef"))
    BY ColumnsAre DEF Is
  <2> QED BY <2>1, RowRight
<1> QED BY <1>1, <1>2, <1>3, <1>4, <1>5, <1>6, <1>7 DEF Layout!ListAccessors

LEMMA RowAccessorRight == ASSUME Sized PROVE \A a \in Layout!RowAccessors : Right(a)
<1>1. Right(Layout!Value("Assembly", 1, 8))
  <2>1. Is("Assembly", 1, 8)
    BY ColumnsAre DEF Is
  <2> QED BY <2>1, ValueRight
<1>2. Right(Layout!Value("AssemblyRef", 0, 8))
  <2>1. Is("AssemblyRef", 0, 8)
    BY ColumnsAre DEF Is
  <2> QED BY <2>1, ValueRight
<1>3. Right(Layout!Target("AssemblyRefOS", 3, "AssemblyRef"))
  <2>1. Is("AssemblyRefOS", 3, Layout!index_size("AssemblyRef"))
    BY ColumnsAre DEF Is
  <2> QED BY <2>1, RowRight
<1>4. Right(Layout!Target("ClassLayout", 2, "TypeDef"))
  <2>1. Is("ClassLayout", 2, Layout!index_size("TypeDef"))
    BY ColumnsAre DEF Is
  <2> QED BY <2>1, RowRight
<1>5. /\ Right(Layout!Target("NestedClass", 0, "TypeDef"))
      /\ Right(Layout!Target("NestedClass", 1, "TypeDef"))
  <2>1. /\ Is("NestedClass", 0, Layout!index_size("TypeDef"))
        /\ Is("NestedClass", 1, Layout!index_size("TypeDef"))
    BY ColumnsAre DEF Is
  <2> QED BY <2>1, RowRight
<1>6. Right(Layout!ProcessorOf) BY DEF Right, Layout!KnownMisfits
<1> QED BY <1>1, <1>2, <1>3, <1>4, <1>5, <1>6 DEF Layout!RowAccessors

LEMMA ValueAccessorRight == ASSUME Sized PROVE \A a \in Layout!ValueAccessors : Right(a)
<1>1. Right(Layout!Heap("Constant", 2, "blob"))
  <2>1. Is("Constant", 2, Layout!blob_index_size)
    BY ColumnsAre DEF Is
  <2> QED BY <2>1, BlobRight
<1>2. Right(Layout!Heap("CustomAttribute", 2, "blob"))
  <2>1. Is("CustomAttribute", 2, Layout!blob_index_size)
    BY ColumnsAre DEF Is
  <2> QED BY <2>1, BlobRight
<1> QED BY <1>1, <1>2 DEF Layout!ValueAccessors

LEMMA AccessorsRight == ASSUME Sized PROVE \A a \in Layout!Accessors : Right(a)
BY TypeAccessorRight, MemberAccessorRight, LayoutAccessorRight, AssemblyAccessorRight,
   ListAccessorRight, RowAccessorRight, ValueAccessorRight DEF Layout!Accessors

-----------------------------------------------------------------------------
\* The tables are set in the order of their numbers.
LEMMA InOrder ==
    /\ Len(Layout!DataOrder) = 38
    /\ \A i \in 1..38 : Layout!DataOrder[i] \in Layout!Table
    /\ \A t \in Layout!Table : Layout!Number[t] \in Nat /\ \E i \in 1..38 : Layout!DataOrder[i] = t
    /\ \A i, j \in 1..38 : i < j => Layout!Number[Layout!DataOrder[i]] < Layout!Number[Layout!DataOrder[j]]
<1> DEFINE D == Layout!DataOrder
           N == Layout!Number
<1>1. /\ D[1] = "Module" /\ D[2] = "TypeRef" /\ D[3] = "TypeDef"
      /\ D[4] = "Field" /\ D[5] = "MethodDef" /\ D[6] = "Param"
      /\ D[7] = "InterfaceImpl" /\ D[8] = "MemberRef" /\ D[9] = "Constant"
      /\ D[10] = "CustomAttribute" /\ D[11] = "FieldMarshal" /\ D[12] = "DeclSecurity"
      /\ D[13] = "ClassLayout" /\ D[14] = "FieldLayout" /\ D[15] = "StandAloneSig"
      /\ D[16] = "EventMap" /\ D[17] = "Event" /\ D[18] = "PropertyMap"
      /\ D[19] = "Property" /\ D[20] = "MethodSemantics" /\ D[21] = "MethodImpl"
      /\ D[22] = "ModuleRef" /\ D[23] = "TypeSpec" /\ D[24] = "ImplMap"
      /\ D[25] = "FieldRVA" /\ D[26] = "Assembly" /\ D[27] = "AssemblyProcessor"
      /\ D[28] = "AssemblyOS" /\ D[29] = "AssemblyRef" /\ D[30] = "AssemblyRefProcessor"
      /\ D[31] = "AssemblyRefOS" /\ D[32] = "File" /\ D[33] = "ExportedType"
      /\ D[34] = "ManifestResource" /\ D[35] = "NestedClass" /\ D[36] = "GenericParam"
      /\ D[37] = "MethodSpec" /\ D[38] = "GenericParamConstraint"
  BY DEF Layout!DataOrder
<1>2. /\ N["Module"] = 0 /\ N["TypeRef"] = 1 /\ N["TypeDef"] = 2
      /\ N["Field"] = 4 /\ N["MethodDef"] = 6 /\ N["Param"] = 8
      /\ N["InterfaceImpl"] = 9 /\ N["MemberRef"] = 10 /\ N["Constant"] = 11
      /\ N["CustomAttribute"] = 12 /\ N["FieldMarshal"] = 13 /\ N["DeclSecurity"] = 14
      /\ N["ClassLayout"] = 15 /\ N["FieldLayout"] = 16 /\ N["StandAloneSig"] = 17
      /\ N["EventMap"] = 18 /\ N["Event"] = 20 /\ N["PropertyMap"] = 21
      /\ N["Property"] = 23 /\ N["MethodSemantics"] = 24 /\ N["MethodImpl"] = 25
      /\ N["ModuleRef"] = 26 /\ N["TypeSpec"] = 27 /\ N["ImplMap"] = 28
      /\ N["FieldRVA"] = 29 /\ N["Assembly"] = 32 /\ N["AssemblyProcessor"] = 33
      /\ N["AssemblyOS"] = 34 /\ N["AssemblyRef"] = 35 /\ N["AssemblyRefProcessor"] = 36
      /\ N["AssemblyRefOS"] = 37 /\ N["File"] = 38 /\ N["ExportedType"] = 39
      /\ N["ManifestResource"] = 40 /\ N["NestedClass"] = 41 /\ N["GenericParam"] = 42
      /\ N["MethodSpec"] = 43 /\ N["GenericParamConstraint"] = 44
  BY DEF Layout!Number
<1>3. Len(D) = 38 BY DEF Layout!DataOrder
<1> HIDE DEF D, N
<1>4. \A i \in 1..38 : D[i] \in Layout!Table BY <1>1, TableNames
<1>5. \A t \in Layout!Table : N[t] \in Nat /\ \E i \in 1..38 : D[i] = t BY <1>1, <1>2, TableNames
<1>6. \A i \in 1..3 : N[D[i]] = i - 1 BY <1>1, <1>2
<1>7. N[D[4]] = 4 BY <1>1, <1>2
<1>8. N[D[5]] = 6 BY <1>1, <1>2
<1>9. \A i \in 6..16 : N[D[i]] = i + 2 BY <1>1, <1>2
<1>10. \A i \in 17..18 : N[D[i]] = i + 3 BY <1>1, <1>2
<1>11. \A i \in 19..25 : N[D[i]] = i + 4 BY <1>1, <1>2
<1>12. \A i \in 26..38 : N[D[i]] = i + 6 BY <1>1, <1>2
<1>13. \A i, j \in 1..38 : i < j => N[D[i]] < N[D[j]]
  BY <1>6, <1>7, <1>8, <1>9, <1>10, <1>11, <1>12
<1> QED BY <1>3, <1>4, <1>5, <1>13 DEF D, N

\* Rows are as long as their columns together, and not longer than 48 bytes.
LEMMA RowsShort ==
    ASSUME Sized
    PROVE  \A t \in Layout!Table :
              /\ Len(columns[t]) \in 1..6 /\ Layout!row_size(t) \in 0..48
              /\ Layout!ToSet(columns[t]) \subseteq {1, 2, 4, 8}
<1> TAKE t \in Layout!Table
<1> DEFINE s == columns[t]
           size(i) == IF i <= Len(s) THEN s[i] ELSE 0
<1>1. s \in Seq({2, 4, 8}) /\ Len(s) \in 1..6 BY ColumnsFit DEF Sized, Fit
<1>2. Layout!row_size(t) = size(1) + size(2) + size(3) + size(4) + size(5) + size(6)
  BY DEF Layout!row_size
<1> HIDE DEF s
<1>3. \A i \in 1..6 : size(i) \in {0, 2, 4, 8} BY <1>1
<1>4. Layout!ToSet(s) \subseteq {1, 2, 4, 8} BY <1>1 DEF Layout!ToSet
<1> HIDE DEF size
<1>5. size(1) + size(2) + size(3) + size(4) + size(5) + size(6) \in 0..48 BY <1>3
<1> QED BY <1>1, <1>2, <1>4, <1>5 DEF s

-----------------------------------------------------------------------------
(* The layout step by step *)

\* What is known of the sizes when they are known, and what is not set before.
LayoutTypes ==
    /\ file \in Files /\ next \in 1..39
    /\ pc \in {"counts", "columns", "data", "ready", "threw"}
    /\ row_count \in [Layout!Table -> Nat]
    /\ columns = IF pc \in {"data", "ready"} THEN Layout!Columns ELSE << >>
    /\ pc \in {"columns", "data", "ready"} =>
          /\ "other" \notin DOMAIN file.rows
          /\ row_count = [t \in Layout!Table |-> IF t \in DOMAIN file.rows THEN file.rows[t] ELSE 0]
    /\ pc \in {"counts", "columns", "threw"} => data = << >> /\ next = 1
    /\ pc = "counts" => view = 24
    /\ pc = "columns" => view = 24 + 4 * Layout!Cardinality(DOMAIN file.rows)
    /\ pc = "ready" => next = 39

\* The tables with rows, those before a table, and where the rows of a table end.
Used == {t \in Layout!Table : row_count[t] # 0}
Lower(t) == {u \in Used : Layout!Number[u] < Layout!Number[t]}
EndOf(u) == data[u] + row_count[u] * Layout!row_size(u)

\* The tables that were set are in place, and the next one goes where the view is.
SetSoFar == DOMAIN data = {t \in Used : \E i \in 1..(next - 1) : Layout!DataOrder[i] = t}
InPlace(t) ==
    \/ Lower(t) = {} /\ data[t] = 24 + 4 * Layout!Cardinality(DOMAIN file.rows)
    \/ \E u \in Lower(t) : /\ \A v \in Lower(t) : Layout!Number[v] <= Layout!Number[u]
                           /\ u \in DOMAIN data /\ data[t] = EndOf(u)
ViewInPlace ==
    \/ DOMAIN data = {} /\ view = 24 + 4 * Layout!Cardinality(DOMAIN file.rows)
    \/ \E u \in DOMAIN data : /\ \A v \in DOMAIN data : Layout!Number[v] <= Layout!Number[u]
                              /\ view = EndOf(u)
Places == pc \in {"data", "ready"} =>
              SetSoFar /\ ViewInPlace /\ \A t \in DOMAIN data : InPlace(t)

LayoutInv == LayoutTypes /\ Places

LEMMA LayoutStarts == ASSUME Layout!Init PROVE LayoutInv
<1>1. /\ file \in Files /\ row_count = [t \in Layout!Table |-> 0] /\ columns = << >> /\ data = << >>
      /\ view = 24 /\ next = 1 /\ pc = "counts"
  BY DEF Layout!Init
<1>2. row_count \in [Layout!Table -> Nat] BY <1>1
<1> QED BY <1>1, <1>2 DEF LayoutInv, LayoutTypes, Places

LEMMA CountsRead == ASSUME LayoutInv, Layout!ReadRowCounts PROVE LayoutInv'
<1>1. /\ pc = "counts" /\ file' = file /\ columns' = columns /\ data' = data /\ next' = next
      /\ file \in Files /\ columns = << >> /\ data = << >> /\ next = 1 /\ view = 24
  BY DEF Layout!ReadRowCounts, LayoutInv, LayoutTypes
<1>2. CASE "other" \in DOMAIN file.rows
  <2>1. pc' = "threw" /\ row_count' = row_count BY <1>2 DEF Layout!ReadRowCounts
  <2> QED BY <1>1, <2>1 DEF LayoutInv, LayoutTypes, Places
<1>3. CASE "other" \notin DOMAIN file.rows
  <2>1. /\ row_count' = [t \in Layout!Table |-> IF t \in DOMAIN file.rows THEN file.rows[t] ELSE 0]
        /\ view' = view + 4 * Layout!Cardinality(DOMAIN file.rows) /\ pc' = "columns"
    BY <1>3 DEF Layout!ReadRowCounts
  <2>2. \A t \in DOMAIN file.rows : file.rows[t] \in Nat BY <1>1, StreamsAssumption
  <2>3. row_count' \in [Layout!Table -> Nat] BY <2>1, <2>2
  <2> QED BY <1>1, <1>3, <2>1, <2>3 DEF LayoutInv, LayoutTypes, Places
<1> QED BY <1>2, <1>3

\* The sizes depend only on the file and its row counts.
LEMMA SameColumns ==
    ASSUME file' = file, row_count' = row_count
    PROVE  Layout!Columns' = Layout!Columns
<1>1. /\ Layout!string_index_size' = Layout!string_index_size
      /\ Layout!guid_index_size' = Layout!guid_index_size
      /\ Layout!blob_index_size' = Layout!blob_index_size
  BY DEF Layout!string_index_size, Layout!guid_index_size, Layout!blob_index_size
<1>2. Layout!Composite' = Layout!Composite BY DEF Layout!Composite, Layout!composite_index_size
<1> QED BY <1>1, <1>2 DEF Layout!Columns, Layout!index_size

LEMMA ColumnsSet == ASSUME LayoutInv, Layout!SetColumns PROVE LayoutInv'
<1>1. /\ pc = "columns" /\ columns' = Layout!Columns /\ pc' = "data" /\ file' = file
      /\ row_count' = row_count /\ data' = data /\ view' = view /\ next' = next
  BY DEF Layout!SetColumns
<1>2. data = << >> /\ next = 1 /\ view = 24 + 4 * Layout!Cardinality(DOMAIN file.rows)
  BY <1>1 DEF LayoutInv, LayoutTypes
<1>3. LayoutTypes' BY <1>1, SameColumns DEF LayoutInv, LayoutTypes
<1>4. DOMAIN data' = {} BY <1>1, <1>2
<1>5. SetSoFar' BY <1>1, <1>2, <1>4 DEF SetSoFar
<1>6. ViewInPlace' BY <1>1, <1>2, <1>4 DEF ViewInPlace
<1> QED BY <1>3, <1>4, <1>5, <1>6 DEF LayoutInv, Places

\* A table of which nothing is set is behind all that were set.
LEMMA BeforeNext ==
    ASSUME LayoutInv, pc = "data", next <= 38
    PROVE  /\ Layout!DataOrder[next] \in Layout!Table \ DOMAIN data
           /\ DOMAIN data = Lower(Layout!DataOrder[next])
<1> DEFINE t == Layout!DataOrder[next]
<1>1. next \in 1..38 BY DEF LayoutInv, LayoutTypes
<1>2. DOMAIN data = {u \in Used : \E i \in 1..(next - 1) : Layout!DataOrder[i] = u}
  BY DEF LayoutInv, Places, SetSoFar
<1>3. ASSUME NEW u \in Used
      PROVE  (\E i \in 1..(next - 1) : Layout!DataOrder[i] = u) <=> Layout!Number[u] < Layout!Number[t]
  <2>1. PICK i \in 1..38 : Layout!DataOrder[i] = u BY InOrder DEF Used
  <2>2. \A j \in 1..38 : Layout!Number[Layout!DataOrder[j]] \in Nat BY InOrder
  <2>3. \A j, k \in 1..38 : j < k => Layout!Number[Layout!DataOrder[j]] < Layout!Number[Layout!DataOrder[k]]
    BY InOrder
  <2>4. \A j \in 1..(next - 1) : j \in 1..38 /\ j < next BY <1>1
  <2>5. ASSUME NEW j \in 1..(next - 1), Layout!DataOrder[j] = u
        PROVE  Layout!Number[u] < Layout!Number[t]
    BY <1>1, <2>3, <2>4, <2>5
  <2>6. ASSUME Layout!Number[u] < Layout!Number[t] PROVE i \in 1..(next - 1)
    <3>1. ~(next < i)
      <4>1. next < i => Layout!Number[t] < Layout!Number[u] BY <1>1, <2>1, <2>3
      <4> QED BY <1>1, <2>1, <2>2, <2>6, <4>1
    <3>2. i # next BY <1>1, <2>1, <2>2, <2>6
    <3> QED BY <1>1, <2>1, <3>1, <3>2
  <2> QED BY <2>1, <2>5, <2>6
<1>4. t \in Layout!Table /\ Layout!Number[t] \in Nat BY <1>1, InOrder
<1>5. DOMAIN data = Lower(t) BY <1>2, <1>3 DEF Lower
<1> QED BY <1>4, <1>5 DEF Lower

\* What stays where the rows and sizes stay.
LEMMA SamePlaces ==
    ASSUME file' = file, row_count' = row_count, columns' = columns
    PROVE  /\ Used' = Used /\ (\A t : Lower(t)' = Lower(t))
           /\ \A t : Layout!row_size(t)' = Layout!row_size(t)
BY DEF Used, Lower, Layout!row_size

LEMMA DataSet == ASSUME LayoutInv, Layout!SetData PROVE LayoutInv'
<1>0. PICK t : t = Layout!DataOrder[next] OBVIOUS
<1>1. /\ pc = "data" /\ next <= 38 /\ next' = next + 1 /\ pc' = pc
      /\ file' = file /\ row_count' = row_count /\ columns' = columns
      /\ IF row_count[t] # 0
         THEN /\ data' = [u \in DOMAIN data \cup {t} |-> IF u = t THEN view ELSE data[u]]
              /\ view' = view + row_count[t] * Layout!row_size(t)
         ELSE data' = data /\ view' = view
  BY <1>0, InOrder DEF Layout!SetData
<1>2. next \in 1..38 BY <1>1 DEF LayoutInv, LayoutTypes
<1>3. LayoutTypes'
  <2>1. Layout!Columns' = Layout!Columns BY <1>1, SameColumns
  <2> QED BY <1>1, <1>2, <2>1 DEF LayoutInv, LayoutTypes
<1>4. t \in Layout!Table /\ t \notin DOMAIN data /\ DOMAIN data = Lower(t) BY <1>0, <1>1, BeforeNext
<1>5. /\ Used' = Used /\ (\A u : Lower(u)' = Lower(u))
      /\ \A u : Layout!row_size(u)' = Layout!row_size(u)
  BY <1>1, SamePlaces
<1>6. SetSoFar /\ ViewInPlace /\ \A u \in DOMAIN data : InPlace(u)
  BY <1>1 DEF LayoutInv, Places
<1>7. \A u : (\E i \in 1..(next' - 1) : Layout!DataOrder[i] = u)
               <=> u = t \/ \E i \in 1..(next - 1) : Layout!DataOrder[i] = u
  BY <1>0, <1>1, <1>2
<1>8. CASE row_count[t] = 0
  <2>1. data' = data /\ view' = view /\ t \notin Used BY <1>1, <1>8 DEF Used
  <2>2. SetSoFar' BY <1>5, <1>6, <1>7, <2>1 DEF SetSoFar
  <2>3. \A u : EndOf(u)' = EndOf(u) BY <1>1, <1>5, <2>1 DEF EndOf
  <2>4. ViewInPlace' BY <1>1, <1>6, <2>1, <2>3 DEF ViewInPlace
  <2>5. \A u \in DOMAIN data : InPlace(u)' BY <1>1, <1>5, <1>6, <2>1, <2>3 DEF InPlace
  <2> QED BY <1>3, <2>1, <2>2, <2>4, <2>5 DEF LayoutInv, Places
<1>9. CASE row_count[t] # 0
  <2>1. /\ data' = [u \in DOMAIN data \cup {t} |-> IF u = t THEN view ELSE data[u]]
        /\ view' = view + row_count[t] * Layout!row_size(t) /\ t \in Used
    BY <1>1, <1>4, <1>9 DEF Used
  <2>2. /\ DOMAIN data' = DOMAIN data \cup {t} /\ data'[t] = view
        /\ \A u \in DOMAIN data : data'[u] = data[u]
    BY <1>4, <2>1
  <2>3. SetSoFar' BY <1>5, <1>6, <1>7, <2>1, <2>2 DEF SetSoFar
  <2>4. \A u \in DOMAIN data : EndOf(u)' = EndOf(u) BY <1>1, <1>5, <2>2 DEF EndOf
  <2>5. ViewInPlace'
    <3>1. view' = EndOf(t)' BY <1>1, <1>5, <2>1, <2>2 DEF EndOf
    <3>2. \A v \in DOMAIN data' : Layout!Number[v] <= Layout!Number[t]
      <4>1. \A v \in DOMAIN data : Layout!Number[v] < Layout!Number[t] BY <1>4 DEF Lower
      <4>2. \A v \in DOMAIN data \cup {t} : Layout!Number[v] \in Nat
        BY <1>4, InOrder DEF Lower, Used
      <4> QED BY <2>2, <4>1, <4>2
    <3> QED BY <2>2, <3>1, <3>2 DEF ViewInPlace
  <2>6. InPlace(t)' BY <1>1, <1>4, <1>5, <1>6, <2>2, <2>4 DEF InPlace, ViewInPlace
  <2>7. ASSUME NEW u \in DOMAIN data PROVE InPlace(u)'
    BY <1>1, <1>5, <1>6, <2>2, <2>4 DEF InPlace
  <2> QED BY <1>3, <2>2, <2>3, <2>5, <2>6, <2>7 DEF LayoutInv, Places
<1> QED BY <1>8, <1>9

LEMMA OtherLayout ==
    ASSUME LayoutInv, Layout!Ready \/ Layout!Done \/ UNCHANGED Layout!vars
    PROVE  LayoutInv'
<1>1. UNCHANGED <<file, row_count, columns, data, view, next>>
  BY DEF Layout!Ready, Layout!Done, Layout!vars
<1>2. Layout!Columns' = Layout!Columns BY <1>1, SameColumns
<1>3. LayoutTypes'
  <2>1. CASE Layout!Ready
    <3>1. pc = "data" /\ pc' = "ready" /\ next > Len(Layout!DataOrder) BY <2>1 DEF Layout!Ready
    <3>2. next \in 1..39 /\ Len(Layout!DataOrder) = 38
      <4>1. Len(Layout!DataOrder) = 38 BY InOrder
      <4> QED BY <4>1 DEF LayoutInv, LayoutTypes
    <3>3. next = 39 BY <3>1, <3>2
    <3> QED BY <1>1, <1>2, <3>1, <3>3 DEF LayoutInv, LayoutTypes
  <2>2. CASE Layout!Done \/ UNCHANGED Layout!vars
    BY <1>1, <1>2, <2>2 DEF LayoutInv, LayoutTypes, Layout!Done, Layout!vars
  <2> QED BY <2>1, <2>2
<1>4. /\ Used' = Used /\ (\A t : Lower(t)' = Lower(t))
      /\ \A t : Layout!row_size(t)' = Layout!row_size(t)
  BY <1>1, SamePlaces
<1>5. \A u : EndOf(u)' = EndOf(u) BY <1>1, <1>4 DEF EndOf
<1>6. pc' \in {"data", "ready"} => pc \in {"data", "ready"}
  BY DEF Layout!Ready, Layout!Done, Layout!vars
<1>7. SetSoFar => SetSoFar' BY <1>1, <1>4 DEF SetSoFar
<1>8. ViewInPlace => ViewInPlace' BY <1>1, <1>5 DEF ViewInPlace
<1>9. \A t : InPlace(t) => InPlace(t)' BY <1>1, <1>4, <1>5 DEF InPlace
<1> QED BY <1>1, <1>3, <1>6, <1>7, <1>8, <1>9 DEF LayoutInv, Places

LEMMA LayoutStep == ASSUME LayoutInv, [Layout!Next]_(Layout!vars) PROVE LayoutInv'
BY CountsRead, ColumnsSet, DataSet, OtherLayout DEF Layout!Next

-----------------------------------------------------------------------------

LEMMA LayoutRight ==
    ASSUME LayoutInv
    PROVE  /\ Layout!TypeOK /\ Layout!ColumnsAreTheFiles
           /\ Layout!TablesInPlace /\ Layout!CodedIndexesFindTheirRow
<1>1. pc \in {"data", "ready"} => Sized BY DEF LayoutInv, LayoutTypes, Sized
<1>2. Layout!TypeOK
  <2>1. DOMAIN data \subseteq Layout!Table
    <3>1. CASE pc \in {"data", "ready"} BY <3>1 DEF LayoutInv, Places, SetSoFar, Used
    <3>2. CASE pc \notin {"data", "ready"}
      <4>1. data = << >> BY <3>2 DEF LayoutInv, LayoutTypes
      <4> QED BY <4>1
    <3> QED BY <3>1, <3>2
  <2>2. next \in 1..(Len(Layout!DataOrder) + 1)
    <3>1. next \in 1..39 BY DEF LayoutInv, LayoutTypes
    <3>2. Len(Layout!DataOrder) = 38 BY InOrder
    <3> QED BY <3>1, <3>2
  <2>3. CASE pc \in {"data", "ready"}
    <3>1. Sized /\ DOMAIN columns = Layout!Table BY <1>1, <2>3, TablesHaveColumns DEF Sized
    <3>2. \A t \in DOMAIN columns :
             /\ t \in Layout!Table /\ Len(columns[t]) \in 1..6 /\ Layout!row_size(t) < 255
             /\ Layout!ToSet(columns[t]) \subseteq {1, 2, 4, 8}
      BY <3>1, RowsShort
    <3> QED BY <2>1, <2>2, <2>3, <3>1, <3>2 DEF Layout!TypeOK
  <2>4. CASE pc \notin {"data", "ready"}
    <3>1. columns = << >> /\ DOMAIN << >> = {} BY <2>4 DEF LayoutInv, LayoutTypes
    <3>2. pc \in {"counts", "columns", "data", "ready", "threw"} BY DEF LayoutInv, LayoutTypes
    <3> QED BY <2>1, <2>2, <3>1, <3>2 DEF Layout!TypeOK
  <2> QED BY <2>3, <2>4
<1>3. Layout!ColumnsAreTheFiles BY <1>1, AccessorsRight DEF Layout!ColumnsAreTheFiles, Right
<1>4. Layout!TablesInPlace
  <2> SUFFICES ASSUME pc = "ready" PROVE Layout!TablesInPlace BY DEF Layout!TablesInPlace
  <2> DEFINE present == {t \in DOMAIN file.rows : file.rows[t] # 0}
  <2>1. /\ "other" \notin DOMAIN file.rows /\ file \in Files /\ next = 39
        /\ row_count = [t \in Layout!Table |-> IF t \in DOMAIN file.rows THEN file.rows[t] ELSE 0]
        /\ SetSoFar /\ \A t \in DOMAIN data : InPlace(t)
    BY DEF LayoutInv, LayoutTypes, Places
  <2>2. DOMAIN file.rows \subseteq Layout!Table BY <2>1, StreamsAssumption
  <2>3. present = Used /\ \A t \in present : row_count[t] = file.rows[t] BY <2>1, <2>2 DEF Used
  <2>4. DOMAIN data = Used
    <3>1. \A t \in Used : \E i \in 1..38 : Layout!DataOrder[i] = t BY InOrder DEF Used
    <3>2. 1..(next - 1) = 1..38 BY <2>1
    <3> QED BY <2>1, <3>1, <3>2 DEF SetSoFar
  <2>5. ASSUME NEW t \in present
        PROVE  /\ t \in DOMAIN data
               /\ \/ /\ {u \in present : Layout!Number[u] < Layout!Number[t]} = {}
                     /\ data[t] = 24 + 4 * Layout!Cardinality(DOMAIN file.rows)
                  \/ \E u \in {w \in present : Layout!Number[w] < Layout!Number[t]} :
                       /\ \A v \in {w \in present : Layout!Number[w] < Layout!Number[t]} :
                             Layout!Number[v] <= Layout!Number[u]
                       /\ data[t] = data[u] + file.rows[u] * Layout!row_size(u)
    <3> HIDE DEF present
    <3>1. t \in DOMAIN data /\ InPlace(t) BY <2>1, <2>3, <2>4
    <3>2. Lower(t) = {u \in present : Layout!Number[u] < Layout!Number[t]} BY <2>3 DEF Lower
    <3>3. \A u \in Lower(t) : EndOf(u) = data[u] + file.rows[u] * Layout!row_size(u)
      BY <2>3, <3>2 DEF EndOf
    <3> QED BY <3>1, <3>2, <3>3 DEF InPlace
  <2> QED BY <2>5, Zenon DEF Layout!TablesInPlace
<1>5. Layout!CodedIndexesFindTheirRow
  <2>1. ASSUME NEW c \in Layout!Coded, NEW t \in Layout!NamedBy(c), NEW n \in {0, row_count[t]}
        PROVE  /\ Layout!TypeOf(c, Layout!ValueOf(c, t, n)) = t
               /\ Layout!IndexOf(c, Layout!ValueOf(c, t, n)) = n
    <3>1. n \in Nat BY CodedTables DEF LayoutInv, LayoutTypes
    <3> QED BY <3>1, CodedValues
  <2>2. \A c \in DOMAIN Layout!GetRow : Layout!GetRow[c] \subseteq Layout!NamedBy(c)
    BY NamedAre DEF Layout!GetRow
  <2> QED BY <2>1, <2>2 DEF Layout!CodedIndexesFindTheirRow
<1> QED BY <1>2, <1>3, <1>4, <1>5

LEMMA LayoutAlone ==
    ASSUME part = "layout" => LayoutInv, [ReadersNext]_readersVars
    PROVE  (part = "layout" => LayoutInv)'
<1>1. part' = part BY DEF ReadersNext, readersVars
<1>2. ASSUME part = "layout" PROVE LayoutInv'
  <2>1. [Layout!Next]_(Layout!vars) BY <1>2 DEF ReadersNext, readersVars, layoutVars, Layout!vars
  <2> QED BY <1>2, <2>1, LayoutStep
<1> QED BY <1>1, <1>2

\* Every column is as wide as the accessors take it for, every table is where the
\* file has it, and a coded index leads to its row, whatever the numbers of rows are.
THEOREM LayoutFollowed == ReadersSpec => []LayoutIsTheFiles
<1> DEFINE Inv == part = "layout" => LayoutInv
<1>1. ReadersInit => Inv BY LayoutStarts DEF ReadersInit
<1>2. Inv /\ [ReadersNext]_readersVars => Inv' BY LayoutAlone
<1>3. Inv => LayoutIsTheFiles BY LayoutRight DEF LayoutIsTheFiles
<1> HIDE DEF Inv
<1> QED BY <1>1, <1>2, <1>3, PTL DEF ReadersSpec
=============================================================================
