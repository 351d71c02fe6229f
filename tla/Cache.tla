------------------------------- MODULE Cache --------------------------------
(***************************************************************************)
(* winmd::reader::cache: the databases that were loaded, the types of each  *)
(* namespace by name and by category, and the types nested in a type. The   *)
(* same name may be defined by several databases. References are resolved   *)
(* as in winmd_reader/helpers.h. Namespaces and names are numbers, whose    *)
(* order is the order of std::map.                                          *)
(***************************************************************************)
EXTENDS Naturals, Sequences, SequencesExt, FiniteSetsExt, Functions

CONSTANTS
    Space, Name,
    Inputs,     \* sequences of databases: [types : rows of TypeDef,
                \*   nested : rows of NestedClass, <<nested row, enclosing row>>]
    Removals,   \* <<namespace, name>>: the arguments of remove_type
    None

Kind == {"interfaces", "classes", "enums", "structs", "delegates", "attributes", "contracts"}

\* What the cache reads of a row of TypeDef; "none" is a row without a base.
Row == [space : Space, name : Name,
        flags : BOOLEAN,                       \* Flags().value is not zero
        nested : BOOLEAN,                      \* is_nested: neither public nor not
        interface : BOOLEAN, guid : BOOLEAN,   \* semantics, GuidAttribute
        contract : BOOLEAN,                    \* ApiContractAttribute
        base : {"Enum", "ValueType", "MulticastDelegate", "Attribute", "Object", "none"}]

Database == [types : Seq(Row), nested : Seq(Nat \X Nat)]

\* NestedClass names the rows that are nested, each once, and the rows they are nested in.
WellFormed(d) ==
    /\ d \in Database
    /\ \A j \in DOMAIN d.nested : {d.nested[j][1], d.nested[j][2]} \subseteq DOMAIN d.types
    /\ \A i, j \in DOMAIN d.nested : d.nested[i][1] = d.nested[j][1] => i = j
    /\ \A k \in DOMAIN d.types :
          d.types[k].nested <=> \E j \in DOMAIN d.nested : d.nested[j][1] = k

\* Namespaces and names are numbers, and files have rows of TypeDef and of NestedClass.
ASSUME FilesAssumption ==
    /\ Space \subseteq Nat /\ Name \subseteq Nat
    /\ Inputs \subseteq Seq(Database)
    /\ Removals \subseteq Space \X Name

VARIABLES
    files,           \* the files the cache is made of
    db, row,         \* the database that is read, and the rows of it so far
    types,           \* m_namespaces[..].types: [<<namespace, name>> -> type]
    lists,           \* the other members: [namespace -> [kind -> types]]
    m_nested_types,  \* [enclosing type -> types]
    filed,           \* the keys of types that are in a list
    removed,         \* what remove_type was called with
    pc               \* "types", "nested", "filing", "built" or "threw"

vars == <<files, db, row, types, lists, m_nested_types, filed, removed, pc>>

\* A type is a row of a database.
Types == UNION {{d} \X DOMAIN files[d].types : d \in DOMAIN files}
Def(t) == files[t[1]].types[t[2]]
Key(t) == <<Def(t).space, Def(t).name>>

Init ==
    /\ files \in Inputs /\ \A d \in ToSet(files) : WellFormed(d)
    /\ db = 1 /\ row = 0
    /\ types = << >>
    /\ lists = << >>
    /\ m_nested_types = << >>
    /\ filed = {} /\ removed = {}
    /\ pc = IF files = <<>> THEN "filing" ELSE "types"

-----------------------------------------------------------------------------
(* The constructor *)

\* Fault: a later definition replaces an earlier one.
FaultyWithType(t) == [k \in DOMAIN types \cup {Key(t)} |-> IF k = Key(t) THEN t ELSE types[k]]

\* try_emplace: the first definition of a name stays.
WithType(t) == [k \in DOMAIN types \cup {Key(t)} |-> IF k \in DOMAIN types THEN types[k] ELSE t]

LoadType ==
    /\ pc = "types" /\ db <= Len(files) /\ row < Len(files[db].types)
    /\ row' = row + 1
    /\ LET t == <<db, row'>> IN
       IF Def(t).flags /\ ~Def(t).nested
       THEN /\ types' = WithType(t)
            /\ lists' = [s \in DOMAIN lists \cup {Def(t).space} |->
                            IF s \in DOMAIN lists THEN lists[s] ELSE [k \in Kind |-> <<>>]]
       ELSE UNCHANGED <<types, lists>>
    /\ UNCHANGED <<files, db, m_nested_types, filed, removed, pc>>

TypesLoaded ==
    /\ pc = "types" /\ db <= Len(files) /\ row = Len(files[db].types)
    /\ pc' = "nested" /\ row' = 0
    /\ UNCHANGED <<files, db, types, lists, m_nested_types, filed, removed>>

\* Those that are nested in t, in the order of their rows.
NestedTypes(t) == IF t \in DOMAIN m_nested_types THEN m_nested_types[t] ELSE <<>>

\* The key of m_nested_types for a row that names t as the enclosing type.
Encloser(t) == t

LoadNested ==
    /\ pc = "nested" /\ row < Len(files[db].nested)
    /\ row' = row + 1
    /\ LET e == Encloser(<<db, files[db].nested[row'][2]>>)
           n == <<db, files[db].nested[row'][1]>>
       IN  m_nested_types' =
             [t \in DOMAIN m_nested_types \cup {e} |->
                IF t = e THEN Append(NestedTypes(e), n) ELSE m_nested_types[t]]
    /\ UNCHANGED <<files, db, types, lists, filed, removed, pc>>

NextDatabase ==
    /\ pc = "nested" /\ row = Len(files[db].nested)
    /\ db' = db + 1 /\ row' = 0
    /\ pc' = IF db' > Len(files) THEN "filing" ELSE "types"
    /\ UNCHANGED <<files, types, lists, m_nested_types, filed, removed>>

\* get_category, in the words of the lists.
Category(t) ==
    IF Def(t).interface \/ Def(t).guid THEN "interfaces"
    ELSE [Enum |-> "enums", ValueType |-> "structs", MulticastDelegate |-> "delegates",
          Attribute |-> "classes", Object |-> "classes"][Def(t).base]

\* Where a type is filed: attributes and contracts are lists of their own.
ListOf(t) ==
    CASE Category(t) = "classes" /\ Def(t).base = "Attribute" -> "attributes"
      [] Category(t) = "structs" /\ Def(t).contract -> "contracts"
      [] OTHER -> Category(t)

Filed(t) ==
    [k \in Kind |-> IF k = ListOf(t) THEN Append(lists[Def(t).space][k], t)
                    ELSE lists[Def(t).space][k]]

\* The order of pairs.
Before(k, l) ==
    \/ k[1] < l[1]
    \/ (k[1] = l[1] /\ k[2] < l[2])

\* The next type in the order of the maps. A type that has no base and is no
\* interface has no category: the row it asks for is not there.
FileType ==
    /\ pc = "filing" /\ DOMAIN types # filed
    /\ LET k == CHOOSE k \in DOMAIN types \ filed :
                  \A l \in (DOMAIN types \ filed) \ {k} : Before(k, l)
           t == types[k]
       IN  IF Def(t).base = "none" /\ ~Def(t).interface /\ ~Def(t).guid
           THEN pc' = "threw" /\ UNCHANGED <<lists, filed>>
           ELSE /\ lists' = [lists EXCEPT ![k[1]] = Filed(t)]
                /\ filed' = filed \cup {k}
                /\ UNCHANGED pc
    /\ UNCHANGED <<files, db, row, types, m_nested_types, removed>>

Built ==
    /\ pc = "filing" /\ DOMAIN types = filed
    /\ pc' = "built"
    /\ UNCHANGED <<files, db, row, types, lists, m_nested_types, filed, removed>>

-----------------------------------------------------------------------------
(* What a cache does for its users *)

RemovedFrom == {"interfaces", "classes", "enums", "structs", "delegates"}

\* The first type of a list with this name is erased.
Without(list, name) ==
    LET found == {i \in DOMAIN list : Def(list[i]).name = name}
    IN  IF found = {} THEN list ELSE RemoveAt(list, Min(found))

\* A user of the reader may call it; the generator does not.
RemoveType(space, name) ==
    /\ pc = "built"
    /\ removed' = removed \cup {<<space, name>>}
    /\ lists' = [s \in DOMAIN lists |->
         [k \in Kind |-> IF s = space /\ k \in RemovedFrom
                         THEN Without(lists[s][k], name) ELSE lists[s][k]]]
    /\ UNCHANGED <<files, db, row, types, m_nested_types, filed, pc>>

Done == pc \in {"built", "threw"} /\ UNCHANGED vars

Next ==
    \/ LoadType \/ TypesLoaded \/ LoadNested \/ NextDatabase
    \/ FileType \/ Built \/ Done
    \/ \E k \in Removals : RemoveType(k[1], k[2])

Spec == Init /\ [][Next]_vars

Lookup(space, name) ==
    IF <<space, name>> \in DOMAIN types THEN types[<<space, name>>] ELSE None

\* The first type nested in t with this name.
NestedNamed(t, name) ==
    LET found == {i \in DOMAIN NestedTypes(t) : Def(NestedTypes(t)[i]).name = name}
    IN  IF found = {} THEN None ELSE NestedTypes(t)[Min(found)]

\* A TypeRef is a namespace and the names from the outermost type inwards.
\* find: what it refers to.
Find(ref) ==
    LET upTo[n \in 1..Len(ref.names)] ==
            IF n = 1 THEN Lookup(ref.space, ref.names[1])
            ELSE IF upTo[n - 1] = None THEN None
            ELSE NestedNamed(upTo[n - 1], ref.names[n])
    IN  upTo[Len(ref.names)]

\* EnclosingType: by the NestedClass table of the type's own database.
EnclosingType(t) ==
    LET table == files[t[1]].nested
    IN  <<t[1], table[CHOOSE i \in DOMAIN table : table[i][1] = t[2]][2]>>

\* find_non_nested_root, of a definition and of a reference.
Root(t) ==
    LET rows == Len(files[t[1]].types)
        out[n \in 0..rows] == IF n = 0 THEN t ELSE EnclosingType(out[n - 1])
        depth == CHOOSE n \in 0..rows :
                   /\ ~Def(out[n]).nested
                   /\ \A m \in 0..(n - 1) : Def(out[m]).nested
    IN  out[depth]
RootOf(ref) == Lookup(ref.space, ref.names[1])

-----------------------------------------------------------------------------
(* Properties *)

TypeOK ==
    /\ DOMAIN types \subseteq Space \X Name /\ Range(types) \subseteq Types
    /\ \A s \in DOMAIN lists : \A k \in Kind : \A i \in DOMAIN lists[s][k] :
          lists[s][k][i] \in Range(types)
    /\ \A t \in DOMAIN m_nested_types : ToSet(m_nested_types[t]) \subseteq Types
    /\ filed \subseteq DOMAIN types /\ removed \subseteq Removals
    /\ pc \in {"types", "nested", "filing", "built", "threw"}

\* Whatever databases define a name, and in whichever rows, the one found is that
\* of the first file, in the order of the files, and of the first row in it.
FirstDefinitionFound ==
    pc = "built" =>
    LET loaded == {t \in Types : Def(t).flags /\ ~Def(t).nested}
    IN  \A t \in loaded :
          LET u == Lookup(Def(t).space, Def(t).name)
          IN  /\ u \in loaded /\ Key(u) = Key(t)
              /\ u = t \/ Before(u, t)

\* A type that can be found is in exactly one list of its namespace, so that it is
\* projected once, as one kind of thing; and in none after remove_type,
\* unless it is an attribute or a contract. It can still be found then.
InOneList ==
    pc = "built" =>
    \A k \in DOMAIN types :
       LET places == {p \in UNION {{l} \X DOMAIN lists[k[1]][l] : l \in Kind} :
                        Def(lists[k[1]][p[1]][p[2]]).name = k[2]}
       IN  IF k \in removed /\ ListOf(types[k]) \in RemovedFrom
           THEN places = {}
           ELSE \E p \in places : places = {p}

\* A reference to a nested type never mixes two definitions of its enclosing
\* type: the type it resolves to lies in the definition that its outermost name
\* resolves to, whether one goes out from the definition or from the reference.
RootsAgree ==
    pc = "built" =>
    \A s \in Space, names \in [1..2 -> Name] \cup [1..3 -> Name] :
       LET ref == [space |-> s, names |-> names]
       IN  Find(ref) # None => Root(Find(ref)) = RootOf(ref)
=============================================================================
