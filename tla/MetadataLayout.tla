--------------------------- MODULE MetadataLayout ---------------------------
(***************************************************************************)
(* How database::initialize lays the metadata tables over the "#~" stream:  *)
(* the row counts, the sizes of the columns that depend on them, and where  *)
(* each table starts; and what the accessors of schema.h and column.h take  *)
(* the columns for. The widths come from database.h and the accessors from  *)
(* the other headers, so that the one is checked against the other. In the  *)
(* file the tables follow one another by number, and an index takes 2 bytes *)
(* if every row that it could name fits, otherwise 4.                       *)
(***************************************************************************)
EXTENDS Naturals, Sequences, SequencesExt, FiniteSets

CONSTANT Files  \* [string, guid, blob : which heap indexes are wide,
                \*  rows : the number of rows of each table of the file]

\* The tables and their numbers.
Number ==
    [Module |-> 0, TypeRef |-> 1, TypeDef |-> 2, Field |-> 4, MethodDef |-> 6, Param |-> 8,
     InterfaceImpl |-> 9, MemberRef |-> 10, Constant |-> 11, CustomAttribute |-> 12,
     FieldMarshal |-> 13, DeclSecurity |-> 14, ClassLayout |-> 15, FieldLayout |-> 16,
     StandAloneSig |-> 17, EventMap |-> 18, Event |-> 20, PropertyMap |-> 21, Property |-> 23,
     MethodSemantics |-> 24, MethodImpl |-> 25, ModuleRef |-> 26, TypeSpec |-> 27, ImplMap |-> 28,
     FieldRVA |-> 29, Assembly |-> 32, AssemblyProcessor |-> 33, AssemblyOS |-> 34,
     AssemblyRef |-> 35, AssemblyRefProcessor |-> 36, AssemblyRefOS |-> 37, File |-> 38,
     ExportedType |-> 39, ManifestResource |-> 40, NestedClass |-> 41, GenericParam |-> 42,
     MethodSpec |-> 43, GenericParamConstraint |-> 44]
Table == DOMAIN Number

\* The enumerators of the coded indexes, from 0 on; Permission is a row of DeclSecurity.
Enumerators ==
    [TypeDefOrRef |-> <<"TypeDef", "TypeRef", "TypeSpec">>,
     HasConstant |-> <<"Field", "Param", "Property">>,
     HasCustomAttribute |->
        <<"MethodDef", "Field", "TypeRef", "TypeDef", "Param", "InterfaceImpl", "MemberRef",
          "Module", "DeclSecurity", "Property", "Event", "StandAloneSig", "ModuleRef", "TypeSpec",
          "Assembly", "AssemblyRef", "File", "ExportedType", "ManifestResource", "GenericParam",
          "GenericParamConstraint", "MethodSpec">>,
     HasFieldMarshal |-> <<"Field", "Param">>,
     HasDeclSecurity |-> <<"TypeDef", "MethodDef", "Assembly">>,
     MemberRefParent |-> <<"TypeDef", "TypeRef", "ModuleRef", "MethodDef", "TypeSpec">>,
     HasSemantics |-> <<"Event", "Property">>,
     MethodDefOrRef |-> <<"MethodDef", "MemberRef">>,
     MemberForwarded |-> <<"Field", "MethodDef">>,
     Implementation |-> <<"File", "AssemblyRef", "ExportedType">>,
     CustomAttributeType |-> <<"", "", "MethodDef", "MemberRef">>,
     ResolutionScope |-> <<"Module", "ModuleRef", "AssemblyRef", "TypeRef">>,
     TypeOrMethodDef |-> <<"TypeDef", "MethodDef">>]
Coded == DOMAIN Enumerators

coded_index_bits ==
    [TypeDefOrRef |-> 2, HasConstant |-> 2, HasCustomAttribute |-> 5, HasFieldMarshal |-> 1,
     HasDeclSecurity |-> 2, MemberRefParent |-> 3, HasSemantics |-> 1, MethodDefOrRef |-> 1,
     MemberForwarded |-> 1, Implementation |-> 2, CustomAttributeType |-> 3,
     ResolutionScope |-> 2, TypeOrMethodDef |-> 1]

NamedBy(c) == ToSet(Enumerators[c]) \ {""}

index_tag(c, t) == (CHOOSE i \in 1..Len(Enumerators[c]) : Enumerators[c][i] = t) - 1

\* index_base: the value for a row, and the type and the row of a value.
ValueOf(c, t, row) == (row + 1) * 2^coded_index_bits[c] + index_tag(c, t)
TypeOf(c, value) == Enumerators[c][(value % 2^coded_index_bits[c]) + 1]
IndexOf(c, value) == (value \div 2^coded_index_bits[c]) - 1

\* The tables into which a coded index can be followed, by the methods of its typed_index.
GetRow ==
    [CustomAttributeType |-> {"MemberRef", "MethodDef"},
     HasConstant |-> {"Field", "Param", "Property"},
     HasSemantics |-> {"Property", "Event"},
     MethodDefOrRef |-> {"MethodDef", "MemberRef"},
     ResolutionScope |-> {"Module", "ModuleRef", "AssemblyRef", "TypeRef"},
     TypeDefOrRef |-> {"TypeDef", "TypeRef", "TypeSpec"},
     MemberRefParent |-> {"TypeRef", "TypeDef"}]

-----------------------------------------------------------------------------
(* What the accessors take a column for *)

\* A value of so many bytes, an index of a heap, a row of a table, or a coded index.
Value(t, c, bytes) == [table |-> t, column |-> c, as |-> "value", of |-> "", width |-> bytes]
Heap(t, c, heap) == [table |-> t, column |-> c, as |-> heap, of |-> "", width |-> 0]
Target(t, c, of) == [table |-> t, column |-> c, as |-> "row", of |-> of, width |-> 0]
CodedIndex(t, c, of) == [table |-> t, column |-> c, as |-> "coded", of |-> of, width |-> 0]

\* TypeRef, CustomAttribute, TypeDef, MethodDef and MemberRef.
TypeAccessors ==
    {CodedIndex("TypeRef", 0, "ResolutionScope"), Heap("TypeRef", 1, "string"),
     Heap("TypeRef", 2, "string"), CodedIndex("CustomAttribute", 0, "HasCustomAttribute"),
     CodedIndex("CustomAttribute", 1, "CustomAttributeType"), Value("TypeDef", 0, 4),
     Heap("TypeDef", 1, "string"), Heap("TypeDef", 2, "string"),
     CodedIndex("TypeDef", 3, "TypeDefOrRef"), Value("MethodDef", 0, 4),
     Value("MethodDef", 1, 2), Value("MethodDef", 2, 2), Heap("MethodDef", 3, "string"),
     Heap("MethodDef", 4, "blob"), CodedIndex("MemberRef", 0, "MemberRefParent"),
     Heap("MemberRef", 1, "string"), Heap("MemberRef", 2, "blob")}

\* Module, Field, Param, InterfaceImpl, Constant, FieldMarshal and TypeSpec.
MemberAccessors ==
    {Heap("Module", 1, "string"), Value("Field", 0, 2), Heap("Field", 1, "string"),
     Heap("Field", 2, "blob"), Value("Param", 0, 2), Value("Param", 1, 2),
     Heap("Param", 2, "string"), CodedIndex("InterfaceImpl", 1, "TypeDefOrRef"),
     Value("Constant", 0, 2), CodedIndex("Constant", 1, "HasConstant"),
     CodedIndex("FieldMarshal", 0, "HasFieldMarshal"), Heap("TypeSpec", 0, "blob")}

\* ClassLayout, Event, Property, MethodSemantics and MethodImpl.
LayoutAccessors ==
    {Value("ClassLayout", 0, 2), Value("ClassLayout", 1, 4), Value("Event", 0, 2),
     Heap("Event", 1, "string"), CodedIndex("Event", 2, "TypeDefOrRef"), Value("Property", 0, 2),
     Heap("Property", 1, "string"), Heap("Property", 2, "blob"), Value("MethodSemantics", 0, 2),
     CodedIndex("MethodSemantics", 2, "HasSemantics"),
     CodedIndex("MethodImpl", 1, "MethodDefOrRef"), CodedIndex("MethodImpl", 2, "MethodDefOrRef")}

\* Assembly, AssemblyRef, what belongs to them, and GenericParam. The hash value
\* of a reference is asked for as a string.
HashValue == Heap("AssemblyRef", 5, "string")
AssemblyAccessors ==
    {Value("Assembly", 0, 4), Value("Assembly", 2, 4), Heap("Assembly", 3, "blob"),
     Heap("Assembly", 4, "string"), Heap("Assembly", 5, "string"),
     Value("AssemblyProcessor", 0, 4), Value("AssemblyRef", 1, 4), Heap("AssemblyRef", 2, "blob"),
     Heap("AssemblyRef", 3, "string"), Heap("AssemblyRef", 4, "string"), HashValue,
     Value("AssemblyRefProcessor", 0, 4), Value("GenericParam", 0, 2), Value("GenericParam", 1, 2),
     CodedIndex("GenericParam", 2, "TypeOrMethodDef"), Heap("GenericParam", 3, "string")}
    \cup {Value(t, c, 4) : t \in {"AssemblyOS", "AssemblyRefOS"}, c \in 0..2}

\* The lists of column.h, and the rows that lead to other rows.
ListAccessors ==
    {Target("TypeDef", 4, "Field"), Target("TypeDef", 5, "MethodDef"), Target("MethodDef", 5, "Param"),
     Target("InterfaceImpl", 0, "TypeDef"), Target("MethodSemantics", 1, "MethodDef"),
     Target("PropertyMap", 0, "TypeDef"), Target("PropertyMap", 1, "Property"),
     Target("EventMap", 0, "TypeDef"), Target("EventMap", 1, "Event"),
     Target("MethodImpl", 0, "TypeDef")}

\* Versions and what else leads to an assembly or a type; the processor of a
\* referenced assembly names it in its second column, and is read as having four.
ProcessorOf == Target("AssemblyRefProcessor", 3, "AssemblyRef")
RowAccessors ==
    {Value("Assembly", 1, 8), Value("AssemblyRef", 0, 8), Target("AssemblyRefOS", 3, "AssemblyRef"),
     ProcessorOf, Target("ClassLayout", 2, "TypeDef"), Target("NestedClass", 0, "TypeDef"),
     Target("NestedClass", 1, "TypeDef")}

\* The blobs of constants and of custom attributes.
ValueAccessors == {Heap("Constant", 2, "blob"), Heap("CustomAttribute", 2, "blob")}

Accessors == TypeAccessors \cup MemberAccessors \cup LayoutAccessors
             \cup AssemblyAccessors \cup ListAccessors \cup RowAccessors \cup ValueAccessors

-----------------------------------------------------------------------------

VARIABLES
    file,       \* the stream that is read
    row_count,  \* m_row_count of each table that was found
    columns,    \* m_columns: the sizes of the columns of each table
    data,       \* m_data of each table that has rows
    view,       \* how far the stream was read
    next,       \* the next of the calls of set_data
    pc          \* "counts", "columns", "data", "ready" or "threw"

vars == <<file, row_count, columns, data, view, next, pc>>

Init ==
    /\ file \in Files
    /\ row_count = [t \in Table |-> 0]
    /\ columns = << >> /\ data = << >>
    /\ view = 24 /\ next = 1
    /\ pc = "counts"

\* The loop over the bits of the valid tables. "other" is a table that the
\* format has and this reader does not know.
ReadRowCounts ==
    /\ pc = "counts"
    /\ IF "other" \in DOMAIN file.rows
       THEN pc' = "threw" /\ UNCHANGED <<row_count, view>>
       ELSE /\ row_count' = [t \in Table |-> IF t \in DOMAIN file.rows THEN file.rows[t] ELSE 0]
            /\ view' = view + 4 * Cardinality(DOMAIN file.rows)
            /\ pc' = "columns"
    /\ UNCHANGED <<file, columns, data, next>>

index_size(t) == IF row_count[t] < 2^16 THEN 2 ELSE 4

\* How often a number can be halved before it is 0, once at least: of the numbers of
\* the tables of a coded index, of which there are fewer than 32.
Halvings[n \in 0..31] == IF n \div 2 = 0 THEN 1 ELSE 1 + Halvings[n \div 2]
bits_needed(n) == Halvings[n - 1]

\* Fault: the bits are those of the number itself.
FaultyCompositeSize(tables) ==
    IF \A t \in ToSet(tables) \ {""} : row_count[t] < 2^(16 - Halvings[Len(tables)]) THEN 2 ELSE 4

\* An empty table counts among the tables.
composite_index_size(tables) ==
    IF \A t \in ToSet(tables) \ {""} : row_count[t] < 2^(16 - bits_needed(Len(tables))) THEN 2 ELSE 4

\* The sizes of the coded indexes, from the tables that are listed for them.
Composite ==
    [TypeDefOrRef |-> composite_index_size(<<"TypeDef", "TypeRef", "TypeSpec">>),
     HasConstant |-> composite_index_size(<<"Field", "Param", "Property">>),
     HasCustomAttribute |-> composite_index_size(
        <<"MethodDef", "Field", "TypeRef", "TypeDef", "Param", "InterfaceImpl", "MemberRef", "Module",
          "Property", "Event", "StandAloneSig", "ModuleRef", "TypeSpec", "Assembly", "AssemblyRef",
          "File", "ExportedType", "ManifestResource", "GenericParam", "GenericParamConstraint",
          "MethodSpec">>),
     HasFieldMarshal |-> composite_index_size(<<"Field", "Param">>),
     HasDeclSecurity |-> composite_index_size(<<"TypeDef", "MethodDef", "Assembly">>),
     MemberRefParent |->
        composite_index_size(<<"TypeDef", "TypeRef", "ModuleRef", "MethodDef", "TypeSpec">>),
     HasSemantics |-> composite_index_size(<<"Event", "Property">>),
     MethodDefOrRef |-> composite_index_size(<<"MethodDef", "MemberRef">>),
     MemberForwarded |-> composite_index_size(<<"Field", "MethodDef">>),
     Implementation |-> composite_index_size(<<"File", "AssemblyRef", "ExportedType">>),
     CustomAttributeType |-> composite_index_size(<<"MethodDef", "MemberRef", "", "", "">>),
     ResolutionScope |-> composite_index_size(<<"Module", "ModuleRef", "AssemblyRef", "TypeRef">>),
     TypeOrMethodDef |-> composite_index_size(<<"TypeDef", "MethodDef">>)]

string_index_size == IF file.string THEN 4 ELSE 2

guid_index_size == IF file.guid THEN 4 ELSE 2
blob_index_size == IF file.blob THEN 4 ELSE 2

\* The sizes of the columns of each table.
Columns ==
    LET str == string_index_size
        guid == guid_index_size
        blob == blob_index_size
        size == Composite
    IN
    [Assembly |-> <<4, 8, 4, blob, str, str>>, AssemblyOS |-> <<4, 4, 4>>,
     AssemblyProcessor |-> <<4>>, AssemblyRef |-> <<8, 4, blob, str, str, blob>>,
     AssemblyRefOS |-> <<4, 4, 4, index_size("AssemblyRef")>>,
     AssemblyRefProcessor |-> <<4, index_size("AssemblyRef")>>,
     ClassLayout |-> <<2, 4, index_size("TypeDef")>>,
     Constant |-> <<2, size.HasConstant, blob>>,
     CustomAttribute |-> <<size.HasCustomAttribute, size.CustomAttributeType, blob>>,
     DeclSecurity |-> <<2, size.HasDeclSecurity, blob>>,
     EventMap |-> <<index_size("TypeDef"), index_size("Event")>>,
     Event |-> <<2, str, size.TypeDefOrRef>>,
     ExportedType |-> <<4, 4, str, str, size.Implementation>>,
     Field |-> <<2, str, blob>>, FieldLayout |-> <<4, index_size("Field")>>,
     FieldMarshal |-> <<size.HasFieldMarshal, blob>>, FieldRVA |-> <<4, index_size("Field")>>,
     File |-> <<4, str, blob>>, GenericParam |-> <<2, 2, size.TypeOrMethodDef, str>>,
     GenericParamConstraint |-> <<index_size("GenericParam"), size.TypeDefOrRef>>,
     ImplMap |-> <<2, size.MemberForwarded, str, index_size("ModuleRef")>>,
     InterfaceImpl |-> <<index_size("TypeDef"), size.TypeDefOrRef>>,
     ManifestResource |-> <<4, 4, str, size.Implementation>>,
     MemberRef |-> <<size.MemberRefParent, str, blob>>,
     MethodDef |-> <<4, 2, 2, str, blob, index_size("Param")>>,
     MethodImpl |-> <<index_size("TypeDef"), size.MethodDefOrRef, size.MethodDefOrRef>>,
     MethodSemantics |-> <<2, index_size("MethodDef"), size.HasSemantics>>,
     MethodSpec |-> <<size.MethodDefOrRef, blob>>, Module |-> <<2, str, guid, guid, guid>>,
     ModuleRef |-> <<str>>, NestedClass |-> <<index_size("TypeDef"), index_size("TypeDef")>>,
     Param |-> <<2, 2, str>>, Property |-> <<2, str, blob>>,
     PropertyMap |-> <<index_size("TypeDef"), index_size("Property")>>,
     StandAloneSig |-> <<blob>>,
     TypeDef |-> <<4, str, str, size.TypeDefOrRef, index_size("Field"), index_size("MethodDef")>>,
     TypeRef |-> <<size.ResolutionScope, str, str>>, TypeSpec |-> <<blob>>]

SetColumns ==
    /\ pc = "columns"
    /\ columns' = Columns
    /\ pc' = "data"
    /\ UNCHANGED <<file, row_count, data, view, next>>

\* Of at most six columns.
row_size(t) ==
    LET size(i) == IF i <= Len(columns[t]) THEN columns[t][i] ELSE 0
    IN  size(1) + size(2) + size(3) + size(4) + size(5) + size(6)

\* The order of the calls of set_data.
DataOrder ==
    <<"Module", "TypeRef", "TypeDef", "Field", "MethodDef", "Param", "InterfaceImpl", "MemberRef",
      "Constant", "CustomAttribute", "FieldMarshal", "DeclSecurity", "ClassLayout", "FieldLayout",
      "StandAloneSig", "EventMap", "Event", "PropertyMap", "Property", "MethodSemantics",
      "MethodImpl", "ModuleRef", "TypeSpec", "ImplMap", "FieldRVA", "Assembly", "AssemblyProcessor",
      "AssemblyOS", "AssemblyRef", "AssemblyRefProcessor", "AssemblyRefOS", "File", "ExportedType",
      "ManifestResource", "NestedClass", "GenericParam", "MethodSpec", "GenericParamConstraint">>

SetData ==
    /\ pc = "data" /\ next <= Len(DataOrder)
    /\ LET t == DataOrder[next] IN
       IF row_count[t] # 0
       THEN /\ data' = [u \in DOMAIN data \cup {t} |-> IF u = t THEN view ELSE data[u]]
            /\ view' = view + row_count[t] * row_size(t)
       ELSE UNCHANGED <<data, view>>
    /\ next' = next + 1
    /\ UNCHANGED <<file, row_count, columns, pc>>

Ready ==
    /\ pc = "data" /\ next > Len(DataOrder)
    /\ pc' = "ready"
    /\ UNCHANGED <<file, row_count, columns, data, view, next>>

Done == pc \in {"ready", "threw"} /\ UNCHANGED vars

Next == ReadRowCounts \/ SetColumns \/ SetData \/ Ready \/ Done

Spec == Init /\ [][Next]_vars

-----------------------------------------------------------------------------
(* Properties *)

\* At most 6 columns, each of a size that get_value can read, and a row fits a
\* uint8_t.
TypeOK ==
    /\ pc \in {"counts", "columns", "data", "ready", "threw"}
    /\ \A t \in DOMAIN columns : t \in Table /\ Len(columns[t]) \in 1..6 /\ row_size(t) < 255
                             /\ ToSet(columns[t]) \subseteq {1, 2, 4, 8}
    /\ columns # << >> => DOMAIN columns = Table
    /\ DOMAIN data \subseteq Table
    /\ next \in 1..(Len(DataOrder) + 1)

\* What a column can hold that names rows: a number from 1 to the number of rows of
\* a table, or the values of the rows of several tables; the largest ones count.
Held(a) ==
    IF a.as = "row" THEN {row_count[a.of]}
    ELSE {ValueOf(a.of, t, row_count[t] - 1) : t \in {u \in NamedBy(a.of) : row_count[u] # 0}}

\* What the file gives a column that is read so.
FileWidth(a) ==
    CASE a.as = "value" -> a.width
      [] a.as = "string" -> string_index_size
      [] a.as = "blob" -> blob_index_size
      [] OTHER -> IF \A v \in Held(a) : v < 2^16 THEN 2 ELSE 4

Exists(a) == a.column < Len(columns[a.table])

\* The permissions that a custom attribute may name are not among the tables from
\* which the size of its parent is computed, and a hash value has the index of a blob.
KnownMisfits(a) ==
    \/ a = ProcessorOf \/ (a = HashValue /\ string_index_size # blob_index_size)
    \/ (a.of = "HasCustomAttribute" /\ row_count["DeclSecurity"] >= 2^11)

\* Every accessor of every row finds a column, and it is as wide as the file has
\* made it: at the row counts where an index becomes wider, too, and for every
\* table that a coded index can name.
ColumnsAreTheFiles ==
    pc = "ready" =>
    \A a \in Accessors : KnownMisfits(a) \/ (Exists(a) /\ columns[a.table][a.column + 1] = FileWidth(a))

\* Each table is read where the file has it: the first one behind the row counts,
\* each other one where the last one of lower number ends.
TablesInPlace ==
    pc = "ready" =>
    LET present == {t \in DOMAIN file.rows : file.rows[t] # 0}
        lower(t) == {u \in present : Number[u] < Number[t]}
    IN  \A t \in present :
          /\ t \in DOMAIN data
          /\ \/ lower(t) = {} /\ data[t] = 24 + 4 * Cardinality(DOMAIN file.rows)
             \/ \E u \in lower(t) : /\ \A v \in lower(t) : Number[v] <= Number[u]
                                   /\ data[t] = data[u] + file.rows[u] * row_size(u)

\* A coded index made for a row leads back to this row, and no two rows share one:
\* the custom attributes, constants and semantics of a row are searched with it.
CodedIndexesFindTheirRow ==
    \A c \in Coded : \A t \in NamedBy(c) :
       \A row \in {0, row_count[t]} :
          LET value == ValueOf(c, t, row)
          IN  /\ TypeOf(c, value) = t /\ IndexOf(c, value) = row
              /\ c \in DOMAIN GetRow => GetRow[c] \subseteq NamedBy(c)
=============================================================================
