--------------------------- MODULE MetadataReaders ---------------------------
(***************************************************************************)
(* What reads metadata: the tables of a file, the lists between its rows,   *)
(* the cache over several files, and the filter. Each is finished before    *)
(* the next one starts and none changes another, so that a behaviour is one *)
(* of one of them.                                                          *)
(***************************************************************************)
EXTENDS Cache

CONSTANTS
    Files,                                  \* of MetadataLayout
    Databases,                              \* of RowLists
    Dot, TypeNames, RuleTexts, MaxRules, ShortSort   \* of Filter

\* Names and rules are made of characters, and types are asked about by namespace and name.
ASSUME TextsAssumption ==
    /\ Dot \in STRING
    /\ TypeNames \subseteq [space : Seq(STRING), name : Seq(STRING)]
    /\ RuleTexts \subseteq Seq(STRING)
    /\ MaxRules \in Nat /\ ShortSort \in Nat

VARIABLES
    file, row_count, columns, data, view, next,   \* MetadataLayout, which has pc as Cache has
    at, last, met,            \* RowLists, which has db, row and pc as Cache has
    given, sorted, m_rules,   \* Filter
    part                      \* which of them it is

Layout == INSTANCE MetadataLayout
R == INSTANCE RowLists
F == INSTANCE Filter WITH Types <- TypeNames

\* A stream has some tables, among them perhaps one that the reader does not know,
\* and as many rows as its integers count without overflow: a row is named by 24 bits.
ASSUME StreamsAssumption ==
    \A f \in Files :
       /\ f.string \in BOOLEAN /\ f.guid \in BOOLEAN /\ f.blob \in BOOLEAN
       /\ DOMAIN f.rows \subseteq Layout!Table \cup {"other"}
       /\ \A t \in DOMAIN f.rows : f.rows[t] \in 0..(2^24 - 1)

layoutVars == <<file, row_count, columns, data, view, next>>
tableVars == <<db, row>>
rowVars == <<at, last, met>>
cacheVars == <<files, types, lists, m_nested_types, filed, removed>>
filterVars == <<given, sorted, m_rules>>

NoLayout ==
    /\ file = None /\ row_count = None /\ columns = None
    /\ data = None /\ view = None /\ next = None
NoTable == db = None /\ row = None
NoRows == at = None /\ last = None /\ met = None
NoCache ==
    /\ files = None /\ types = None /\ lists = None
    /\ m_nested_types = None /\ filed = None /\ removed = None
NoFilter == given = None /\ sorted = None /\ m_rules = None

ReadersInit ==
    \/ part = "layout" /\ Layout!Init /\ NoTable /\ NoRows /\ NoCache /\ NoFilter
    \/ part = "rows" /\ R!Init /\ NoLayout /\ NoCache /\ NoFilter
    \/ part = "cache" /\ Init /\ NoLayout /\ NoRows /\ NoFilter
    \/ part = "filter" /\ F!Init /\ NoLayout /\ NoTable /\ NoRows /\ NoCache /\ pc = None

ReadersNext ==
    /\ part' = part
    /\ \/ /\ part = "layout" /\ Layout!Next
          /\ UNCHANGED <<tableVars, rowVars, cacheVars, filterVars>>
       \/ /\ part = "rows" /\ R!Next
          /\ UNCHANGED <<layoutVars, cacheVars, filterVars>>
       \/ /\ part = "cache" /\ Next
          /\ UNCHANGED <<layoutVars, rowVars, filterVars>>
       \/ /\ part = "filter" /\ F!Next
          /\ UNCHANGED <<layoutVars, tableVars, rowVars, cacheVars, pc>>

readersVars == <<layoutVars, tableVars, rowVars, cacheVars, filterVars, pc, part>>

ReadersSpec == ReadersInit /\ [][ReadersNext]_readersVars

-----------------------------------------------------------------------------

\* Every column, table and coded index is where the file has it: TypeOK,
\* ColumnsAreTheFiles, TablesInPlace and CodedIndexesFindTheirRow of MetadataLayout.
LayoutIsTheFiles ==
    part = "layout" =>
        /\ Layout!TypeOK /\ Layout!ColumnsAreTheFiles
        /\ Layout!TablesInPlace /\ Layout!CodedIndexesFindTheirRow

\* Each row of a list has one owner, the same from both sides: see RowLists.
RowsHaveOneOwner == part = "rows" => R!TypeOK /\ R!EachMemberOnce /\ R!ParentIsOwner

\* A name means the first definition of it, in one list, with the types nested
\* in that definition: see Cache.
CacheKeepsFirst ==
    part = "cache" => TypeOK /\ FirstDefinitionFound /\ InOneList /\ RootsAgree

\* The longest prefix decides, wherever std::sort is defined and leaves the rules: see
\* Filter.
LongestPrefixDecides == part = "filter" => F!TypeOK /\ F!LongestPrefixDecides
=============================================================================
