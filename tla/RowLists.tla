------------------------------ MODULE RowLists ------------------------------
(***************************************************************************)
(* The lists of column.h: a row of a table names the first row of its list  *)
(* in another table, and the list ends where that of the next row starts.   *)
(* The writers walk the lists of all types; a member leads back to its type *)
(* by a binary search. Properties and events go through a map table that    *)
(* has a row for those types only that have any. Rows count from 0 and the  *)
(* references to them from 1.                                               *)
(***************************************************************************)
EXTENDS Naturals, Integers, Sequences, SequencesExt, FiniteSets

CONSTANT Databases
    \* [list : one of Lists, types : the number of rows of TypeDef,
    \*  starts : the column of the list in each row of the parent table,
    \*  owners : the column Parent of the map table, size : the rows of the target table]

Lists == {"FieldList", "MethodList", "ParamList", "PropertyList", "EventList"}
Mapped == {"PropertyList", "EventList"}

\* The starts do not decrease and the first of them is the first row, so that
\* each member belongs to a row; a map has each type once.
WellFormed(tables) ==
    /\ tables.list \in Lists /\ {tables.types, tables.size} \subseteq Nat
    /\ {tables.starts, tables.owners} \subseteq Seq(Nat)
    /\ \A i \in DOMAIN tables.starts :
          /\ tables.starts[i] \in 1..(tables.size + 1)
          /\ i > 1 => tables.starts[i - 1] <= tables.starts[i]
    /\ IF tables.starts = <<>> THEN tables.size = 0 ELSE tables.starts[1] = 1
    /\ IF tables.list \in Mapped
       THEN /\ Len(tables.owners) = Len(tables.starts)
            /\ ToSet(tables.owners) \subseteq 1..tables.types
            /\ IsInjective(tables.owners)
       ELSE Len(tables.starts) = tables.types

VARIABLES
    db,    \* the tables
    row,   \* the type, or the method, whose list is walked, from 0
    at,    \* the member the iterator is at
    last,  \* the end of the range
    met,   \* the members that were met, with their owners
    pc     \* "types", "members", "done" or "threw"

vars == <<db, row, at, last, met, pc>>

Init ==
    /\ db \in Databases /\ WellFormed(db)
    /\ row = 0 /\ at = 0 /\ last = 0
    /\ met = <<>>
    /\ pc = "types"

\* Fault: the list of every row ends where the table does.
FaultyGetList(index) == <<db.starts[index + 1] - 1, db.size>>

\* The range of a row of the parent table: the table's end closes the last list.
get_list(index) ==
    <<db.starts[index + 1] - 1,
      IF index + 1 < Len(db.starts) THEN db.starts[index + 2] - 1 ELSE db.size>>

\* find_if over the map: the row whose Parent is the type, if there is one.
MapRow(index) == {m \in 0..(Len(db.owners) - 1) : db.owners[m + 1] = index + 1}

\* FieldList, MethodList and ParamList; PropertyList and EventList.
RangeOf(index) ==
    IF db.list \notin Mapped THEN get_list(index)
    ELSE IF MapRow(index) = {} THEN <<db.size, db.size>>
    ELSE get_list(CHOOSE m \in MapRow(index) : \A n \in MapRow(index) : m <= n)

\* for (auto&& member : type.FieldList())
EnterList ==
    /\ pc = "types" /\ row < db.types
    /\ at' = RangeOf(row)[1] /\ last' = RangeOf(row)[2]
    /\ pc' = "members"
    /\ UNCHANGED <<db, row, met>>

\* The iterators are compared for equality only; get_value refuses a row index
\* that is larger than the size of the table.
Member ==
    /\ pc = "members" /\ at # last
    /\ IF at > db.size
       THEN pc' = "threw" /\ UNCHANGED <<met, at>>
       ELSE /\ met' = Append(met, <<at, row>>)
            /\ at' = at + 1
            /\ UNCHANGED pc
    /\ UNCHANGED <<db, row, last>>

LeaveList ==
    /\ pc = "members" /\ at = last
    /\ row' = row + 1
    /\ pc' = "types"
    /\ UNCHANGED <<db, at, last, met>>

Finish ==
    /\ pc = "types" /\ row = db.types
    /\ pc' = "done"
    /\ UNCHANGED <<db, row, at, last, met>>

Done == pc \in {"done", "threw"} /\ UNCHANGED vars

Next == EnterList \/ Member \/ LeaveList \/ Finish \/ Done

Spec == Init /\ [][Next]_vars

\* The ranges <<first, count>> of the starts.
Ranges == {range \in Nat \X Nat : range[1] + range[2] <= Len(db.starts)}

\* std::upper_bound over the starts.
UpperBound(value) ==
    LET search[range \in Ranges] ==
          IF range[2] = 0 THEN range[1]
          ELSE LET half == range[2] \div 2
                   mid == range[1] + half
               IN  IF ~(value < db.starts[mid + 1]) THEN search[<<mid + 1, range[2] - half - 1>>]
                   ELSE search[<<range[1], half>>]
    IN  search[<<0, Len(db.starts)>>]

\* The row before the first that starts behind the member.
get_parent_row(member) == UpperBound(member + 1) - 1

\* Field, MethodDef, Property and Event: Parent.
Parent(member) ==
    IF db.list \in Mapped THEN db.owners[get_parent_row(member) + 1] - 1
    ELSE get_parent_row(member)

-----------------------------------------------------------------------------
(* Properties *)

TypeOK ==
    /\ pc \in {"types", "members", "done"}
    /\ row \in 0..db.types /\ at \in 0..db.size /\ last \in 0..db.size
    /\ \A i \in DOMAIN met : met[i] \in (0..(db.size - 1)) \X (0..(db.types - 1))

\* Rows whose lists are empty share a start with the row behind them: still each
\* member is met once, for one owner, and when the types are done none was left out.
EachMemberOnce ==
    /\ \A i, j \in DOMAIN met : met[i][1] = met[j][1] => i = j
    /\ pc = "done" => {met[i][1] : i \in DOMAIN met} = 0..(db.size - 1)

\* The search for the parent of a member ends at the row in whose list it is met,
\* however many rows with empty lists share its start.
ParentIsOwner == \A i \in DOMAIN met : Parent(met[i][1]) = met[i][2]
=============================================================================
