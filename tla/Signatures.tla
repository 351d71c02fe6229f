----------------------------- MODULE Signatures -----------------------------
(***************************************************************************)
(* The readers of signature blobs: MethodDefSig, FieldSig, PropertySig and  *)
(* TypeSpecSig with the types, parameters and modifiers they are made of,   *)
(* and get_blob, which finds the blob in its heap. A reader is a row of     *)
(* constructors that move one cursor over the bytes; todo holds those that  *)
(* are still to run. The signatures that are written are those of the       *)
(* metadata format, more than the readers know.                             *)
(***************************************************************************)
EXTENDS ElementTypes, Naturals, Sequences, SequencesExt

CONSTANT Inputs  \* the signatures that are written, see Written

-----------------------------------------------------------------------------
(* What a compiler writes *)

\* A number in 1, 2 or 4 bytes.
Compressed(n) ==
    IF n < 2^7 THEN <<n>>
    ELSE IF n < 2^14 THEN <<128 + n \div 256, n % 256>>
    ELSE <<192 + n \div 2^24, (n \div 2^16) % 256, (n \div 256) % 256, n % 256>>

Times(n, s) == FlattenSeq([i \in 1..n |-> s])

\* A type is a base behind any prefixes; the shape of an array follows its base:
\* rank, sizes and lower bounds. Tokens: what is written, as <<what, number>>.
Shape == <<<<"number", 1>>, <<"sizes", 1>>, <<"number", 300>>>>
Bound == <<1, 0>>
ModIndex == 9

PrefixTokens(p) ==
    CASE p = "szarray" -> <<<<"element", SZArray>>>>
      [] p = "array" -> <<<<"element", Array>>>>
      [] p = "ptr" -> <<<<"element", Ptr>>>>
      [] p = "cmod" -> <<<<"element", CModReqd>>, <<"number", ModIndex>>>>

RECURSIVE TypeTokens(_)
TypeTokens(type) ==
    FlattenSeq([i \in DOMAIN type.prefix |-> PrefixTokens(type.prefix[i])])
    \o <<<<"element", type.base>>>>
    \o (IF type.base \in {Class, Var} THEN <<<<"number", type.index>>>>
        ELSE IF type.base = GenericInst
             THEN <<<<"element", Class>>, <<"number", type.index>>, <<"args", Len(type.args)>>>>
                  \o FlattenSeq([i \in DOMAIN type.args |-> TypeTokens(type.args[i])])
        ELSE <<>>)
    \o (IF Contains(type.prefix, "array") THEN Shape ELSE <<>>)

ParamTokens(param) ==
    Times(param.cmods, PrefixTokens("cmod"))
    \o (IF param.byref THEN <<<<"element", ByRef>>>> ELSE <<>>)
    \o TypeTokens(param.type)

ParamsTokens(sig) == FlattenSeq([i \in DOMAIN sig.params |-> ParamTokens(sig.params[i])])

\* The tokens of a whole signature, as a reader should meet them.
Written(sig) ==
    CASE sig.kind = "method" ->
           <<<<"convention", IF sig.generic > 0 THEN 48 ELSE 32>>>>
           \o (IF sig.generic > 0 THEN <<<<"number", sig.generic>>>> ELSE <<>>)
           \o <<<<"count", Len(sig.params)>>>> \o ParamTokens(sig.ret) \o ParamsTokens(sig)
      [] sig.kind = "field" -> <<<<"convention", 6>>>> \o ParamTokens(sig.ret)
      [] sig.kind = "property" ->
           <<<<"convention", 40>>, <<"count", Len(sig.params)>>>> \o ParamTokens(sig.ret) \o ParamsTokens(sig)
      [] sig.kind = "typespec" -> TypeTokens(sig.ret.type)

\* The bytes of the tokens: behind the last size of an array stand its lower bounds.
Bytes(tokens) ==
    FlattenSeq([i \in DOMAIN tokens |->
        Compressed(tokens[i][2])
        \o (IF i > 2 /\ tokens[i - 1][1] = "sizes" THEN Bound ELSE <<>>)])

-----------------------------------------------------------------------------

VARIABLES
    sig,    \* the signature that was written
    heap,   \* the bytes from its place in the heap on
    blob,   \* the view that get_blob returned
    at,     \* the cursor, from 1
    todo,   \* the readers that are still to run, and a number for some
    read,   \* what was read
    pc      \* "seek", "reading", "read" or "threw"

vars == <<sig, heap, blob, at, todo, read, pc>>

Init ==
    /\ sig \in Inputs
    /\ LET bytes == Bytes(Written(sig)) IN heap = Compressed(Len(bytes)) \o bytes \o <<29, 8>>
    /\ blob = <<>> /\ at = 1
    /\ todo = <<>> /\ read = <<>>
    /\ pc = "seek"

\* get_blob: how many bytes the size takes, and what the first gives to it.
BlobSize(first) ==
    CASE first < 128 -> <<1, first>>
      [] first \in 128..191 -> <<2, first - 128>>
      [] first \in 192..223 -> <<4, first - 192>>

GetBlob ==
    /\ pc = "seek"
    /\ LET n == BlobSize(heap[1])[1]
           size == FoldLeft(LAMBDA sum, byte : sum * 256 + byte, BlobSize(heap[1])[2], SubSeq(heap, 2, n))
       IN  IF n + size <= Len(heap)
           THEN blob' = SubSeq(heap, n + 1, n + size) /\ pc' = "reading"
           ELSE pc' = "threw" /\ UNCHANGED blob
    /\ todo' = <<<<sig.kind, 0>>>>
    /\ UNCHANGED <<sig, heap, at, read>>

\* uncompress_unsigned: how long the number at the cursor is, 0 if there is none, and its value.
LengthAt(i) ==
    IF i > Len(blob) THEN 0
    ELSE LET n == CASE blob[i] < 128 -> 1 [] blob[i] \in 128..191 -> 2
                    [] blob[i] \in 192..223 -> 4 [] OTHER -> 0
         IN  IF i + n > Len(blob) + 1 THEN 0 ELSE n

\* Fault: four bytes are put together in the wrong order.
FaultyValueAt(i) ==
    CASE LengthAt(i) = 1 -> blob[i]
      [] LengthAt(i) = 2 -> (blob[i] - 128) * 256 + blob[i + 1]
      [] LengthAt(i) = 4 -> (blob[i] - 192) * 2^24 + blob[i + 1] * 2^16 + blob[i + 3] * 256 + blob[i + 2]

ValueAt(i) ==
    CASE LengthAt(i) = 1 -> blob[i]
      [] LengthAt(i) = 2 -> (blob[i] - 128) * 256 + blob[i + 1]
      [] LengthAt(i) = 4 -> (blob[i] - 192) * 2^24 + blob[i + 1] * 2^16 + blob[i + 2] * 256 + blob[i + 3]

Is(item) == pc = "reading" /\ todo # <<>> /\ todo[1][1] = item
Readable == LengthAt(at) # 0
Now == ValueAt(at)

\* uncompress_enum: of a number for an enumeration, the lowest byte is left.
Enum == Now % 2^8

Remaining == Len(blob) + 1 - at

\* The current reader has taken a number from the blob, what it is of an enumeration
\* if it is for one, and leaves others to run.
TakeAs(what, value, next) ==
    /\ read' = Append(read, <<what, value>>)
    /\ at' = at + LengthAt(at)
    /\ todo' = next \o Tail(todo)
    /\ UNCHANGED <<sig, heap, blob, pc>>

Take(what, next) == TakeAs(what, Now, next)
TakeEnum(what, next) == TakeAs(what, Enum, next)

\* It takes nothing.
Leave(next) ==
    /\ todo' = next \o Tail(todo)
    /\ UNCHANGED <<sig, heap, blob, at, read, pc>>

Throw ==
    /\ pc' = "threw"
    /\ UNCHANGED <<sig, heap, blob, at, todo, read>>

Item(what) == <<what, 0>>
Items(s) == [i \in DOMAIN s |-> Item(s[i])]

\* What each reader needs is there, or it throws.
Reading(item, Step) == Is(item) /\ IF Readable THEN Step ELSE Throw

\* MethodDefSig: enum_mask with Generic.
Method ==
    Reading("method",
        TakeEnum("convention", Items((IF (Enum \div 16) % 2 = 1 THEN <<"number">> ELSE <<>>) \o <<"count", "return">>)))

\* The parameters come behind the type that is returned.
Count ==
    Reading("count", /\ read' = Append(read, <<"count", Now>>)
                     /\ at' = at + LengthAt(at)
                     /\ todo' = <<todo[2], <<"params", Now>>>> \o SubSeq(todo, 3, Len(todo))
                     /\ UNCHANGED <<sig, heap, blob, pc>>)

Params ==
    /\ Is("params")
    /\ IF todo[1][2] > Remaining THEN Throw
       ELSE Leave([i \in 1..todo[1][2] |-> Item("param")])

\* RetTypeSig: ELEMENT_TYPE_VOID stands alone only here.
Return == Is("return") /\ Leave(Items(<<"cmods", "byref", "void">>))
VoidOrType ==
    Reading("void", IF Enum = Void THEN TakeEnum("element", <<>>) ELSE Leave(Items(<<"type">>)))

Param == Is("param") /\ Leave(Items(<<"cmods", "byref", "type">>))

CMods ==
    Reading("cmods", IF Enum \in {CModOpt, CModReqd} THEN TakeEnum("element", Items(<<"number", "cmods">>))
                     ELSE Leave(<<>>))

IsByRef == Reading("byref", IF Enum = ByRef THEN TakeEnum("element", <<>>) ELSE Leave(<<>>))

\* TypeSig: one szarray, one array, pointers, modifiers and the type.
Type == Is("type") /\ Leave(Items(<<"szarray", "array">>))
ParseSZArray == Reading("szarray", IF Enum = SZArray THEN TakeEnum("element", <<>>) ELSE Leave(<<>>))

ParseArray ==
    Reading("array", IF Enum = Array THEN TakeEnum("element", Items(<<"ptr", "cmods", "element", "shape">>))
                     ELSE Leave(Items(<<"ptr", "cmods", "element">>)))

\* Fault: the data does not follow the cursor.
FaultyParsePtr == Reading("ptr", IF Enum = Ptr THEN Leave(Items(<<"ptr">>)) ELSE Leave(<<>>))

ParsePtr == Reading("ptr", IF Enum = Ptr THEN TakeEnum("element", Items(<<"ptr">>)) ELSE Leave(<<>>))

\* ParseType: ValueType and MVar are read as Class and Var.
ParseType ==
    Reading("element", IF Enum \in Primitive \cup {Void} THEN TakeEnum("element", <<>>)
                       ELSE IF Enum \in {Class, Var} THEN TakeEnum("element", Items(<<"number">>))
                       ELSE IF Enum = GenericInst THEN TakeEnum("element", Items(<<"generic">>))
                       ELSE Throw)

\* GenericTypeInstSig.
Generic ==
    Reading("generic", IF Enum = Class THEN TakeEnum("element", Items(<<"number", "args">>)) ELSE Throw)
Args ==
    Reading("args", IF Now > Remaining - LengthAt(at) THEN Throw
                    ELSE Take("args", [i \in 1..Now |-> Item("type")]))

\* An index, a rank, a size, a number of generic parameters.
Number == Reading("number", Take("number", <<>>))

\* parse_array_sizes: the lower bounds are not read.
ArrayShape == Is("shape") /\ Leave(Items(<<"number", "sizes">>))
Sizes == Reading("sizes", Take("sizes", [i \in 1..Now |-> Item("number")]))

\* enum_mask with Field: both of its bits are set. The convention is a byte as it stands,
\* here and in a property.
Field ==
    Reading("field", IF (Now \div 2) % 4 = 3 THEN Take("convention", Items(<<"cmods", "type">>)) ELSE Throw)

\* A property has its parameters behind its type.
Property ==
    Reading("property",
        IF (Now \div 8) % 2 = 1 THEN Take("convention", Items(<<"count", "propertytype">>)) ELSE Throw)
PropertyType == Is("propertytype") /\ Leave(Items(<<"cmods", "type">>))

\* TypeSpecSig: that the first element is GenericInst is only asserted, which a release
\* build does not do; in a _DEBUG build the program stops here at any other.
TypeSpec == Reading("typespec", TakeEnum("element", Items(<<"generic">>)))

Finish ==
    /\ pc = "reading" /\ todo = <<>>
    /\ pc' = "read"
    /\ UNCHANGED <<sig, heap, blob, at, todo, read>>

Done == pc \in {"read", "threw"} /\ UNCHANGED vars

Next ==
    \/ GetBlob \/ Method \/ Count \/ Params \/ Return \/ VoidOrType \/ Param \/ CMods \/ IsByRef
    \/ Type \/ ParseSZArray \/ ParseArray \/ ParsePtr \/ ParseType \/ Generic \/ Args \/ Number
    \/ ArrayShape \/ Sizes \/ Field \/ Property \/ PropertyType \/ TypeSpec \/ Finish \/ Done

Spec == Init /\ [][Next]_vars

-----------------------------------------------------------------------------
(* Properties *)

TypeOK ==
    /\ pc \in {"seek", "reading", "read", "threw"}
    /\ at \in 1..(Len(blob) + 1)
    /\ \A i \in DOMAIN read : read[i][2] \in Nat

\* The types of a signature, those inside the generic ones included.
RECURSIVE TypesIn(_)
TypesIn(type) ==
    {type} \cup (IF type.base = GenericInst THEN UNION {TypesIn(type.args[i]) : i \in DOMAIN type.args}
                 ELSE {})
TypesOf(s) == UNION {TypesIn(p.type) : p \in {s.ret} \cup ToSet(s.params)}

\* The order of prefixes that TypeSig knows; before it, the modifiers of the parameter.
Rank == [szarray |-> 1, array |-> 2, ptr |-> 3, cmod |-> 4]
InOrder(prefix) ==
    \A i \in 1..(Len(prefix) - 1) :
       \/ Rank[prefix[i]] < Rank[prefix[i + 1]]
       \/ (prefix[i] = prefix[i + 1] /\ prefix[i] \in {"ptr", "cmod"})
RECURSIVE WithoutMods(_)
WithoutMods(prefix) ==
    IF prefix # <<>> /\ prefix[1] = "cmod" THEN WithoutMods(Tail(prefix)) ELSE prefix

Known(type) == InOrder(type.prefix) /\ type.base # FnPtr
KnownParam(p) ==
    /\ InOrder(IF p.byref THEN p.type.prefix ELSE WithoutMods(p.type.prefix))
    /\ p.type.base # FnPtr
    /\ \A t \in TypesIn(p.type) \ {p.type} : Known(t)
KnownSignature == \A p \in {sig.ret} \cup ToSet(sig.params) : KnownParam(p)

\* An array is the last thing of its signature, so that nothing is read behind it.
HasArray(type) == Contains(type.prefix, "array")
ArraysAreLast ==
    LET tokens == Written(sig)
    IN  \A i \in DOMAIN tokens : tokens[i][1] = "sizes" => i + 1 = Len(tokens)
NoArray == \A t \in TypesOf(sig) : ~HasArray(t)

\* A type specification is a generic instance, the only one that TypeSpecSig is made for.
SpecIsGeneric ==
    sig.kind = "typespec" => sig.ret.type.prefix = <<>> /\ sig.ret.type.base = GenericInst

\* Whatever is written is read as it was written, to the last byte of the blob, or
\* it is refused: no modifier, pointer or count is taken for something else. The
\* exceptions are an array with something behind it, whose lower bounds are not
\* skipped, and a type specification that is no generic instance and taken for one.
ReadAsWritten ==
    pc = "read" /\ ArraysAreLast /\ SpecIsGeneric =>
       /\ read = Written(sig)
       /\ at = Len(blob) + 1 - (IF NoArray THEN 0 ELSE Len(Bound))

\* With the same exceptions nothing is refused but the orders of prefixes that TypeSig
\* does not know and pointers to functions: the headers are written for every other
\* signature.
KnownIsRead == pc = "threw" /\ ArraysAreLast /\ SpecIsGeneric => ~KnownSignature

\* The blob is the one that was written, whatever stands behind it in the heap and
\* however long it is.
BlobFound == pc # "seek" => blob = Bytes(Written(sig))
=============================================================================
