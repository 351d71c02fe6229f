# cppwin32 in TLA+

cppwin32 reads Windows metadata files (`.winmd`) and writes a C++ projection: per namespace the
headers `win32/impl/NS.0.h`, `NS.1.h`, `NS.2.h` and `win32/NS.h`, the two headers
`win32/impl/complex_structs.h` and `complex_interfaces.h` that span namespaces, and a copy of `base.h`.
This directory models the generator in TLA+, checks the models with TLC, and proves theorems about them
with TLAPS. Paths below are relative to the repository; short names are in `src/cppwin32/`.

## The system

| component | code | state | operations | talks to |
|---|---|---|---|---|
| dependency graph | `type_dependency_graph.h` | map from TypeDef to edges and a visit state | `add_struct/delegate/interface`, `walk_graph`, `visit` | called by header composition and `write_delegates`; calls a writer for each type |
| task group | `task_group.h` | a vector of futures | `add`, `get`, destructor | the main thread; `std::async` |
| main thread | `main.cpp` | settings, the cache, the group, a result | `run`, `process_args`, `print_usage` | everything |
| file output | `text_writer.h` | two character buffers, the files | `flush_to_file`, `file_equal`, `swap`, formatted `write` | every header writer |
| header composition | `file_writers.h` | one `writer` per header | `write_namespace_{0,1,2}_h`, `write_namespace_h`, `write_complex_*_h` | graph, code writers, type writer |
| type writer | `type_writers.h` | `depends`, `extern_depends`, the current namespace | `write` of types and signatures, `add_depends`, `save_header` | file output, cache |
| code writers | `code_writers.h` | none of their own | one function per kind of declaration | type writer |
| command line | `cmd_reader.h`, `settings.h` | option map, the option values go to | `extract_option`, `extract_response_file`, `files` | main thread |
| metadata cache | `winmd/impl/winmd_reader/cache.h` | databases, types by namespace and name, nested types | constructor, `find`, `remove_type` (called nowhere) | tables, helpers |
| filter | `.../filter.h` | sorted rules | `match`, `includes` | nobody in this program |
| metadata tables | `.../table.h`, `column.h`, `database.h`, `index.h`, `schema.h` | column widths and offsets over a mapped file | `get_value`, lists, coded indexes, parents, ranges | cache, signatures |
| signatures, attributes | `.../signature.h`, `custom_attribute.h`, `view.h` | a cursor into a blob | decoding of compressed integers and recursive types | type writer, helpers |
| helpers | `helpers.h`, `.../type_helpers.h`, `key.h`, `enum.h` | none | `is_nested`, `find`, `get_category`, ... | graph, code writers |
| PE image | `.../pe.h` | none | locating the metadata in the file | database |
| runtime library | `base.h` | reference counts, handles | `com_ptr`, `unique_any_t`, error conversion | user programs |

How a run goes: the main thread parses its arguments, builds the cache (immutable from then on), makes a
task per namespace and one for each of the two spanning headers, copies `base.h`, and leaves the scope.
Nothing calls `task_group::get`; the destructor of the group joins the tasks, and then the cache is
destroyed. Tasks share only the cache and the output folder; each composes a header in memory, compares it
with the file there, and writes it if it differs.

What is hard here:

* **Order of definitions.** C++ needs a complete type for members and bases, a declared one for the rest. The
  order comes from a graph built by one recursion and walked by another, over metadata with nested,
  unresolved and shared types. What makes it correct: each needed type is written once, after those it
  requires, and a cycle is reported exactly when there is one.
* **Threads and lifetimes.** `std::async` decides whether a task has its own thread or is deferred; exceptions leave
  `run` from everywhere; a `_DEBUG` build calls tasks in place. What makes it correct: tasks never outlive the
  cache; joins end; an exception is not lost where the group is asked for it.
* **Headers that fit together.** A header is composed before it is known what it depends on; includes, forward declarations and
  aliases are then put in front. What makes it correct: whatever headers a program includes, and in which order, all names
  are declared, and where needed defined, before they are used, and nothing is defined twice.
* **Files.** Streams are not checked, a process may be killed in the middle of a file, and `file_equal` decides from
  earlier content whether to write. What makes it correct: a clean run leaves current headers whatever was
  there before, and whatever happened, no header of a namespace lacks the one before it in its chain.
* **Boundaries of the metadata format.** An index becomes wider at a row count, a list ends where that of the next row starts, a
  number takes 1, 2 or 4 bytes, prefixes of a type come in one of several orders. What makes it correct: every
  column is read where and as wide as the file has it, each member belongs to one row, and a signature is read as it was written or refused.
* **Several databases.** They define types of the same name, in any order. What makes it correct: the first definition is the one
  that is found, listed and resolved to, and no two are mixed.
* **What was asked for.** Options are abbreviated, repeated and spread over nested response files whose lines are cut by quotes; paths
  are folders, files under two names, or nothing. What makes it correct: each value goes to the option written before
  it, nothing is written for arguments that are refused, and each database is loaded once but for three named gaps.
* **References and handles in user programs.** Assignments from oneself, from inside an object, and destructors that call back. What
  makes it correct: an object has as many references as owners, an open handle has one owner.

`PROJECT.json` lists every component with its status and every hazard with its line.

## Modules

| module | models | composed with |
|---|---|---|
| `DefinitionOrder` | what the graph promises, without an algorithm | implemented by `TypeDependencyGraph` |
| `TypeDependencyGraph` | `type_dependency_graph.h` and what its callers add | refines `DefinitionOrder` |
| `TaskGroup` | `task_group.h`, `std::async` (external) | |
| `Generation` | `run()`, the headers each task writes, `flush_to_file`, `file_equal`, kill and restart | `Group == INSTANCE TaskGroup` |
| `HeaderSet` | `file_writers.h`: the text of all headers as includes, declarations, definitions and uses; `depends`, `extern_depends`, the two buffers | the order in the spanning headers is what `DefinitionOrder` promises |
| `Projection` | the C++ compiler reading a program that includes those headers (external) | extends `HeaderSet` |
| `CommandLine` | `cmd_reader.h`, `process_args` and `run()` up to its tasks | |
| `ResponseLine` | `reader::parse_command_line` | gives `CommandLine` the arguments of a response file |
| `SdkVersion` | `get_sdk_version` | |
| `MetadataLayout` | `database::initialize`, the accessors of `schema.h` and `column.h`, coded indexes of `key.h` and `enum_traits.h` | |
| `RowLists` | the lists and parents of `column.h`, property and event maps | |
| `Signatures`, `ElementTypes` | `signature.h`, `get_blob`, `uncompress_unsigned` | |
| `Cache` | `cache.h`, the resolution of references in `helpers.h` | |
| `Filter` | `filter.h` | |
| `ComPtr` | `com_ptr` in `base.h` | |
| `UniqueAny` | `unique_storage` and `unique_any_t` in `base.h` | |
| `MetadataReaders` | the tables of a file, the loops over rows and over rules, as they run one at a time | extends `Cache`, with `MetadataLayout`, `RowLists` and `Filter` as instances |
| `OptionReaders` | the command line, a line of a response file, and the choice of an SDK, one at a time | extends `CommandLine`, with `ResponseLine` and `SdkVersion` as instances |
| `MC...` | the instances; `MCMetadata` and `MCRuntime` also put several components in one run | see Runs |
| `...Proofs` | the theorems about the module they are named after; `RuntimeProofs` those about `MCRuntime`, hence about `ComPtr` and `UniqueAny`; `ReadersProofs` those about `MetadataReaders`, hence about `MetadataLayout`, `RowLists`, `Cache` and `Filter`; `OptionsProofs` those about `OptionReaders`, hence about `CommandLine`, `ResponseLine` and `SdkVersion` | extend it |

### DefinitionOrder

State: what depends on what, what was asked for, the order written so far, and how the job ended. `Write(t)` writes a
needed type once all of its dependencies are written; `Finish` needs all to be written; `Refuse` needs a circle (a
non-empty set of needed types each of which depends on another one of the set); `GiveUp` is a writer that throws.

### TypeDependencyGraph

`nodes`, `edges` and `state` are the map `graph` with `node::edges` and `node::state`. The recursion of `add_...` and of
`visit` is the variable `stack` (one activation per type, because a type is entered in the map, or set to
`walking`, before its activation begins) and `next` (the loop position of each). `AddRoot` is a call by
`write_delegates` or `write_complex_*_h`; `AddReference` one turn of the loop over fields, parameters or the base, with
the condition of each function as an operator of its own (`StructEdge`, `DelegateEdge`, `InterfaceEdge`);
`WalkNext` is the `find_if` of `walk_graph`; `VisitEdge` one edge in `visit`, which recurses, passes, or throws;
`VisitReturn` sets the node complete and calls the callback, which may throw. `input` is the metadata, chosen in
`Init`. `reset_walk_state`, called nowhere, is left out; `std::map`'s order is the order of the numbers of the types.

### TaskGroup

`debug` is the build, chosen in `Init` from `Builds` and never changed. `futures` is `m_tasks`, `moved` the local vector of `get`, `owner` and `pos` are where the owner is in `add`,
`get` or the destructor. `Add` covers both builds. In a release build the library chooses between `ready` (a thread
will `Start` it) and `deferred` (only `Wait` runs it). `End` is the task's return or exception, which in a
`_DEBUG` build goes straight through `add`. `GetNext` is `future::get` in the second loop.

### Generation

`main` follows `run()` from `start` to `exited`; `Start` may throw the usage or an error before there is a group.
`AddTask` adds the tasks in the order of the code. `OpenBase` and `CopyBase` are `copy_file`, which truncates, writes, and may throw.
`LeaveScope`, `Join` and `DestroyCache` are the destructors in reverse order of declaration. A task passes its headers
in order: `FlushHeader` compares and opens (truncating), `WriteHeader` writes and closes, `ComposeThrows` is a header that
cannot be composed. A header on `disk` is `absent`, `old`, `torn` or `fresh`: this is all `file_equal` and the
properties tell apart, since what is composed is a function of the metadata. `Kill` ends the process anywhere;
`Rerun` starts it on the same folder, after a change of the metadata of no header, of one, or of all.

### HeaderSet

`input` is the metadata: the category, the namespace and the row of each type, and for each the types that its fields, parameters or
base name, by value, by pointer or as a base. A TypeRef that `find` does not resolve is one more type, of no namespace. A line of a header is
`include`, `declare`, `define`, `use` (a declaration suffices) or `require` (a definition is needed), with the type and the type
in whose declaration it stands. `Text` is what the writers of `code_writers.h` say of a type in that vocabulary, and `Mentioned` which
types the writer meets while it says so.

`WriteBody` writes one declaration of the body, in the order `Before`: the regions of `write_namespace_0_h`, names within a
region (`cache` keeps a map), rows for delegates (a `type_dependency_graph` without edges, which is a map of TypeDefs, see
`delegate_order`), and in the spanning headers any order that `DefinitionOrder` allows. `Swap` is `writer::swap` with what the front says at once
(`Opening`); `ForwardNext` is one turn of the loop over `depends` in `write_namespace_0_h`, which may add to
`depends`: what comes after the iterator is met, what comes before is not, as with `std::map` and `std::set`. `Save` is
`save_header`, and a new writer for the next header. Writers share nothing, so one order of the headers stands for all.

### Projection

When all headers are written, a program includes the headers of namespaces in any order. `Read` is a line: an `include` of
a file whose guard is not defined yet begins that file, another one is passed; declarations and definitions are remembered; a name that is not
resolved goes to `missing`. The properties are about what is missing, redefined, and being read.

### CommandLine, ResponseLine and SdkVersion

An argument is an option, a response file or a value. `readers` is the recursion of the reader over `argv` and nested response files, each with
what it has left; `last` is the option in force, which the recursion takes along by reference, into a response file (`LastInside`) and
out of it. `Find` is the search of the option table by prefix, in the order of the table. `TakeOption`, `TakeValue`, `OpenResponse`,
`CloseResponse` and `CheckCounts` are the reader; `LookUpInput`, `LookUpReference` and `MakeFolder` are
`process_args`; `Found` takes a folder's files under the names the folder has for them, behind the canonical path of the folder (`FolderAt`), and resolves
only what is given as a file; `BuildCache`, `Catch` and `Exit` are the rest of `run` and `main`. A response file includes itself until streams run out (`MaxStreams`).

`ResponseLine` cuts one line. A character is a letter, a blank, a quote or a backslash; `NextArgument` skips blanks, `InArgument` copies a run of
backslashes and what follows it, in or out of quotes. `wanted` is a list of arguments that someone writes as the line, quoted the way the
Windows convention has it.

`SdkVersion` goes over the keys of the registry in any order (`NextKey`), compares a key part by part with the best so far while
it overwrites the parts (`ComparePart`), and asks whether `Platform.xml` is there.

### MetadataLayout, RowLists and Signatures

`MetadataLayout` follows `initialize`: `ReadRowCounts`, the sizes of coded indexes (`Composite`), `SetColumns` (to `Columns`), `SetData`. Widths come from
`database.h`; `Accessors` comes from `schema.h` and `column.h`, each with the column it names and what it takes it for; `Enumerators` and `GetRow`
come from `enum.h` and `key.h`. The properties hold the three against each other and against the file: a column is as wide as what it can hold needs (`Held`), and the tables stand one behind
the other in the order of their numbers (`Number`), as the format has them.

`RowLists` walks the lists of all rows of a parent table (`EnterList`, `Member`, `LeaveList`), where a list ends at the start of the
next one, or goes through a map table for properties and events. `Parent` is the binary search for the row a member belongs to.

`Signatures` decodes what is written. `Written` is what a compiler writes of a signature, by the format; `Bytes` are its bytes behind those of the
blob's size. A reader is a row of constructors over one cursor: `todo` holds those still to run, `read` what they have taken. A reader
takes a number (`Take`), or one cut to the 8 bits of an element type (`TakeEnum`), leaves it, or throws. `TypeSpec` takes any element type and goes on with a generic
instance, as a release build does; a debug build stops at the assertion.

### Cache and Filter

`LoadType` is the first loop of the constructor over the rows of a database (`map::try_emplace`: the first
definition stays), `LoadNested` the second, over `NestedClass`; `FileType` puts a type into one of seven lists by its category
(`ListOf`) after all databases are loaded. `RemoveType` may follow at any time, for a user of the reader; the generator calls it nowhere. `Find` resolves a reference, also one to a nested type, by names from the
outermost in; `Root` goes out again by `NestedClass`.

`Filter` leaves the sort to `std::sort`, which is external. Up to `ShortSort` rules are put in place by insertion (`InsertRule`), as the
libraries do for few elements, 32 in MSVC's and 16 in libstdc++; there the result does not depend on the comparison being an order. `Sort` is what the
standard promises: any arrangement the comparison allows if it is an order (`OrderIsStrict`), which it is without excluding rules. With
them `std::sort` is undefined, and in a longer sequence `Sort` takes any arrangement, of which nothing is claimed. `Includes` takes the first rule that matches.

### ComPtr and UniqueAny

In `ComPtr` a slot is a variable, or the member of an object. An operation of `com_ptr` (copy, move, assignment, swap, attach, detach, `put`, `copy_from`, `copy_to`,
`as`, `try_as`) is a sequence of steps in `steps`, because a `Release` in the middle of it may run a destructor, which destroys a member and
may reset the same slot once more. `raw` are references the program owns without a `com_ptr`. What the program can reach (`Usable`) and what a slot
alone keeps alive (`KeptBy`) are least sets closed under "a member of it refers to".

In `UniqueAny` an operation is a step. A closed handle's value is handed out again, so that a second close would close a stranger's
handle; `misused` remembers a close of what is not open.

## Runs

| run | instance | shows |
|---|---|---|
| `definition_order` | three types, all dependency relations and roots | `WrittenForAReason` (a written type was asked for, or a definition written later needs it), `CircleReportedExactly`: what an implementation gets from the abstract specification |
| `graph` | three types: all digraphs as structs, all bases (unresolved, too) as interfaces, the delegates of a namespace, nested layouts with pointers, repeated and unresolved members | `EdgesClosed` (the assertion in `visit`), `CycleReportedExactly`, `StructsAndBasesFirst` (what C++ requires, stated on the metadata and not on edges), `ImplementsDefinitionOrder`, `Termination` |
| `delegate_order` | delegates without a circle | **violation** of `RequiredDefinitionsFirst`, see Findings |
| `task_group` | three tasks, both builds | `JoinedWhenGone`, `GetRethrowsFirst`, `DebugIsSequential`, `GetMissesNothing`, `JoinEnds` |
| `generation_crash` | one namespace (three tasks, six headers), both builds, two executions with a kill anywhere | `CacheOutlivesTasks`, `CleanRunIsComplete`, `ChainComplete` |
| `generation_faults` | one execution, both builds, failing streams, four output folders | `CleanRunIsComplete`, `DebugReportsTasks`, `Termination` |
| `projection` | four types in two namespaces: enums, structs, delegates (`Callbacks`), and enums, structs, interfaces and a class (`Objects`), rows against names, unresolved types | `OnlyKnownGaps`, `DefinedOnce`, `NamespaceComplete`, `IncludesAreComplete`, `Termination` |
| `self_contained` | the types of one shipped namespace | **violation** of `HeadersSelfContained`, see Findings |
| `options` | every command line of up to four of sixteen arguments, and look-ups of up to three paths, among them a folder with a link to a file in it and a second name of that folder; every line of up to five characters, all arguments of up to three and pairs of up to two; every list of up to three SDK versions | `ArgumentsUnderstood`, `FilesFound`, `LinesCutAsWritten`, `NewestSdkChosen` |
| `excluded` | the same command lines | **violation** of `ExcludedNotProjected`, see Findings |
| `metadata` | one table at each row count at which an index becomes wider, the others small, and files of few tables; lists of up to three members in up to four rows; signatures of up to three prefixes over every base, type specifications that are no generic instances too, with numbers of 1, 2 and 4 bytes and a blob longer than one byte can say; two databases of up to two plain and two nested types; up to two filter rules of each sort, sorted by insertion or in any way | `LayoutIsTheFiles`, `RowsHaveOneOwner`, `SignaturesReadAsWritten`, `CacheKeepsFirst`, `LongestPrefixDecides`, `ReadingEnds` |
| `runtime` | two variables and three objects with a member each; three owners and three handles | `ReferencesCounted`, `HandlesOwnedOnce` |

`options`, `metadata` and `runtime` check several components at once: `part` is chosen in `Init`, a behaviour is one of that component, and the
variables of the others do not change. A property of such a run is the conjunction of the properties its component's
module states, behind `part = ...`.

`OnlyKnownGaps` is the central property of the headers. A name that the compiler cannot resolve is one of four kinds, each of which the
instance has: a delegate repeated in a foreign `.0.h` (`RepeatedDelegate`); a delegate that uses one of a later row
(`LaterRow`); an unresolved type where nothing declares it, or needed by value (`UnresolvedType`); and a namespace that only
function signatures name, since `.2.h` and `.h` drop their `depends` (`OutOfSight`). In all else, for any first include, the guards,
the includes and the order within each file work.

**Known gaps.** Some properties exclude by name what the code does not do, and nothing else. `OnlyKnownGaps` has the four above. `LoadedTwiceOnlyByGaps`: a link in a folder is
taken under its own name, since only the path of the folder is made canonical (`cmd_reader.h:401`), the path of `local` is not even that, and a file that is an input and a
reference is loaded for both. `KnownMisfits`: an accessor that asks
`AssemblyRefProcessor` for a third column it has not (`column.h:498`); `HashValue`, read with the index of a string
where the file has that of a blob (`schema.h:523`); and `HasCustomAttribute`, whose size leaves out `DeclSecurity` (`database.h:393`).
`ArraysAreLast`: the lower bounds of an array are not skipped (`signature.h:163`), so that what follows an array is read from the wrong byte.
`SpecIsGeneric`: that a type specification is a generic instance is only asserted (`signature.h:501`); a release build reads an array or a pointer on as one, and the instance has such
specifications, too. `LongestPrefixDecides` does not cover long sequences of rules of which some exclude, where `std::sort` is undefined.
`ChainComplete` covers the headers of one namespace: after a kill the spanning headers, those of other namespaces and `base.h` may be missing until the next clean run.
`fromInside`: `copy_ref` and move assignment release the old object before they take over the new one (`base.h:572`, `base.h:423`), so that assigning, by copy or by move, from the
inside of what the slot alone keeps alive is not covered.

**Bounds.** Three types are enough for a diamond's halves, every shape of cycle up to three, a nested type in a nested type, and a type
reached twice. Two namespaces are enough for a foreign type before and after one's own, and four types for a delegate, what it uses,
who uses it, and one more. Three tasks are enough for one to fail before, and one after, the first failed one in order. One namespace has the whole chain
of four headers; a second adds only tasks that share nothing with the first. Two executions are enough for a
kill, a stale folder and a repair. Four arguments are enough for an option, a response file that brings another one, and a value behind
it; five characters for an opening quote, an odd and an even run of backslashes and what follows. Two databases are enough for a first and a later definition,
four rows for a type nested in a nested one. Three objects with a member are enough for a chain whose head is released while its tail is assigned.
The theorems cover every number of types, namespaces, tasks, executions, rows, databases, arguments, characters, files, versions, owners and handles.
Bounds in guards: `MaxRuns` (executions), `MaxStreams` (nested response files, which the C library bounds), `MaxRaw` (raw references),
`MaxRules` and `ShortSort` (rules of the filter, and how many are sorted by insertion: 3 in the instance, so that both kinds of sort occur).

**Deadlock** is not checked where the program stops: the graph, the group, the main thread and the compiler all end. That they do is
checked as `Termination` and `JoinEnds`. A variable of `com_ptr` or a handle can run out of steps only because the instance has run out
of objects. `options` and `metadata` have a `Done` step at the end and check deadlock: no component stops before its end.

**Fairness.** The graph is straight-line recursion on one thread: `WF(Next)`. So are the writer of a header and, after it, the
compiler, and the readers of metadata (`MetadataSpec`). The group: a task with a thread of
its own starts and its callback returns (callbacks are loops over finite metadata), and the owner goes on with a loop it has
begun; nothing makes the owner call `get`, and nothing but `Wait` runs a deferred task. `Generation`: the main
thread and each started task go on, again without fairness that would start a deferred task.

## Proofs

Every theorem holds for all values of the constants under the named assumptions of the modules (`N` is a natural
number, inputs are metadata; `None` is no task; namespaces are distinct names, none of which is `base` or one of
the two spanning headers).

**DefinitionOrderProofs.** The invariant: a type is written once and after what it needs (`DependenciesFirst`, which `Write` demands), the set written so far contains
its own dependencies and no circle (`Settled`), and at the end it is `Needed` (`AllWritten`). `CircleIsExact` follows from `Settled`. For `WrittenIsWanted`: if nothing needed a type that
was not asked for, `Needed` without it would be closed, and `Needed` is the least closed set (`NeededIsWanted`); and what needs it is written later.

**TypeDependencyGraphProofs.** The inductive invariant `IInv` says, next to the types: active types are distinct nodes
(`StackOK`); a node that is not under construction has all its edges, and each activation those before its loop position
(`EdgesOK`, where a caller's position counts one further, since the edge is added before the call); nodes are
exactly what the roots lead to (`NodesOK`); during the walk, *walking* means on the stack, *complete* means emitted, every
activation waits for the next one at its loop position, and the edges before it are complete (`WalkOK`); what is
emitted is closed (`EmittedOK`). The hard case is the cycle: when `visit` meets a walking node, the part of the stack from
that node up is a set in which each has a successor, which is what `Cyclic` asks for. From `IInv` follow `TypeCorrect`, `EdgesStayClosed`,
`CycleIsExact`, and `Implementation`: each step maps to a step or a stutter of `DefinitionOrder`, with `order` the emitted
types and `outcome` the phase once the walk has ended.

`RequiredComeFirst` (the property `StructsAndBasesFirst`) goes beyond edges: it speaks of outermost types, which a recursive function finds. That there is such a function for any number of types is
proved first (`OuterExists`: a least number of types without one cannot be). Since the walk implements `DefinitionOrder`, everything a written type
depends on is written before it (lemma `OrderIsSound`); by `NestedReached` this covers the structs nested in it, as each is the member of the
one around it, and a by-value member that lies in another outermost type is outermost itself. The metadata is assumed to nest types only in structs
of an earlier row, to hold structs by value in nested types only if those are structs, and to derive interfaces from interfaces
(`NestingAssumption`, `NestedMembersAssumption`, `BasesAssumption`).

**TaskGroupProofs.** The properties alone are not inductive: the destructor could leave a task that is in nobody's vector. `IInv`
adds `Tracked` (a task that has not ended is in `futures`, in `moved` while `get` waits, or being called), `LoopsDone` (what each loop
has passed), `Rethrown` and `InPlace` (what a `_DEBUG` build keeps). `TypeCorrect`, `DestructorJoins`,
`GetIsOrderly`, `GetIsComplete` and `DebugOrder` follow.

**GenerationProofs** uses the group as a part: its actions are steps of the group or leave it alone, so the invariant of
`TaskGroupProofs` is a conjunct of `IInv`. The rest ties the two: `MainInv` (where `run` is decides where the group may be), `CompleteUnlessThrown`
(no exception means all tasks were added and `base.h` is copied) and `Progress` (headers a task is past are current or lost). `TypeCorrect`,
`CacheIsSafe`, `CleanRun` and `ThrownIsReported` follow; `ChainStays` needs in addition that no stream fails and that the chains of the folder were whole to begin with, as its run assumes.

**ProjectionProofs** is about all texts at once. Lemmas state facts of one state, with the header, the jobs left and the text as
parameters: the body a writer has so far consists of what its finished jobs say (`BodyText`), what it depends on is what
those mention, its front of what the loop has passed (`FrontText`), so that a saved header is complete (`FileText`). For the compiler, each
header has a rank that every include lowers, hence no header is included while it is read (`IncludesComplete`). `Noted` says that
all lines the compiler is past are known to it: with it, a guarded header that was passed means all it includes is there, and
`NamespacesComplete` follows. `FromHome` says that a type that is no delegate is defined only in its home header, at one
line, and `DefinedAtMostOnce` follows, since no header is read twice.

`GapsAreKnown` is the theorem about uses. Of each use and each requirement in a text, the invariant says that it is explained: by a
line of the same text before it, by what the front of the header will still declare or include (`Ahead`, while the writer is not done),
or by being one of the four gaps. Both halves are conjuncts of `Known`: `WriterKnows` for the texts and `ReaderKnows` for the compiler, who, when it stands at a line, has
read all before it and each header those include to its end, but for the headers it is inside of. By the rank of headers, none of these is
one the line counts on. The metadata has to be sensible (`ReferencesAssumption`): a class is named by nothing but its own activation, only interfaces have bases,
and these are interfaces.

**ReadersProofs.** A behaviour of `MetadataReaders` is one of one of its parts, so each
invariant is stated under `part = ...`, and no step of one part changes another (`LayoutAlone`, `CacheAlone`, `FilterAlone`, `WalkAlone`).

* `FirstDefinitionKept` has the four conjuncts of what `metadata` checks of the cache. `EntryInv`: the map holds for each key a type of that key that was read,
  and no earlier one was (`FirstEntered`). `ListingOK`: each list has no type twice, has only types that are filed
  there and not removed (`Fits`), and misses none of these but the removed ones (`FiledListed`). Since two types of a list are of different names,
  `remove_type`, which erases the first of a name, erases the only one (`WithoutIs`), and `InOneList` follows. `NestingOK`:
  what `m_nested_types` has under a type is in `NestedClass` as nested in it, in the same file; hence a reference of two or three names, followed inwards through the
  map, comes to a type from which `NestedClass` leads outwards to the definition of the first name (`RootOfOne`, `RootOfTwo`), which is `RootsAgree`.
  That the key that is filed next exists needs a least one of finitely many pairs (`FirstKey`).
* `PrefixDecides`. `FilterInv`: where the sort is defined or by insertion (`SortIsDefined`), the rules put so far are those given, and of two, the one in front is longer, or as long and not an include behind which an
  exclude comes; `SortKeeps` has this of any arrangement that an order allows. The first rule that matches is then a longest match, and an exclude if any longest one is.
* `MembersMetOnce`: lists of well-formed tables are disjoint and cover the target; a least row whose start is beyond a
  member exists because subsets of a finite set are well-founded. `MembersFindTheirOwner` is the way back, which is `std::upper_bound`. The search is a recursive function over
  ranges of starts; what it returns is proved by well-founded induction over the length of the range: the place `Nearest` to
  the one where the starts go beyond the member (`SearchEnds`). Behind that place stands the row the member was met for (`ParentOf`).
  `RowsAreOwned` joins the two.
* `LayoutFollowed` is about `database::initialize`. `LayoutInv` has `LayoutTypes` (row counts are those of the file, and once `SetColumns` has run the
  columns are `Columns`) and `Places`: the tables that are set are the first ones of `DataOrder`, each stands where the last lower one that has rows ends, and the view begins where the
  last of all ends. That `DataOrder` has the tables in the order of their numbers is a table of 38 entries, compared once. For the widths, a coded index
  is two bytes exactly if each table it can name has fewer rows than a limit that the bits of the tag decide (`CompositeFits`), and exactly then all values it can hold fit 16 bits
  (`NarrowValues`); bits come from `Halvings`, whose values on its 32 arguments are found by giving the function that solves its equation. From there each accessor's column is compared with the file's.
  The accessors it leaves out are the known misfits (see Known gaps).

Assumed are `StreamsAssumption` (a stream has some of the tables, perhaps also one the reader does not know, and fewer than 2^24 rows of each, since a token has 24 bits for
a row, so that 32 bits do not overflow), `FilesAssumption` (namespaces and names are numbers, files have rows of the two tables) and `TextsAssumption` (names and rules are
made of characters). `WellFormed` files name in `NestedClass` rows of the file, each as nested at most once, since
the table is sorted by that column, its key (ECMA-335, II.22.32).

**OptionsProofs.** Here, too, each invariant is behind `part = ...`, and no step of one part changes another (`CommandAlone`, `LineAlone`, `SdkAlone`).

* `NewestVersionChosen`. `SdkInv`: the result so far is one of the installed versions seen, and none seen is newer (`NewestSoFar`). In the middle of a
  key the version compared with is half overwritten: its parts are those of the key up to the part that is compared, and those of the result from there on,
  and unless a part was higher the two agree so far (`Compared`). This is what makes it right to compare with a version that is no version at all.
* `ValuesBelongToTheirOption`. What a command line means is a text: the line with each response file written out where it is named, as deep as
  streams can be open (`WrittenOut`, by `Inline`). `ReadInv`: what was taken so far, followed by what all readers on the stack have left, written out, from the
  innermost out (`Behind`), is that text, and what was taken was understood as the property says (`Understood`). Opening and closing a file leave the text as
  it is (`OpenResponseReads`, `CloseResponseReads`); taking an argument moves it to the other side.
* `FoundFilesAreRight`. `FilesInv` follows the stages of `process_args`: what is in the settings, on disk, and thrown at each of them. That the files of one look-up come once
  each under their names is what `SetToSeq` makes of a finite set; two names of one file are then a link in a folder or a folder whose path is not canonical, or else both are canonical
  names and equal (`LoadedOnce`).
* `LinesAreCutAsWritten`. Two invariants. `LettersInv`: up to the position the line has the letters that the arguments have, for any line. `RoundInv` is the round
  trip: in an argument, the parser is before its first quote, between its quotes, or behind its last one (`Opening`, `Quoting`, `Closed`). Between its quotes, what was taken begins the
  argument, and what is ahead on the line is the rest of it as it is written (`Ahead`), a quote, and the other arguments. A turn of the loop reads a whole run of backslashes, of which the writer has
  doubled each one or none; lemma `SlashesRead` says what stands behind the run, and from there `QuotingTurn` has three cases: the end of the argument
  (twice as many backslashes, and a quote that closes, since a blank or nothing is behind it), a quote in it (an odd number, so that it is copied), and anything else.

Assumed are `ArgumentsAssumption` (arguments are words, files have lines or are missing or misused), `PathsAssumption` (a finite file system, in which the
canonical name of a canonical name is itself and leads to the same kind of thing), `LinesAssumption` (blank, quote, backslash and the end of the line are different and no letters) and
`VersionsAssumption` (a version is a row of numbers, 0 among them). `OptionsAssumption` says of the option table that no name begins another; it is a fact about strings, which the provers
do not take apart, and TLC evaluates it.

**RuntimeProofs.** `ReferencesAreCounted` is about every program of `com_ptr` operations over any finite set of variables and objects. The
count equals the owners only between operations. `Sound` therefore has three cases: `Settled` (nothing left to do, counts are
owners), `Counting` (a slot holds a reference that is about to be counted) and `Cascading` (references are being given up: `steps` starts with clears of
the slots Z, with what else the operation does behind them). `Balanced` is the equation in the middle of an operation: the count of an object is its slots and raw references, one more if
its `Release` is the next step, and one if a slot behind is about to take over a reference. `Supported` says that what is referred to by a slot that stays has
not been destroyed. The hard step is an assignment whose release destroys other objects: what is assigned must outlive it. Lemma
`Survive`: an object that is not kept by the slot alone has an owner that is not kept by it either, since the count exceeds the
owners inside the closed set. Assumptions: variables and objects are finite and distinct, `Null` is neither, `MaxRaw` is a natural number.
`HandlesAreOwned`: the types and `OwnedOnce` of `UniqueAny` are inductive together; the invalid value is no handle.

**Model-checked only:** all liveness (`Termination`, `JoinEnds`, `ReadingEnds`), which TLAPS does not prove; and `SignaturesReadAsWritten`, because what is
written of a signature is a `RECURSIVE` operator over nested types, which TLAPS does not take.

## Findings

`delegate_order`: `add_delegate` keeps only parameters whose type *name* equals the graph's namespace
(`type_dependency_graph.h:100`), where `add_interface` compares the *namespace* (line 125). In `write_delegates`, the only
caller, the condition therefore never holds for a delegate of the namespace; the graph has no edges, and delegates are
written in row order, one that uses another possibly before it. In the shipped `test/Windows.Win32.winmd` the rows happen to be in order.

`self_contained`: the loop at `file_writers.h:40` repeats foreign delegates whole, in the order of their names. In the shipped
metadata `PWLX_DIALOG_BOX` of `Windows.Win32.Security` makes it write `using DLGPROC` in front of `struct HWND`, which
`DLGPROC` uses. A program that includes that header first does not compile.

`excluded`: `process_args` remembers the prefixes of `-exclude` (`main.cpp:101`) and of `-include`, and nothing reads them; `run` makes a task for every namespace of
the cache. `main.cpp:28` says "One or more prefixes to exclude from input".

Met while modelling, and left without a run since a single line shows them:

* A folder is searched for files by a `directory_iterator` (`cmd_reader.h:401`); the text of the option (`main.cpp:67`) says it is scanned recursively.
* Reference metadata goes into the same cache as the input (`main.cpp:150`), and is projected, too.
* `AssemblyRefProcessor::AssemblyRef` asks for the third of two columns (`column.h:498`, `database.h:410`); the assertion in `table.h:38` would say so. Nothing calls it.
* `AssemblyRef::HashValue` reads the index of a blob as that of a string (`schema.h:523`), and the size of `HasCustomAttribute` leaves out `DeclSecurity` (`database.h:393`).
* The lower bounds of an array are not skipped (`signature.h:163`).
* `unique_storage::reset(nullptr_t)` does nothing (`base.h:707`), and `unique_any_t`'s constructor from a handle names `args` where it has `arg1` (`base.h:750`): it does not compile when it is used.
* A nested type named by a TypeDef has an empty namespace (`type_writers.h:95`), so that a header of no namespace would be asked for; the shipped metadata names nested types by TypeRef.
* `run` never calls `get`, so what a task throws in a release build is lost and the result is 0; `main` ignores what `run` returns (`main.cpp:208`); streams are not checked.

## Not modelled

* **PE image** (`pe.h`): a fixed layout, read in one pass without state.
* **Flags** (`flags.h`): bit fields over constants. `enum_traits.h` and `enum.h` enter `MetadataLayout` as far as they decide the width of coded indexes.
* **Custom attributes** (`custom_attribute.h`): the generator reads one of them (the GUID of an interface), whose decoding does not change what is declared where.
* **Formatting** (`text_writer.h` `write`, `bind`, `write_segment`; wording in `code_writers.h`; spelling of types in `type_writers.h`): HeaderSet has what is named and declared, not the words. Initialisers of
  constants, IUnknown's missing GUID and the `System.Guid` special case name no type of the metadata.
* **Nested types in `HeaderSet`**: the shipped metadata names them by TypeRef, which collects nothing; their members count as members of the outermost type.
* **Reading of `Platform.xml` and extension SDKs** (`cmd_reader.h`): called nowhere, or under a condition no option makes true.
* **Runtime library**: GUIDs, error codes and conversions of ABI values keep no state. `unique_any_t`'s constructor from a handle does not compile.
* **Sample application**; `dependency_sorter` in `code_writers.h`, an unused duplicate of the graph; `write_interfaces`, an unused writer.

## Plan

A proof of `SignaturesReadAsWritten`. It needs the tokens of a type as a recursive function over a set of types in which arguments are less deep than
what they are arguments of, and an invariant that says which tokens each waiting reader is about to take.
