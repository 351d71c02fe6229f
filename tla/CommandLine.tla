---------------------------- MODULE CommandLine -----------------------------
(***************************************************************************)
(* From argv to what is projected: reader::reader collects the options of   *)
(* the command line and of response files, process_args looks the files up  *)
(* and makes the output folder, and run() takes its tasks from the cache.   *)
(* An argument is an option ("-text"), a response file ("@file") or a       *)
(* value; the lines of a response file are cut by ResponseLine.             *)
(***************************************************************************)
EXTENDS Naturals, Sequences, SequencesExt, FiniteSetsExt

CONSTANTS Argv,        \* the command lines, sequences of arguments
          Responses,   \* [response file -> [kind : "lines", args], "missing" or "misused"]
          MaxStreams,  \* streams a process may have open: more fail to open
          Paths,       \* [path -> [kind : "file", "nothing", or "folder" with the
                       \* files directly in it, links to files among them, but not
                       \* those in its folders]]
          Canonical,   \* [path -> the name that is left when its links are followed]
          Databases,   \* the files is_database accepts
          Namespaces,  \* [file -> the namespaces with types in it]
          None

NoMax == 1000000

O(name, min, max) == [name |-> name, min |-> min, max |-> max]

\* The table in main.cpp.
options ==
    << O("input", 0, NoMax), O("reference", 0, NoMax), O("output", 0, 1),
       O("verbose", 0, 0), O("pch", 0, 1), O("include", 0, NoMax),
       O("exclude", 0, NoMax), O("base", 0, 0), O("help", 0, NoMax),
       O("?", 0, NoMax), O("library", 0, 1), O("filter", 0, NoMax),
       O("license", 0, 0), O("brackets", 0, 0) >>

Option == {options[i].name : i \in DOMAIN options}

StartsWith(value, match) ==
    Len(match) <= Len(value) /\ SubSeq(value, 1, Len(match)) = match

\* What stands on a command line, or on the lines of a response file.
Arguments ==
    [kind : {"option"}, text : STRING] \cup [kind : {"value"}, text : DOMAIN Paths] \cup
    [kind : {"response"}, text : DOMAIN Responses]

\* What is said of argv and of files is true of all that can be there.
ASSUME ArgumentsAssumption ==
    /\ Argv \subseteq Seq(Arguments)
    /\ \A f \in DOMAIN Responses :
         /\ Responses[f].kind \in {"lines", "missing", "misused"}
         /\ Responses[f].kind = "lines" => Responses[f].args \in Seq(Arguments)
    /\ MaxStreams \in Nat

\* A file system is finite; a link leads to a file or a folder that is no link, with
\* what is in it.
ASSUME PathsAssumption ==
    /\ IsFiniteSet(DOMAIN Paths)
    /\ \A p \in DOMAIN Paths :
         /\ Paths[p].kind \in {"file", "folder", "nothing"}
         /\ Paths[p].kind = "folder" => Paths[p].files \subseteq DOMAIN Paths
    /\ Canonical \in [DOMAIN Paths -> DOMAIN Paths]
    /\ \A p \in DOMAIN Paths :
         /\ Canonical[Canonical[p]] = Canonical[p]
         /\ Paths[Canonical[p]].kind = Paths[p].kind
    /\ \A f \in Databases \cap DOMAIN Paths : Canonical[f] \in Databases

\* The table: no option's name begins with the whole name of another.
ASSUME OptionsAssumption ==
    /\ None \notin Option
    /\ \A i, j \in DOMAIN options :
         StartsWith(options[i].name, options[j].name) <=> options[i].name = options[j].name

VARIABLES
    argv,
    readers,     \* the arguments that are read: argv, and response files in it
    last,        \* the option that values belong to, None before the first
    m_options,   \* option -> its values; only options that were given
    settings,
    folder,      \* whether the output folder was made
    projected,   \* the namespaces that tasks are made for
    main,        \* where run() is
    result, status   \* what run() returns, and the status of the process

vars == <<argv, readers, last, m_options, settings, folder, projected, main, result, status>>

NoSettings == [input |-> {}, reference |-> {}, include |-> {}, exclude |-> {}]

Init ==
    /\ argv \in Argv
    /\ readers = <<argv>>
    /\ last = None
    /\ m_options = << >>
    /\ settings = NoSettings
    /\ folder = FALSE /\ projected = {}
    /\ main = "reading" /\ result = 0 /\ status = 0

unchangedRun == UNCHANGED <<argv, settings, folder, projected, result, status>>

\* An exception leaves everything that was open and goes to the handlers of run().
Throw(what) == main' = what /\ readers' = <<>>

-----------------------------------------------------------------------------
(* reader::reader *)

\* The first option of whose name the text is a prefix; a lone "-" is "input".
Find(text) ==
    LET fits == {i \in DOMAIN options : StartsWith(options[i].name, text)}
    IN  IF fits = {} THEN None ELSE options[Min(fits)].name

reading == main = "reading" /\ readers # <<>> /\ Last(readers) # <<>>
Argument == Head(Last(readers))
Advanced == [readers EXCEPT ![Len(readers)] = Tail(@)]

Given(o) == IF o \in DOMAIN m_options THEN m_options[o] ELSE <<>>
With(o, values) == [p \in DOMAIN m_options \cup {o} |-> IF p = o THEN values ELSE m_options[p]]

TakeOption ==
    /\ reading /\ Argument.kind = "option"
    /\ last' = Find(Argument.text)
    /\ IF last' = None
       THEN Throw("error") /\ UNCHANGED m_options
       ELSE /\ m_options' = With(last', Given(last'))
            /\ readers' = Advanced /\ UNCHANGED main
    /\ unchangedRun

TakeValue ==
    /\ reading /\ Argument.kind = "value"
    /\ IF last = None
       THEN Throw("error") /\ UNCHANGED m_options
       ELSE /\ m_options' = With(last, Append(Given(last), Argument.text))
            /\ readers' = Advanced /\ UNCHANGED main
    /\ unchangedRun /\ UNCHANGED last

\* Fault: a response file begins with the first option again.
FaultyLast == options[1].name

\* The option that the first value of a response file belongs to.
LastInside == last

\* A folder or metadata is refused; a file that cannot be opened, because it is
\* not there or too many are open, is an empty one.
OpenResponse ==
    /\ reading /\ Argument.kind = "response"
    /\ LET content == Responses[Argument.text]
           empty == content.kind = "missing" \/ Len(readers) > MaxStreams
       IN  IF content.kind = "misused"
           THEN Throw("error") /\ UNCHANGED last
           ELSE /\ readers' = Append(Advanced, IF empty THEN <<>> ELSE content.args)
                /\ last' = LastInside
                /\ UNCHANGED main
    /\ unchangedRun /\ UNCHANGED m_options

CloseResponse ==
    /\ main = "reading" /\ Len(readers) > 1 /\ Last(readers) = <<>>
    /\ readers' = Front(readers)
    /\ unchangedRun /\ UNCHANGED <<last, m_options, main>>

\* The counts of values the constructor checks, and what run() asks of it.
Counts(o) == Len(Given(o.name)) >= o.min /\ Len(Given(o.name)) <= o.max

CheckCounts ==
    /\ main = "reading" /\ readers = << <<>> >>
    /\ readers' = <<>>
    /\ main' = IF \E i \in DOMAIN options : ~Counts(options[i]) THEN "error"
               ELSE IF DOMAIN m_options = {} \/ DOMAIN m_options \cap {"help", "?"} # {}
               THEN "usage" ELSE "input"
    /\ unchangedRun /\ UNCHANGED <<last, m_options>>

-----------------------------------------------------------------------------
(* process_args *)

\* The folder is made canonical, but not the one that "local" stands for.
FolderAt(path) == IF path = "local" THEN path ELSE Canonical[path]

\* add_directory: the files of a folder that are databases, each by the name it has
\* there, be it a link or not.
InFolder(path) == Paths[FolderAt(path)].files \cap Databases

\* Fault: a file keeps the name it was given by.
FaultyFound(path) == IF Paths[path].kind = "folder" THEN InFolder(path) ELSE {path}

Found(path) == IF Paths[path].kind = "folder" THEN InFolder(path) ELSE {Canonical[path]}

\* reader::files: throws at the first path that is neither folder nor file,
\* which is also what becomes of "sdk" and of a version of the SDK.
Files(setting, next) ==
    LET paths == ToSet(Given(setting))
    IN  IF \E p \in paths : Paths[p].kind = "nothing"
        THEN main' = "error" /\ UNCHANGED settings
        ELSE main' = next
             /\ settings' = [settings EXCEPT ![setting] = UNION {Found(p) : p \in paths}]

LookUpInput ==
    /\ main = "input" /\ Files("input", "reference")
    /\ UNCHANGED <<argv, readers, last, m_options, folder, projected, result, status>>

LookUpReference ==
    /\ main = "reference" /\ Files("reference", "output")
    /\ UNCHANGED <<argv, readers, last, m_options, folder, projected, result, status>>

\* The output folder, which may be refused, and the options that are only
\* remembered after it.
MakeFolder ==
    /\ main = "output"
    /\ \/ /\ folder' = TRUE /\ main' = "cache"
          /\ settings' = [settings EXCEPT
               !.include = ToSet(Given("include")) \cup ToSet(Given("filter")),
               !.exclude = ToSet(Given("exclude"))]
       \/ main' = "error" /\ UNCHANGED <<folder, settings>>
    /\ UNCHANGED <<argv, readers, last, m_options, projected, result, status>>

-----------------------------------------------------------------------------
(* run and main *)

\* get_files_to_cache: input, then references.
Loaded == SetToSeq(settings.input) \o SetToSeq(settings.reference)

\* A file that is not a database makes the cache throw; otherwise a task is made
\* for every namespace in it.
BuildCache ==
    /\ main = "cache"
    /\ IF ToSet(Loaded) \subseteq Databases
       THEN main' = "exit" /\ projected' = UNION {Namespaces[f] : f \in ToSet(Loaded)}
       ELSE main' = "error" /\ UNCHANGED projected
    /\ UNCHANGED <<argv, readers, last, m_options, settings, folder, result, status>>

\* The handlers: the usage is printed, an error reported.
Catch ==
    /\ main \in {"usage", "error"}
    /\ result' = IF main = "error" THEN 1 ELSE 0
    /\ main' = "exit"
    /\ UNCHANGED <<argv, readers, last, m_options, settings, folder, projected, status>>

\* main() returns 0 whatever run() returned.
Exit ==
    /\ main = "exit"
    /\ main' = "exited" /\ status' = 0
    /\ UNCHANGED <<argv, readers, last, m_options, settings, folder, projected, result>>

Done == main = "exited" /\ UNCHANGED vars

Next ==
    \/ TakeOption \/ TakeValue \/ OpenResponse \/ CloseResponse \/ CheckCounts
    \/ LookUpInput \/ LookUpReference \/ MakeFolder
    \/ BuildCache \/ Catch \/ Exit \/ Done

Spec == Init /\ [][Next]_vars

-----------------------------------------------------------------------------
(* Properties *)

TypeOK ==
    /\ last \in Option \cup {None} /\ DOMAIN m_options \subseteq Option
    /\ \A o \in DOMAIN m_options : ToSet(m_options[o]) \subseteq DOMAIN Paths \cup STRING
    /\ Len(readers) <= MaxStreams + 2 /\ (main # "reading" => readers = <<>>)
    /\ folder \in BOOLEAN
    /\ settings.input \cup settings.reference \subseteq DOMAIN Paths
    /\ main \in {"reading", "input", "reference", "output", "cache",
                 "usage", "error", "exit", "exited"}
    /\ result \in {0, 1} /\ status = 0

(* The command line as if the response files were written out in it; a file  *)
(* beyond the streams that can be open is empty.                             *)
Inline(args, of) ==
    FlattenSeq([i \in DOMAIN args |->
        IF args[i].kind = "response" THEN of[args[i].text] ELSE <<args[i]>>])

Expansion[n \in 0..MaxStreams] ==
    [f \in DOMAIN Responses |->
       IF n = 0 \/ Responses[f].kind # "lines" THEN <<>>
       ELSE Inline(Responses[f].args, Expansion[n - 1])]

WrittenOut == Inline(argv, Expansion[MaxStreams])

\* The option before position i of a command line that is written out.
OptionBefore(line, i) ==
    LET before == {j \in 1..i : line[j].kind = "option"}
    IN  IF before = {} THEN None ELSE Find(line[Max(before)].text)

\* Where the values of option o stand on a command line that is written out.
ValuesOf(line, o) == {i \in DOMAIN line : line[i].kind = "value" /\ OptionBefore(line, i) = o}

\* Every value of the command line and of the response files, nested ones too,
\* belongs to the option written last before it, wherever that was written,
\* in the order of the values, and none is lost or repeated.
ValuesFollowTheirOption ==
    main = "input" =>
    LET line == WrittenOut
    IN  \A o \in Option :
          /\ Len(Given(o)) = Cardinality(ValuesOf(line, o))
          /\ \A i \in ValuesOf(line, o) :
               Given(o)[Cardinality({j \in ValuesOf(line, o) : j <= i})] = line[i].text

\* No option is in force that the user did not write, in full or abbreviated,
\* and an option written in full is in force, whatever else its name abbreviates.
OptionsWereNamed ==
    main = "input" =>
    LET texts == {line.text : line \in {a \in ToSet(WrittenOut) : a.kind = "option"}}
    IN  /\ \A o \in DOMAIN m_options : \E t \in texts : StartsWith(o, t)
        /\ texts \cap Option \subseteq DOMAIN m_options

\* Arguments that are refused leave no trace: once the output folder is made,
\* the values of every option are as many as it takes, and all inputs and
\* references were there.
FolderOnlyForGoodArguments ==
    folder => /\ \A i \in DOMAIN options : Counts(options[i])
              /\ \A p \in ToSet(Given("input")) \cup ToSet(Given("reference")) :
                    Paths[p].kind # "nothing"

\* What is not a database is never read because it lies in a folder with
\* databases, only if the user named it.
InputsAreDatabases ==
    settings.input \cup settings.reference \subseteq
    Databases \cup {Canonical[p] : p \in {q \in DOMAIN Paths : Paths[q].kind = "file" /\
                       q \in ToSet(Given("input")) \cup ToSet(Given("reference"))}}

\* What is found in a folder the user gave under a name that is not the file's
\* own: a link, or any file behind a link in the path that "local" stands for.
LinkInFolder(f) ==
    /\ Canonical[f] # f
    /\ \E p \in ToSet(Given("input")) \cup ToSet(Given("reference")) :
          Paths[p].kind = "folder" /\ f \in InFolder(p)

\* A file goes into the cache once under however many names it or its folder is
\* given, unless it is both input and reference, or a folder has a link to it.
LoadedTwiceOnlyByGaps ==
    \A i, j \in DOMAIN Loaded :
       i < j /\ Canonical[Loaded[i]] = Canonical[Loaded[j]] =>
       \/ Loaded[i] = Loaded[j] /\ Loaded[i] \in settings.input \cap settings.reference
       \/ LinkInFolder(Loaded[i]) \/ LinkInFolder(Loaded[j])

\* "One or more prefixes to exclude from input": no task is made for a namespace
\* that is excluded.
ExcludedNotProjected ==
    \A space \in projected, prefix \in settings.exclude : ~StartsWith(space, prefix)
=============================================================================
