--------------------------- MODULE OptionReaders ---------------------------
(***************************************************************************)
(* How the options are read: the command line and what becomes of its       *)
(* files, a line of a response file, and the choice of an SDK. Each is       *)
(* finished before the next one starts and none changes another, so that a  *)
(* behaviour is one of one of them.                                          *)
(***************************************************************************)
EXTENDS CommandLine

CONSTANTS
    Letter, Blank, Quote, Backslash, Nul, Lines, Wanted,   \* of ResponseLine
    Parts, Numbers, Keys                                   \* of SdkVersion

Character == Letter \cup {Blank, Quote, Backslash}

\* Characters are what they are, and lines and arguments are made of them.
ASSUME LinesAssumption ==
    /\ Letter \cap {Blank, Quote, Backslash, Nul} = {}
    /\ Blank \notin {Quote, Backslash, Nul} /\ Quote \notin {Backslash, Nul}
    /\ Backslash # Nul
    /\ Lines \subseteq Seq(Character)
    /\ Wanted \subseteq Seq(Seq(Character))

\* A version is made of numbers, of which 0 is one.
ASSUME VersionsAssumption ==
    /\ Parts \in Nat \ {0} /\ Numbers \subseteq Nat /\ 0 \in Numbers
    /\ Keys \subseteq Seq([1..Parts -> Numbers])
    /\ None \notin [1..Parts -> Numbers]

VARIABLES
    wanted, line, p, in_quotes, arg, first_arg, pc,                     \* ResponseLine
    keys, platform, module, index, i, version_parts, force_newer,       \* SdkVersion
    part                                                                \* which it is

L == INSTANCE ResponseLine
S == INSTANCE SdkVersion WITH NoVersion <- None

commandVars == <<readers, last, m_options, settings, folder, projected, main, status>>
lineVars == <<wanted, line, p, in_quotes, arg, first_arg>>
sdkVars == <<keys, platform, module, index, i, version_parts, force_newer>>

NoCommand ==
    /\ readers = None /\ last = None /\ m_options = None /\ settings = None
    /\ folder = None /\ projected = None /\ main = None /\ status = None
NoLine ==
    /\ wanted = None /\ line = None /\ p = None /\ in_quotes = None /\ arg = None
    /\ first_arg = None
NoSdk ==
    /\ keys = None /\ platform = None /\ module = None /\ index = None /\ i = None
    /\ version_parts = None /\ force_newer = None

OptionsInit ==
    \/ part = "command" /\ Init /\ NoLine /\ NoSdk /\ pc = None
    \/ part = "line" /\ L!Init /\ NoCommand /\ NoSdk /\ result = None
    \/ part = "sdk" /\ S!Init /\ NoCommand /\ NoLine /\ argv = None

OptionsNext ==
    /\ part' = part
    /\ \/ part = "command" /\ Next /\ UNCHANGED <<lineVars, sdkVars, pc>>
       \/ part = "line" /\ L!Next /\ UNCHANGED <<commandVars, sdkVars, result>>
       \/ part = "sdk" /\ S!Next /\ UNCHANGED <<commandVars, lineVars, argv>>

optionsVars == <<vars, lineVars, sdkVars, pc, part>>

OptionsSpec == OptionsInit /\ [][OptionsNext]_optionsVars

-----------------------------------------------------------------------------

\* Values go to the option written before them, in response files too, and no
\* other option is in force: TypeOK, ValuesFollowTheirOption and OptionsWereNamed.
ArgumentsUnderstood ==
    part = "command" => TypeOK /\ ValuesFollowTheirOption /\ OptionsWereNamed

\* Refused arguments leave no folder, and the files found are databases, once
\* each: FolderOnlyForGoodArguments, InputsAreDatabases and LoadedTwiceOnlyByGaps.
FilesFound ==
    part = "command" =>
        FolderOnlyForGoodArguments /\ InputsAreDatabases /\ LoadedTwiceOnlyByGaps

\* A line is cut into the arguments it was written for: see ResponseLine.
LinesCutAsWritten == part = "line" => L!TypeOK /\ L!RoundTrip /\ L!LettersKept

\* The SDK is the newest that is installed, or the program's own: see SdkVersion.
NewestSdkChosen ==
    part = "sdk" => S!TypeOK /\ S!NewestReturned /\ S!ThrowsWithoutSdk /\ S!PartsOfResult
=============================================================================
