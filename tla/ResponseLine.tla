---------------------------- MODULE ResponseLine ----------------------------
(***************************************************************************)
(* reader::parse_command_line: a line of a response file is cut into        *)
(* arguments. Characters are abstracted to the four kinds that the rules    *)
(* of quoting tell apart.                                                   *)
(***************************************************************************)
EXTENDS Naturals, Sequences, SequencesExt

CONSTANTS Letter,      \* characters without a meaning of their own
          Blank, Quote, Backslash, Nul,
          None,
          Lines,       \* the lines to parse
          Wanted       \* argument lists that someone writes as a line

Char == Letter \cup {Blank, Quote, Backslash}

VARIABLES
    wanted,      \* the arguments the line was made for, None for a line as it comes
    line, p,     \* cmdstart and the position in it
    in_quotes, arg, first_arg,
    argv,
    pc           \* the loop that runs: "between" arguments, "inside" one, "done"

vars == <<wanted, line, p, in_quotes, arg, first_arg, argv, pc>>

\* How many of the same character c stand at position i of s.
Run(s, i, c) == CHOOSE n \in 0..Len(s) :
    /\ \A j \in 0..(n - 1) : i + j <= Len(s) /\ s[i + j] = c
    /\ i + n > Len(s) \/ s[i + n] # c

Repeat(c, n) == [i \in 1..n |-> c]

(* What a caller writes so that the program gets an argument: the argument in *)
(* quotes, with every quote in it escaped, and the backslashes before a quote *)
(* doubled.                                                                   *)
Piece(a, i) ==
    LET end == i + Run(a, i, Backslash) IN
    CASE a[i] = Quote -> <<Backslash, Quote>>
      [] a[i] = Backslash /\ (end > Len(a) \/ a[end] = Quote) -> <<Backslash, Backslash>>
      [] OTHER -> <<a[i]>>

Quoted(a) == <<Quote>> \o FlattenSeq([i \in 1..Len(a) |-> Piece(a, i)]) \o <<Quote>>

\* Arguments are written with a blank between them.
Written(args, i) == (IF i = 1 THEN <<>> ELSE <<Blank>>) \o Quoted(args[i])
LineOf(args) == FlattenSeq([i \in 1..Len(args) |-> Written(args, i)])

Init ==
    /\ \/ wanted \in Wanted /\ line = LineOf(wanted)
       \/ wanted = None /\ line \in Lines
    /\ p = 1
    /\ in_quotes = FALSE /\ arg = <<>> /\ first_arg = TRUE
    /\ argv = <<>>
    /\ pc = "between"

At(i) == IF i <= Len(line) THEN line[i] ELSE Nul

Blanks(i) == Run(line, i, Blank)

\* The head of the outer loop: blanks are skipped, the argument that was read
\* is added, and the end of the line ends the loop.
NextArgument ==
    /\ pc = "between"
    /\ p' = p + Blanks(p)
    /\ argv' = IF first_arg THEN argv ELSE Append(argv, arg)
    /\ arg' = IF first_arg THEN arg ELSE <<>>
    /\ pc' = IF At(p') = Nul THEN "done" ELSE "inside"
    /\ UNCHANGED <<wanted, line, in_quotes, first_arg>>

(* One turn of the inner loop, which has read n backslashes up to q. *)

\* A quote inside quotes that another one follows stands for itself.
Doubled(n, q) == At(q) = Quote /\ n % 2 = 0 /\ in_quotes /\ At(q + 1) = Quote

\* Fault: also a quote after an odd number of backslashes opens or closes.
FaultyToggles(n, q) == At(q) = Quote /\ ~Doubled(n, q)

Toggles(n, q) == At(q) = Quote /\ n % 2 = 0 /\ ~Doubled(n, q)

Copied(n, q) == IF Doubled(n, q) THEN q + 1 ELSE q

Ends(i, quotes) == At(i) = Nul \/ (At(i) = Blank /\ ~quotes)

InArgument ==
    /\ pc = "inside"
    /\ LET n == Run(line, p, Backslash)
           q == p + n
           here == Copied(n, q)
           slashes == Repeat(Backslash, IF At(q) = Quote THEN n \div 2 ELSE n)
           quotes == IF Toggles(n, q) THEN ~in_quotes ELSE in_quotes
           ends == Ends(here, quotes)
       IN  /\ in_quotes' = quotes
           /\ arg' = arg \o slashes \o
                     (IF ends \/ Toggles(n, q) THEN <<>> ELSE <<At(here)>>)
           /\ p' = IF ends THEN here ELSE here + 1
           /\ pc' = IF ends THEN "between" ELSE "inside"
           /\ first_arg' = (first_arg /\ ~ends)
    /\ UNCHANGED <<wanted, line, argv>>

Done == pc = "done" /\ UNCHANGED vars

Next == NextArgument \/ InArgument \/ Done

Spec == Init /\ [][Next]_vars

-----------------------------------------------------------------------------
(* Properties *)

TypeOK ==
    /\ line \in Seq(Char) /\ p \in 1..(Len(line) + 1)
    /\ in_quotes \in BOOLEAN /\ first_arg \in BOOLEAN
    /\ arg \in Seq(Char) /\ argv \in Seq(Seq(Char))
    /\ pc \in {"between", "inside", "done"}

\* Whatever arguments someone means to pass, with blanks, quotes and
\* backslashes anywhere in them and empty ones too, writing them by the rules
\* of quoting gives a line that parse_command_line cuts into exactly those.
RoundTrip == pc = "done" /\ wanted # None => argv = wanted

\* The letters of s, in their order.
IfLetter(c) == IF c \in Letter THEN <<c>> ELSE <<>>
Letters(s) == FlattenSeq([i \in 1..Len(s) |-> IfLetter(s[i])])

\* Of any line, also of one that no rule produces (an open quote, quotes in the
\* middle of a word), no ordinary character is lost, repeated or moved: the
\* arguments hold the letters of the line in its order.
LettersKept == pc = "done" => Letters(FlattenSeq(argv)) = Letters(line)
=============================================================================
