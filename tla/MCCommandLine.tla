--------------------------- MODULE MCCommandLine ----------------------------
(* What people type: options, their values, and response files.             *)
EXTENDS CommandLine, TLC

Arg(kind, text) == [kind |-> kind, text |-> text]
Opt(text) == Arg("option", text)
Val(text) == Arg("value", text)
Rsp(text) == Arg("response", text)

UpTo(n, S) == UNION {[1..k -> S] : k \in 0..n}

\* How the arguments are cut and kept: options in full, abbreviated, ambiguous
\* and unknown, values, and response files that carry an option in, carry one out,
\* nest, include themselves, are missing or misused.
SomeArguments ==
    {Opt("input"), Opt("in"), Opt("exc"), Opt("v"), Opt("o"), Opt("h"), Opt("inputs"),
     Val("a.winmd"), Val("folder"), Val("A"),
     Rsp("values"), Rsp("option"), Rsp("nested"), Rsp("itself"), Rsp("missing"), Rsp("misused")}
ManyCommandLines == UpTo(4, SomeArguments)

Content(args) == [kind |-> "lines", args |-> args]
SomeResponses ==
    [values |-> Content(<<Val("folder"), Val("a.winmd")>>),
     option |-> Content(<<Val("folder"), Opt("ref")>>),
     nested |-> Content(<<Opt("i"), Rsp("option"), Val("b.winmd"), Rsp("values")>>),
     itself |-> Content(<<Rsp("itself"), Val("a.winmd")>>),
     missing |-> [kind |-> "missing"],
     misused |-> [kind |-> "misused"]]

\* What becomes of inputs and references: a folder with a link to a database in
\* it, second names of the folder and of a file, a file that is no database, a
\* path that is nothing, and the folder of the system.
SomeLookUps ==
    {<<Opt("input")>> \o inputs \o <<Opt("reference")>> \o references \o rest :
       inputs \in UpTo(2, {Val("folder"), Val("a.winmd"), Val("A.WINMD"), Val("t.txt"),
                      Val("FOLDER"), Val("gone"), Val("local")}),
       references \in UpTo(1, {Val("folder"), Val("b.winmd"), Val("gone"), Val("local")}),
       rest \in {<<>>, <<Opt("exclude"), Val("B")>>, <<Opt("filter"), Val("A"), Opt("out"), Val("dir")>>}}

Directory(files) == [kind |-> "folder", files |-> files]
SomePaths ==
    ("folder" :> Directory({"a.winmd", "link.winmd", "t.txt"}) @@
     "FOLDER" :> Directory({"A.WINMD"}) @@
     "local" :> Directory({"A.WINMD"}) @@
     "gone" :> [kind |-> "nothing"] @@ "A" :> [kind |-> "nothing"] @@
     "B" :> [kind |-> "nothing"] @@ "dir" :> Directory({}) @@
     [f \in {"a.winmd", "A.WINMD", "b.winmd", "link.winmd", "t.txt"} |-> [kind |-> "file"]])
SomeCanonical ==
    [p \in DOMAIN SomePaths |->
       CASE p = "A.WINMD" -> "a.winmd" [] p = "link.winmd" -> "b.winmd" [] p = "FOLDER" -> "folder"
         [] OTHER -> p]
SomeDatabases == {"a.winmd", "A.WINMD", "b.winmd", "link.winmd"}
SomeNamespaces ==
    [f \in DOMAIN SomePaths |->
       IF f \in {"a.winmd", "A.WINMD"} THEN {"A", "B.X"} ELSE {"B.Y", "C"}]

SomeCommandLines == ManyCommandLines \cup SomeLookUps
=============================================================================
