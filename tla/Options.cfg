CONSTANTS
  Argv <- SomeCommandLines
  Responses <- SomeResponses
  MaxStreams = 2
  Paths <- SomePaths
  Canonical <- SomeCanonical
  Databases <- SomeDatabases
  Namespaces <- SomeNamespaces
  None = None
  Letter <- SomeLetters
  Blank = "blank"
  Quote = "quote"
  Backslash = "backslash"
  Nul = "nul"
  Lines <- SomeLines
  Wanted <- SomeWanted
  Parts = 3
  Numbers = {0, 1}
  Keys <- SomeKeys
SPECIFICATION OptionsSpec
INVARIANTS ArgumentsUnderstood FilesFound LinesCutAsWritten NewestSdkChosen
