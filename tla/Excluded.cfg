CONSTANTS
  Argv <- SomeCommandLines
  Responses <- SomeResponses
  MaxStreams = 2
  Paths <- SomePaths
  Canonical <- SomeCanonical
  Databases <- SomeDatabases
  Namespaces <- SomeNamespaces
  None = None
SPECIFICATION Spec
INVARIANT ExcludedNotProjected
