CONSTANTS
  Files <- SomeFiles
  Databases <- SomeDatabases
  Inputs <- SomeInputs
  Removals <- SomeRemovals
  Space <- SomeNumbers
  Name <- SomeNumbers
  None = None
  Dot <- TheDot
  TypeNames <- SomeNames
  RuleTexts <- SomeTexts
  MaxRules = 2
  ShortSort = 3
SPECIFICATION MetadataSpec
INVARIANTS  RowsHaveOneOwner SignaturesReadAsWritten CacheKeepsFirst LongestPrefixDecides
PROPERTY ReadingEnds
