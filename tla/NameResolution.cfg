SPECIFICATION NamesSpec
CONSTANTS
  a = a
  b = b
  tag = tag
  generated = generated
  Name <- AllNames
  Ident <- Idents
  Tag = tag
  Generated = generated
  Returns <- PlainReturns
  Parameters <- SomeParameters
  Objects <- SomeObjects
  Typedefs <- PlainTypes
  TypeNames <- SomeTypes
  Casts <- JustEnums
  Steps <- JustTypes
  MaxHeader = 2
  MaxItems = 5
INVARIANTS UsesMean TypedefsKnown NumbersAgree
SYMMETRY SwapIdents
CHECK_DEADLOCK FALSE
