SPECIFICATION NamesSpec
CONSTANTS
  Wrap = 256
  Root = 2
  Nowhere = 1
  Generations = 4
  HashOf <- MCHashOf
  Cwd <- MCCwd
  Worlds <- MCWorlds
  Names <- MCNames
  MaxNesting = 3
INVARIANTS NamesInv ResolvesRight
PROPERTIES LookupEnds
CHECK_DEADLOCK FALSE
