SPECIFICATION TablesSpec
CONSTANT Which = {"symbols"}
CONSTANTS
  Readers = {reader}
  Selectors <- FourSelectors
  Hash <- SelectorHash
  Capacity = 0
  MaxArrays = 2
  MaxInserts = 4
  MaxLookups = 1
INVARIANT SymbolsCanonical
CHECK_DEADLOCK FALSE
