SPECIFICATION TablesSpec
CONSTANT Which = {"registry", "futures", "addresses", "symbols", "methods"}
CONSTANTS
  Readers = {reader}
  Selectors <- FourSelectors
  Hash <- SelectorHash
  Capacity = 0
  MaxArrays = 2
  MaxInserts = 4
  MaxLookups = 1
INVARIANTS AddressesFound SymbolsCanonicalAlone MethodsCurrent
PROPERTIES RegistryIsMap FutureTableIsMap InternReturns
CONSTRAINT Bound
CHECK_DEADLOCK FALSE
