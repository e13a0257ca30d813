SPECIFICATION Spec
CONSTANTS
  None = none
  Content = {"a"}
  Capacity = 2
  Limit = 3
  TicksPerMs = 2
  Readings = 2
  MaxRecords = 5
  MaxMessages = 1
  MaxEpochs = 1
INVARIANTS TypeOK PageInOrder ClearedStaysAway TransactionsAreExchanges
PROPERTIES ShowsTrace
