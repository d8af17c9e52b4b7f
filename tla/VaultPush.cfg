SPECIFICATION PushSpec
CONSTANTS
  Calls = {1, 2, 3}
  Ops = {1, 2}
  Items = {1, 2}
  Versions = {1}
  Paths = {"push"}
  NoOp = NoOp
  NoItem = NoItem
INVARIANTS TxIsolated HistoryExplainsItems OpMutatesOneItem
PROPERTIES Refines Terminates
CHECK_DEADLOCK FALSE
