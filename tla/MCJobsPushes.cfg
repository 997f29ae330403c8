SPECIFICATION JobsSpec
CONSTANTS
  KOrders = {o1}
  ApiCalls = {c1}
  MaxApiCalls = 0
  MaxRestarts = 0
  PushRows = {x, y, z}
  Pushers = {c1}
  MaxPushCalls = 3
  MaxPassesCut = 0
  Deliveries = {}
  MaxWatchCuts = 0
INVARIANTS
  LivePushIsReused
CHECK_DEADLOCK FALSE
