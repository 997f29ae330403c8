SPECIFICATION JobsSpec
CONSTANTS
  KOrders = {o1}
  ApiCalls = {c1, c2}
  MaxApiCalls = 2
  MaxRestarts = 1
  PushRows = {x, y}
  Pushers = {c1, c2}
  MaxPushCalls = 2
  MaxPassesCut = 1
  Deliveries = {d1, d2}
  MaxWatchCuts = 1
INVARIANTS
  HeldUntilPaid
PROPERTIES
  EndedOrdersStayEnded
  KitchenDelivers
  PushSettles
  GivenUpIsAlerted
CHECK_DEADLOCK FALSE
