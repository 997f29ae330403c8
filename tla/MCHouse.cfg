SPECIFICATION HouseSpec
CONSTANTS
  small = small
  large = large
  Tables = {small, large}
  Capacity <- MCCapacity
  PartySizes = {1}
  Bookings = {x, y}
  BookingCalls = {c1, c2}
  NoBooking = NoBooking
  Closing = 3
  Lengths = {2}
  DefaultLength = 2
  Advance = 1
  ReminderWindow = 1
  LastTick = 1
  MaxBookingCalls = 4
  FloorTables = {t1, t2}
  FloorTabs = {x, y}
  NoTab = NoTab
  FloorCalls = {c1, c2}
  MaxFloorCalls = 4
  ShiftIds = {x, y}
  NoShift = NoShift
  ShiftCalls = {c1, c2}
  CashPayments = {p1}
  LastHour = 2
  CallTables = {ct1}
  Requests = {r1, r2}
  Waiters = {w1, w2}
  Nobody = Nobody
  Handlers = {c1, c2}
  ServedTabs = {x, y}
  Crew = {w1, w2}
  NoWaiter = NoWaiter
  ServeCalls = {c1, c2}
  MaxServeCalls = 3
  MaxHandled = 4
  SyncKeys = {k1, k2, k3}
  BillKeys = {k2}
  OnceKeys = {k2, k3}
  SyncCalls = {c1, c2}
  MaxSyncCalls = 4
  Billers = {c1, c2}
  Trial = 1
  Period = 2
  Grace = 1
  LastDay = 3
  MaxBillings = 3
  Deposits = {d1, d2}
  Anchored = {d1}
  Dated = {d1}
  DepositAmount <- MCDepositAmount
  DoorBills = {x, y}
  DoorCalls = {c1, c2}
  MaxDoorCalls = 3
  Sums = {1, 2}
  NoDeposit = NoDeposit
  NoBill = NoBill
INVARIANTS
  TablesAreKept
  SeatedHasTab
  FloorPlan
  ShiftsAddUp
  TabsStayServed
  QueuedTakesEffectOnce
  PaidIsServed
  AcceptedIsAccounted
PROPERTIES
  EndedStaysEnded
  CallsAreKept
SYMMETRY Symmetry
CHECK_DEADLOCK FALSE
