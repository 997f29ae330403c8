SPECIFICATION BackOfficeSpec
CONSTANTS
  NULL = NULL
  Tab = {t1, t2}
  Order = {o1, o2}
  Call = {x, y, c3}
  InitialStock = 2
  MaxQuantity = 2
  RefreshTokens = {1, 2}
  SessionCalls = {x, y}
  MaxSessionCalls = 4
  NoToken = NoToken
  StaffIds = {t1, t2}
  Pins = {p1}
  StaffCalls = {x, y}
  MaxStaffCalls = 4
  NoPin = NoPin
  NoStaff = NoStaff
  Codes = {"order", "void", "deliver"}
  OldCodes = {"order", "void"}
  RoleNames = {"Owner", "Rider"}
  CodesOf <- MCCodesOf
  OnDemand = {"Owner", "Rider"}
  Servers = {x, y}
  MaxRoleCalls = 4
  Houses = {h1}
  Platform = Platform
  Offices = {t1, t2}
  Emails = {o1, o2}
  AccountTokens = {k1}
  AccountCalls = {x, y}
  MaxAccountCalls = 5
  NoHouse = NoHouse
  NoOffice = NoOffice
  NoEmail = NoEmail
  NoAccountToken = NoAccountToken
  Sockets = {t1, t2}
  SocketServers = {o1, o2}
  Branches = {x, y}
  StaffRoles = {"manager", "rider"}
  Guests = {guest}
  tab = tab
  group = group
  Tabs = {tab}
  Groups = {group}
  CodeOf <- MCCodeOf
  Statuses = {"pending"}
  MaxRoomCalls = 3
  NoBranch = NoBranch
  NoServer = NoServer
INVARIANTS
  StockIsHeld
  SignedOutIsOut
  StaffRecordsAgree
  DefaultRolesExist
  AccountsStand
  RoomsAreRight
PROPERTIES
  OnlyBackOfficeDrifts
SYMMETRY Symmetry
CHECK_DEADLOCK FALSE
