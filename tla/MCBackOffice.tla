---------------------------- MODULE MCBackOffice ----------------------------
(* The stock and the back office, for TLC: a behaviour of the run is a       *)
(* behaviour of one of its components, the `desk`.                           *)
EXTENDS StockLedger, Sessions, Staff, Roles, Accounts, Rooms, TLC

CONSTANTS tab, group

VARIABLE desk

MCCodesOf == [n \in RoleNames |-> IF n = "Owner" THEN Codes ELSE Codes \ {"void"}]
MCCodeOf == tab :> "code"

officeVars == <<sessionVars, staffVars, roleVars, accountVars, roomVars>>

(* Of the ways a component may begin, one is enough while it rests. *)
BackOfficeInit ==
  /\ desk \in {"stock", "sessions", "staff", "roles", "accounts", "rooms"}
  /\ Init /\ SessionInit /\ StaffInit /\ RoleInit /\ AccountInit /\ RoomInit
  /\ desk # "accounts" => \A h \in House : ~houses[h].exists
  /\ desk # "rooms" => adapter /\ \A s \in Sockets : tokens[s] = [branch |-> NoBranch, role |-> "rider"]

OfficeNext ==
  \/ desk = "sessions" /\ SessionNext /\ UNCHANGED <<staffVars, roleVars, accountVars, roomVars>>
  \/ desk = "staff" /\ StaffNext /\ UNCHANGED <<sessionVars, roleVars, accountVars, roomVars>>
  \/ desk = "roles" /\ RoleNext /\ UNCHANGED <<sessionVars, staffVars, accountVars, roomVars>>
  \/ desk = "accounts" /\ AccountNext /\ UNCHANGED <<sessionVars, staffVars, roleVars, roomVars>>
  \/ desk = "rooms" /\ RoomNext /\ UNCHANGED <<sessionVars, staffVars, roleVars, accountVars>>

BackOfficeNext ==
  /\ UNCHANGED desk
  /\ \/ desk = "stock" /\ Next /\ UNCHANGED officeVars
     \/ OfficeNext /\ UNCHANGED vars

BackOfficeSpec == BackOfficeInit /\ [][BackOfficeNext]_<<desk, vars, officeVars>>

(* All rows, calls and histories have their types. *)
BackOfficeTypesOK ==
  StockTypeOK /\ SessionTypeOK /\ StaffTypeOK /\ RoleTypeOK /\ AccountTypeOK /\ RoomTypeOK

(* The configuration names tabs, staff and other pairs alike. *)
Symmetry == Permutations(Tab) \cup Permutations(Order) \cup Permutations(AccountCalls)

=============================================================================
