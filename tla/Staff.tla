------------------------------- MODULE Staff -------------------------------
(***************************************************************************)
(* The people of a business (user/user.service.ts, riders/rider.service.ts,  *)
(* and activate of auth/auth.service.ts).  Staff sign in with a PIN alone,   *)
(* so two with the same PIN are one to the till.  A rider is two rows, the   *)
(* user and the profile, written one after the other without a transaction.  *)
(* Every edit of a user reads the row and saves all of it, and a save of a   *)
(* row that is gone inserts it again.                                        *)
(*                                                                           *)
(* Sessions and their versions are in module Sessions, roles in Roles.  The  *)
(* owner, who cannot be removed and has no PIN, is left out.                 *)
(***************************************************************************)
EXTENDS Naturals, FiniteSets

CONSTANTS
  StaffIds, Pins,
  StaffCalls,       \* requests in flight at the same time
  MaxStaffCalls,    \* bound: requests begun in a behaviour
  NoPin, NoStaff

ASSUME StaffAssumption == NoPin \notin Pins /\ NoStaff \notin StaffIds /\ MaxStaffCalls \in Nat

VARIABLES
  staff,        \* rows of users
  profiles,     \* ids with a row of riders
  staffCalls,   \* the requests in flight, with the row each will save
  staffBegun,
  untested,     \* history: whose PIN nobody compared with the others' (see PinIsPersonal)
  halved        \* history: riders whose two rows came apart (see RiderHasProfile)

staffVars == <<staff, profiles, staffCalls, staffBegun, untested, halved>>

StaffRole == {"server", "rider"}
StaffRow == [status: {"none", "active", "inactive", "removed"}, role: StaffRole, pin: Pins \cup {NoPin}]
NoStaffRow == [status |-> "none", role |-> "server", pin |-> NoPin]
IdleStaffCall == [at |-> "idle", id |-> NoStaff, row |-> NoStaffRow, stale |-> FALSE, tested |-> TRUE]

StaffInit ==
  /\ staff = [s \in StaffIds |-> NoStaffRow]
  /\ profiles = {}
  /\ staffCalls = [c \in StaffCalls |-> IdleStaffCall]
  /\ staffBegun = 0
  /\ untested = {}
  /\ halved = {}

Active(s) == staff[s].status = "active"
Employed(s) == staff[s].status \in {"active", "inactive"}
CallOf(c) == staffCalls[c]
Comes(c, at) == staffCalls[c].at = at /\ UNCHANGED staffBegun

Asks(c, at, s, row, tested) ==
  /\ staffCalls[c].at = "idle"
  /\ staffBegun < MaxStaffCalls
  /\ staffBegun' = staffBegun + 1
  /\ staffCalls' = [staffCalls EXCEPT ![c] = [at |-> at, id |-> s, row |-> row, stale |-> FALSE, tested |-> tested]]
  /\ UNCHANGED <<staff, profiles, untested, halved>>

(* The call goes on; the others' rows are old news. *)
Leaves(c, at) ==
  staffCalls' = [d \in StaffCalls |->
    IF d = c THEN IF at = "idle" THEN IdleStaffCall ELSE [staffCalls[d] EXCEPT !.at = at]
    ELSE [staffCalls[d] EXCEPT !.stale = staffCalls[d].at # "idle"]]

---------------------------------------------------------------------------
(* createWaiter draws PINs until one differs from those of all active staff, at most ten times. *)
(* Mutant: only servers are asked. *)
TakenPinsOfServers == { staff[s].pin : s \in { s \in StaffIds : Active(s) /\ staff[s].role = "server" } }
TakenPins == { staff[s].pin : s \in { s \in StaffIds : Active(s) } }

CreateWaiter(c) ==
  \E s \in StaffIds, p \in Pins, r \in StaffRole :
    /\ staff[s].status = "none"
    /\ \A d \in StaffCalls : CallOf(d).at # "idle" => CallOf(d).id # s
    /\ Asks(c, "insert", s, [status |-> "active", role |-> r, pin |-> p], p \notin TakenPins)

(* A rider with an e-mail address and a password has no PIN. *)
CreateRider(c) ==
  \E s \in StaffIds :
    /\ staff[s].status = "none"
    /\ \A d \in StaffCalls : CallOf(d).at # "idle" => CallOf(d).id # s
    /\ Asks(c, "insert", s, [status |-> "active", role |-> "rider", pin |-> NoPin], TRUE)

InsertUser(c) ==
  LET me == CallOf(c)
  IN /\ Comes(c, "insert")
     /\ staff' = [staff EXCEPT ![me.id] = me.row]
     /\ untested' = IF me.stale \/ ~me.tested THEN untested \cup {me.id} ELSE untested
     /\ Leaves(c, IF me.row.role = "rider" THEN "profile" ELSE "idle")
     /\ UNCHANGED <<profiles, halved>>

InsertProfile(c) ==
  /\ Comes(c, "profile")
  /\ profiles' = profiles \cup {CallOf(c).id}
  /\ Leaves(c, "idle")
  /\ UNCHANGED <<staff, untested, halved>>

---------------------------------------------------------------------------
(* Edits: update and updateProfile, deactivateUser, activate, and resetWaiterPin, which compares its PIN *)
(* with nobody's and is refused to riders.                                                               *)
EditUser(c) ==
  \E s \in StaffIds :
    /\ Employed(s)
    /\ \E status \in {"active", "inactive"} : Asks(c, "save", s, [staff[s] EXCEPT !.status = status], TRUE)

ResetWaiterPin(c) ==
  \E s \in StaffIds, p \in Pins :
    /\ Employed(s) /\ staff[s].role = "server"
    /\ Asks(c, "save", s, [staff[s] EXCEPT !.pin = p], FALSE)

(* The row that comes back active has a PIN others may have got meanwhile, and perhaps no profile. *)
SaveUser(c) ==
  LET me == CallOf(c)
      revived == me.row.status = "active" /\ ~Active(me.id)
  IN /\ Comes(c, "save")
     /\ staff' = [staff EXCEPT ![me.id] = me.row]
     /\ untested' = IF me.stale \/ revived \/ ~me.tested THEN untested \cup {me.id} ELSE untested
     /\ halved' = IF revived /\ me.row.role = "rider" /\ me.id \notin profiles THEN halved \cup {me.id} ELSE halved
     /\ Leaves(c, "idle")
     /\ UNCHANGED profiles

(* removeUser deletes the row it read. *)
RemoveUser(c) ==
  /\ \E s \in StaffIds :
       /\ Employed(s)
       /\ staff' = [staff EXCEPT ![s].status = "removed"]
  /\ staffBegun < MaxStaffCalls /\ staffBegun' = staffBegun + 1
  /\ Leaves(c, staffCalls[c].at)
  /\ UNCHANGED <<profiles, untested, halved>>

---------------------------------------------------------------------------
(* Riders: update and toggleOnline save the profile they read, and update then sets the user's status *)
(* in the database; remove deactivates the user and deletes the profile.                              *)
EditRider(c) ==
  \E s \in profiles, status \in {"none", "active", "inactive"} :
    Asks(c, "saveProfile", s, [staff[s] EXCEPT !.status = status], TRUE)

SaveProfile(c) ==
  /\ Comes(c, "saveProfile")
  /\ profiles' = profiles \cup {CallOf(c).id}
  /\ Leaves(c, IF CallOf(c).row.status = "none" THEN "idle" ELSE "setStatus")
  /\ UNCHANGED <<staff, untested, halved>>

SetRiderStatus(c) ==
  LET me == CallOf(c)
      s == me.id
  IN /\ Comes(c, "setStatus")
     /\ staff' = IF Employed(s) THEN [staff EXCEPT ![s].status = me.row.status] ELSE staff
     /\ untested' = untested \cup {s}
     /\ halved' = IF s \notin profiles THEN halved \cup {s} ELSE halved
     /\ Leaves(c, "idle")
     /\ UNCHANGED profiles

RemoveRider(c) ==
  \E s \in profiles : Asks(c, "retire", s, NoStaffRow, TRUE)

(* Mutant: the user stays active. *)
RetiredStays(s) == staff
Retired(s) == IF Employed(s) THEN [staff EXCEPT ![s].status = "inactive"] ELSE staff

DeactivateRider(c) ==
  /\ Comes(c, "retire")
  /\ staff' = Retired(CallOf(c).id)
  /\ Leaves(c, "deleteProfile")
  /\ UNCHANGED <<profiles, untested, halved>>

DeleteProfile(c) ==
  LET s == CallOf(c).id
  IN /\ Comes(c, "deleteProfile")
     /\ profiles' = profiles \ {s}
     /\ halved' = IF CallOf(c).stale THEN halved \cup {s} ELSE halved
     /\ Leaves(c, "idle")
     /\ UNCHANGED <<staff, untested>>

(* A request fails, or the server stops: a rider may be left with one row. *)
CutStaffCall(c) ==
  /\ staffCalls[c].at # "idle" /\ UNCHANGED staffBegun
  /\ halved' = IF staffCalls[c].at = "profile" THEN halved \cup {CallOf(c).id} ELSE halved
  /\ staffCalls' = [staffCalls EXCEPT ![c] = IdleStaffCall]
  /\ UNCHANGED <<staff, profiles, untested>>

StaffNext ==
  \E c \in StaffCalls :
    \/ CreateWaiter(c) \/ CreateRider(c) \/ InsertUser(c) \/ InsertProfile(c)
    \/ EditUser(c) \/ ResetWaiterPin(c) \/ SaveUser(c) \/ RemoveUser(c)
    \/ EditRider(c) \/ SaveProfile(c) \/ SetRiderStatus(c)
    \/ RemoveRider(c) \/ DeactivateRider(c) \/ DeleteProfile(c) \/ CutStaffCall(c)

StaffSpec == StaffInit /\ [][StaffNext]_staffVars

---------------------------------------------------------------------------
(* Rows, requests and histories have their types. *)
StaffTypeOK ==
  /\ staff \in [StaffIds -> StaffRow]
  /\ profiles \subseteq StaffIds
  /\ staffCalls \in [StaffCalls ->
       [at: {"idle", "insert", "profile", "save", "saveProfile", "setStatus", "retire", "deleteProfile"},
        id: StaffIds \cup {NoStaff}, row: StaffRow, stale: BOOLEAN, tested: BOOLEAN]]
  /\ staffBegun \in 0 .. MaxStaffCalls
  /\ untested \subseteq StaffIds /\ halved \subseteq StaffIds

(* waiterLogin takes the newest of the staff whose PIN fits: two active people do not share one, unless  *)
(* one of them got it from resetWaiterPin, which asks nobody, was made active again, was saved from a row *)
(* read before, or was created while the staff changed or after ten PINs that were taken.                 *)
PinIsPersonal ==
  \A s, t \in StaffIds :
    s # t /\ Active(s) /\ Active(t) /\ staff[s].pin = staff[t].pin /\ staff[s].pin # NoPin
      => s \in untested \/ t \in untested

(* An active rider has the profile that dispatch looks for, unless the creation is under way or was cut  *)
(* between its rows, the account was made active after its profile was deleted, or while it was.         *)
RiderHasProfile ==
  \A s \in StaffIds :
    Active(s) /\ staff[s].role = "rider" /\ s \notin profiles
      => s \in halved \/ \E c \in StaffCalls : CallOf(c).at = "profile" /\ CallOf(c).id = s

(* Both: who the till and the dispatch think a person is. *)
StaffRecordsAgree == PinIsPersonal /\ RiderHasProfile

=============================================================================
