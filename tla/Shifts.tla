------------------------------- MODULE Shifts -------------------------------
(***************************************************************************)
(* Shifts of a branch and the cash they expect (shift/shift.service.ts).    *)
(* openShift looks for an open shift and inserts one; closeShift stamps the *)
(* time, adds up the cash bills stamped since the opening, signs the staff  *)
(* out and saves.  A cash payment is stamped inside its transaction and is  *)
(* seen by others when that commits.  Amounts are sets of payments.         *)
(***************************************************************************)
EXTENDS Naturals, FiniteSets

CONSTANTS
  ShiftIds, NoShift,
  CashPayments,     \* bills paid in cash on tabs of the branch
  ShiftCalls,       \* handlers that may overlap
  LastHour          \* bound: the clock stops here

ASSUME ShiftAssumption == NoShift \notin ShiftIds /\ LastHour \in Nat

VARIABLES
  shifts,        \* rows of shifts
  cash,          \* the payments: not there, stamped, or committed, and their paid_at
  hour,          \* the clock
  shiftCalls,    \* the handlers in flight
  tokenVersion,  \* branches.staff_token_version: each close raises it
  crossed,       \* history: an opening whose look-up another opening or save overtook
  lateCash       \* history: payments committed after a close had looked at their hour

shiftVars == <<shifts, cash, hour, shiftCalls, tokenVersion, crossed, lateCash>>

Hours == 0 .. LastHour
NoShiftRow == [status |-> "none", opened |-> 0, closed |-> 0, expected |-> {}]
IdleShiftCall == [pc |-> "idle", shift |-> NoShift, row |-> NoShiftRow, stale |-> FALSE]

ShiftInit ==
  /\ shifts = [s \in ShiftIds |-> NoShiftRow]
  /\ cash = [p \in CashPayments |-> [status |-> "none", at |-> 0]]
  /\ hour = 0
  /\ shiftCalls = [c \in ShiftCalls |-> IdleShiftCall]
  /\ tokenVersion = 0
  /\ crossed = FALSE
  /\ lateCash = {}

OpenShifts == { s \in ShiftIds : shifts[s].status = "open" }

(* The bills the close finds: committed, and stamped from the opening to now.  Mutant: not the *)
(* instant of the opening. *)
CashBetweenExclusive(from, to) ==
  { p \in CashPayments : cash[p].status = "committed" /\ cash[p].at > from /\ cash[p].at <= to }

CashBetween(from, to) ==
  { p \in CashPayments : cash[p].status = "committed" /\ cash[p].at >= from /\ cash[p].at <= to }

(* The cash of a shift's report: up to its closing, or up to now. *)
ReportedCash(s) ==
  LET to == IF shifts[s].status = "closed" THEN shifts[s].closed ELSE hour
  IN { p \in CashPayments : cash[p].status = "committed" /\ cash[p].at \in shifts[s].opened .. to }

SetCall(c, call) == shiftCalls' = [shiftCalls EXCEPT ![c] = call]

(* A row is written: what other handlers have read is old now. *)
WriteShift(c) ==
  /\ shifts' = [shifts EXCEPT ![shiftCalls[c].shift] = shiftCalls[c].row]
  /\ shiftCalls' = [d \in ShiftCalls |->
       IF d = c THEN IdleShiftCall ELSE [shiftCalls[d] EXCEPT !.stale = shiftCalls[d] # IdleShiftCall]]

---------------------------------------------------------------------------
(* Mutant: nobody looks for an open shift. *)
MayOpenAnyway == TRUE
MayOpen == OpenShifts = {}

BeginOpenShift(c) ==
  \E s \in ShiftIds :
    /\ MayOpen
    /\ shiftCalls[c] = IdleShiftCall
    /\ shifts[s].status = "none"
    /\ \A d \in ShiftCalls : shiftCalls[d].shift # s
    /\ SetCall(c, [pc |-> "insert", shift |-> s, stale |-> FALSE,
                   row |-> [status |-> "open", opened |-> hour, closed |-> 0, expected |-> {}]])
    /\ UNCHANGED <<shifts, cash, hour, tokenVersion, crossed, lateCash>>

InsertShift(c) ==
  /\ shiftCalls[c].pc = "insert"
  /\ WriteShift(c)
  /\ crossed' = (crossed \/ shiftCalls[c].stale)
  /\ UNCHANGED <<cash, hour, tokenVersion, lateCash>>

BeginCloseShift(c) ==
  \E s \in OpenShifts :
    /\ shiftCalls[c] = IdleShiftCall
    /\ SetCall(c, [pc |-> "count", shift |-> s, stale |-> FALSE,
                   row |-> [shifts[s] EXCEPT !.status = "closed", !.closed = hour]])
    /\ UNCHANGED <<shifts, cash, hour, tokenVersion, crossed, lateCash>>

CountCash(c) ==
  LET row == shiftCalls[c].row
  IN /\ shiftCalls[c].pc = "count"
     /\ SetCall(c, [shiftCalls[c] EXCEPT !.pc = "signOut",
                                         !.row.expected = CashBetween(row.opened, row.closed)])
     /\ lateCash' = lateCash \cup { p \in CashPayments : cash[p].status = "stamped" /\ cash[p].at <= row.closed }
     /\ UNCHANGED <<shifts, cash, hour, tokenVersion, crossed>>

SignStaffOut(c) ==
  /\ shiftCalls[c].pc = "signOut"
  /\ SetCall(c, [shiftCalls[c] EXCEPT !.pc = "save"])
  /\ tokenVersion' = tokenVersion + 1
  /\ tokenVersion < Cardinality(ShiftIds)   \* bound
  /\ UNCHANGED <<shifts, cash, hour, crossed, lateCash>>

SaveClosed(c) ==
  /\ shiftCalls[c].pc = "save"
  /\ WriteShift(c)
  /\ UNCHANGED <<cash, hour, tokenVersion, crossed, lateCash>>

AbortShift(c) ==
  /\ shiftCalls[c] # IdleShiftCall
  /\ SetCall(c, IdleShiftCall)
  /\ UNCHANGED <<shifts, cash, hour, tokenVersion, crossed, lateCash>>

(* bill.service.ts: a cash payment, settled or rolled back; no shift has to be open. *)
StampCash ==
  \E p \in CashPayments :
    /\ cash[p].status = "none"
    /\ cash' = [cash EXCEPT ![p] = [status |-> "stamped", at |-> hour]]
    /\ UNCHANGED <<shifts, hour, shiftCalls, tokenVersion, crossed, lateCash>>

CommitCash ==
  \E p \in CashPayments, s \in {"committed", "none"} :
    /\ cash[p].status = "stamped"
    /\ cash' = [cash EXCEPT ![p] = [status |-> s, at |-> IF s = "none" THEN 0 ELSE @.at]]
    /\ lateCash' = IF s = "none" THEN lateCash \ {p} ELSE lateCash
    /\ UNCHANGED <<shifts, hour, shiftCalls, tokenVersion, crossed>>

HourPasses ==
  /\ hour < LastHour
  /\ hour' = hour + 1
  /\ UNCHANGED <<shifts, cash, shiftCalls, tokenVersion, crossed, lateCash>>

ShiftNext ==
  \/ \E c \in ShiftCalls :
       \/ BeginOpenShift(c) \/ InsertShift(c)
       \/ BeginCloseShift(c) \/ CountCash(c) \/ SignStaffOut(c) \/ SaveClosed(c)
       \/ AbortShift(c)
  \/ StampCash \/ CommitCash \/ HourPasses

ShiftSpec == ShiftInit /\ [][ShiftNext]_shiftVars

---------------------------------------------------------------------------
ShiftRow == [status: {"none", "open", "closed"}, opened: Hours, closed: Hours,
             expected: SUBSET CashPayments]

(* Shifts, payments, calls and histories have their types. *)
ShiftTypeOK ==
  /\ shifts \in [ShiftIds -> ShiftRow]
  /\ cash \in [CashPayments -> [status: {"none", "stamped", "committed"}, at: Hours]]
  /\ hour \in Hours
  /\ shiftCalls \in [ShiftCalls -> [pc: {"idle", "insert", "count", "signOut", "save"},
                                    shift: ShiftIds \cup {NoShift}, row: ShiftRow, stale: BOOLEAN]]
  /\ tokenVersion \in Nat
  /\ crossed \in BOOLEAN
  /\ lateCash \subseteq CashPayments

(* A branch has one open shift at most, unless two openings crossed: openShift's look-up is the only *)
(* thing that keeps the second one out. *)
OneOpenShift == Cardinality(OpenShifts) > 1 => crossed

(* The cash a closed shift expects is in its report, whichever of two overlapping closes was saved; what *)
(* the report finds besides was stamped in the last instant, or still to be committed when a close added up. *)
CashInDrawer ==
  \A s \in ShiftIds :
    shifts[s].status = "closed" =>
      /\ shifts[s].expected \subseteq ReportedCash(s)
      /\ \A p \in ReportedCash(s) \ shifts[s].expected : p \in lateCash \/ cash[p].at = shifts[s].closed

(* No payment is expected in two drawers, unless two shifts were open at once or it was stamped in the *)
(* instant in which the one closed and the other opened. *)
CashInOneDrawer ==
  \A s, r \in ShiftIds :
    s # r /\ ~crossed =>
      \A p \in shifts[s].expected \cap shifts[r].expected : cash[p].at \in {shifts[s].opened, shifts[r].opened}

(* The cash a branch counts belongs to one shift, and the shift counts what it took. *)
ShiftsAddUp == OneOpenShift /\ CashInDrawer /\ CashInOneDrawer

=============================================================================
