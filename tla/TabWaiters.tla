----------------------------- MODULE TabWaiters -----------------------------
(***************************************************************************)
(* Who serves a tab.  The waiter of a tab is set when staff open it and     *)
(* when a shift is handed over (handoffShift of shift/shift.service.ts);    *)
(* rounds, bills, payments, closings and voids ask who it is before they    *)
(* begin, each in its own words, and guests order on a tab without one.     *)
(* Handlers look first and write later.  What else they do to the tab and   *)
(* its table is in Floor.                                                   *)
(***************************************************************************)
EXTENDS Naturals

CONSTANTS
  ServedTabs,
  Crew, NoWaiter,    \* staff with the role waiter; a tab may have none
  ServeCalls,        \* handlers that may overlap
  MaxServeCalls      \* bound: handlers begun in a behaviour

ASSUME ServeAssumption == NoWaiter \notin Crew /\ MaxServeCalls \in Nat

VARIABLES
  served,        \* rows of tabs: status, waiter_id, shift_id, and who opened it
  serveCalls,    \* the handlers in flight
  serveBegun,    \* handlers begun so far
  overtaken,     \* history: tabs written by a handler that another write to them had overtaken
  credited,      \* history: the waiter a tab had when it ended
  intruded       \* history: open tabs that a waiter worked on who was not theirs

serveVars == <<served, serveCalls, serveBegun, overtaken, credited, intruded>>

Supervision == "manager"     \* owner, manager or cashier: they may serve every tab
Staff == Crew \cup {Supervision}

(* shift_id: none, the open shift's, or an earlier one's. *)
ServedRow == [status: {"none", "open", "billed", "ended"}, waiter: Crew \cup {NoWaiter, Supervision},
              shift: {"none", "open", "earlier"}, origin: {"staff", "guest", "booking"}]
NoServedRow == [status |-> "none", waiter |-> NoWaiter, shift |-> "none", origin |-> "staff"]

IdleServing == [does |-> "nothing", by |-> NoWaiter, tabs |-> {}, row |-> NoServedRow]

ServeInit ==
  /\ served = [t \in ServedTabs |-> NoServedRow]
  /\ serveCalls = [c \in ServeCalls |-> IdleServing]
  /\ serveBegun = 0
  /\ overtaken = {}
  /\ credited = [t \in ServedTabs |-> NoWaiter]
  /\ intruded = {}

Underway(c) == serveCalls[c] # IdleServing

BeginServing(c, call) ==
  /\ ~Underway(c)
  /\ serveBegun < MaxServeCalls
  /\ serveBegun' = serveBegun + 1
  /\ serveCalls' = [serveCalls EXCEPT ![c] = call]
  /\ UNCHANGED <<served, overtaken, credited, intruded>>

(* The last statement of c: the rows, and what the histories make of them.  A row is overtaken when it *)
(* is not what it was when c looked, which c keeps no copy of except to save it. *)
Write(c, rows, old) ==
  /\ served' = rows
  /\ serveCalls' = [serveCalls EXCEPT ![c] = IdleServing]
  /\ overtaken' = overtaken \cup old
  /\ credited' = [t \in ServedTabs |->
       IF rows[t].status = "ended" /\ served[t].status # "ended" THEN rows[t].waiter ELSE credited[t]]
  /\ UNCHANGED serveBegun

---------------------------------------------------------------------------
(* Opening. *)

Unopened(t) == served[t].status = "none" /\ \A c \in ServeCalls : t \notin serveCalls[c].tabs

BeginStaffTab(c) ==
  \E t \in ServedTabs, w \in Staff :
    /\ Unopened(t)
    /\ BeginServing(c, [does |-> "open", by |-> w, tabs |-> {t},
                        row |-> [status |-> "open", waiter |-> w, shift |-> "open", origin |-> "staff"]])

InsertStaffTab(c) ==
  /\ serveCalls[c].does = "open"
  /\ Write(c, [t \in ServedTabs |-> IF t \in serveCalls[c].tabs THEN serveCalls[c].row ELSE served[t]], {})
  /\ UNCHANGED intruded

(* A guest's tab has neither waiter nor shift, a booking's the shift. *)
OpenUnserved ==
  \E t \in ServedTabs, origin \in {"guest", "booking"} :
    /\ Unopened(t)
    /\ served' = [served EXCEPT ![t] = [status |-> "open", waiter |-> NoWaiter, origin |-> origin,
                                        shift |-> IF origin = "guest" THEN "none" ELSE "open"]]
    /\ UNCHANGED <<serveCalls, serveBegun, overtaken, credited, intruded>>

---------------------------------------------------------------------------
(* Serving. *)

(* The guards: a round, a closing and a void ask only while the tab is open, a bill and a payment always. *)
Belongs(row, by) == row.waiter \in {NoWaiter, by} \/ by = Supervision

(* Mutant: the round asks nothing. *)
MayServeAnyway(does, row, by) ==
  \/ does = "round" /\ row.status \in {"open", "billed"}
  \/ does = "bill" /\ row.status \in {"open", "billed"} /\ Belongs(row, by)
  \/ does = "end" /\ row.status = "open" /\ Belongs(row, by)
  \/ does = "end" /\ row.status = "billed"

MayServe(does, row, by) ==
  \/ does = "round" /\ row.status \in {"open", "billed"} /\ (row.status = "open" => Belongs(row, by))
  \/ does = "bill" /\ row.status \in {"open", "billed"} /\ Belongs(row, by)
  \/ does = "end" /\ row.status = "open" /\ Belongs(row, by)      \* voidTab, processPayment
  \/ does = "end" /\ row.status = "billed"                        \* closeTab

(* The status the handler leaves: a round reopens the tab it found billed and else does not touch it. *)
After(does, row, status) ==
  CASE does = "round" /\ row.status = "open" -> status
    [] does = "round" /\ row.status = "billed" -> "open"
    [] does = "bill" -> "billed"
    [] does = "end" -> "ended"

BeginServe(c) ==
  \E t \in ServedTabs, by \in Staff, does \in {"round", "bill", "end"} :
    /\ MayServe(does, served[t], by)
    /\ BeginServing(c, [does |-> does, by |-> by, tabs |-> {t}, row |-> served[t]])

(* The handlers update the status alone, whatever happened to the tab meanwhile. *)
Serve(c) ==
  LET me == serveCalls[c]
      t == CHOOSE u \in me.tabs : TRUE
      old == { u \in me.tabs : served[u] # me.row }
  IN /\ me.does \in {"round", "bill", "end"}
     /\ Write(c, [served EXCEPT ![t].status = After(me.does, me.row, @)], old)
     /\ intruded' = IF Belongs(served[t], me.by) \/ me.row.status # "open" THEN intruded ELSE intruded \cup {t}

(* addItems and confirmReceived of customer.service.ts turn a guest away from a tab with a waiter. *)
GuestMayOrder(t) == served[t].status = "open" /\ served[t].waiter = NoWaiter

(* update saves the row it read, waiter and status included. *)
BeginEditTab(c) ==
  \E t \in ServedTabs :
    /\ served[t].status # "none"
    /\ BeginServing(c, [does |-> "update", by |-> Supervision, tabs |-> {t}, row |-> served[t]])

SaveEditedTab(c) ==
  /\ serveCalls[c].does = "update"
  /\ Write(c, [t \in ServedTabs |-> IF t \in serveCalls[c].tabs THEN serveCalls[c].row ELSE served[t]],
           { t \in serveCalls[c].tabs : served[t] # serveCalls[c].row })
  /\ UNCHANGED intruded

---------------------------------------------------------------------------
(* Handing over. *)

(* The tabs a hand-over moves: open, of the open shift, and of one waiter when it names one (NoWaiter: *)
(* it names nobody).  Mutant: of whatever shift. *)
ToHandOverOfAll(from) == { t \in ServedTabs : served[t].status = "open" /\ from \in {NoWaiter, served[t].waiter} }

ToHandOver(from) ==
  { t \in ServedTabs : /\ served[t].status = "open" /\ served[t].shift = "open"
                       /\ from \in {NoWaiter, served[t].waiter} }

BeginHandoff(c) ==
  \E to \in Crew, from \in Crew \cup {NoWaiter} :
    /\ ToHandOver(from) # {}
    /\ BeginServing(c, [does |-> "handoff", by |-> to, tabs |-> ToHandOver(from), row |-> NoServedRow])

HandOff(c) ==
  LET me == serveCalls[c]
  IN /\ me.does = "handoff"
     /\ Write(c, [t \in ServedTabs |-> IF t \in me.tabs THEN [served[t] EXCEPT !.waiter = me.by] ELSE served[t]],
              { t \in me.tabs : served[t].status # "open" })
     /\ UNCHANGED intruded

(* Shifts: one is closed and the next one opened; a tab about to be inserted keeps the shift it was given. *)
NextShift ==
  LET aged(row) == IF row.shift = "open" THEN [row EXCEPT !.shift = "earlier"] ELSE row
  IN /\ served' = [t \in ServedTabs |-> aged(served[t])]
     /\ serveCalls' = [c \in ServeCalls |-> [serveCalls[c] EXCEPT !.row = aged(@)]]
     /\ UNCHANGED <<serveBegun, overtaken, credited, intruded>>

DropServing(c) ==
  /\ Underway(c)
  /\ serveCalls' = [serveCalls EXCEPT ![c] = IdleServing]
  /\ UNCHANGED <<served, serveBegun, overtaken, credited, intruded>>

ServeNext ==
  \/ \E c \in ServeCalls :
       \/ BeginStaffTab(c) \/ InsertStaffTab(c)
       \/ BeginServe(c) \/ Serve(c)
       \/ BeginEditTab(c) \/ SaveEditedTab(c)
       \/ BeginHandoff(c) \/ HandOff(c)
       \/ DropServing(c)
  \/ OpenUnserved \/ NextShift

ServeSpec == ServeInit /\ [][ServeNext]_serveVars

---------------------------------------------------------------------------
(* Tabs, calls and histories have their types. *)
ServeTypeOK ==
  /\ served \in [ServedTabs -> ServedRow]
  /\ serveCalls \in [ServeCalls -> [does: {"nothing", "open", "round", "bill", "end", "update", "handoff"},
                                    by: Staff \cup {NoWaiter}, tabs: SUBSET ServedTabs, row: ServedRow]]
  /\ serveBegun \in 0 .. MaxServeCalls
  /\ overtaken \cup intruded \subseteq ServedTabs
  /\ credited \in [ServedTabs -> Crew \cup {NoWaiter, Supervision}]

(* Guests may order on the tab they opened for as long as it is open: no hand-over gives it a waiter. *)
GuestsAreNotLockedOut ==
  \A t \in ServedTabs : served[t].origin = "guest" /\ served[t].status = "open" => GuestMayOrder(t)

(* "A different waiter must not add items to a tab another waiter is serving" (and not bill, settle or *)
(* void it): it happens only if the tab was written between the check and the work. *)
OnlyItsWaiter == intruded \subseteq overtaken

(* A tab keeps the waiter it had when it ended, unless a hand-over or an edit had looked at it before. *)
EndedKeepsWaiter ==
  \A t \in ServedTabs : served[t].status = "ended" => served[t].waiter = credited[t] \/ t \in overtaken

(* Who serves a tab is settled by opening it and by handing it over. *)
TabsStayServed == GuestsAreNotLockedOut /\ OnlyItsWaiter /\ EndedKeepsWaiter

=============================================================================
