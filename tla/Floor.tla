------------------------------- MODULE Floor -------------------------------
(***************************************************************************)
(* Tables and the tabs at them (tab/tab.service.ts, table/table.service.ts, *)
(* public/customer.service.ts openTab, and the payment that frees a table). *)
(* That a table is taken is stored twice: in its own status and in the tabs *)
(* that point at it.  Every handler reads the tab or the table, decides,    *)
(* and writes both later from what it read; staff may also set a table's    *)
(* status by hand.  Who may call an endpoint is left out: an owner may call *)
(* all of them.                                                            *)
(***************************************************************************)
EXTENDS Naturals, FiniteSets

CONSTANTS
  FloorTables, FloorTabs, NoTab,
  FloorCalls,       \* handlers that may overlap
  MaxFloorCalls     \* bound: handlers begun in a behaviour

ASSUME FloorAssumption ==
  /\ NoTab \notin FloorTabs /\ FloorTables # {}
  /\ MaxFloorCalls \in Nat

VARIABLES
  tableStatus,   \* tables.status
  floorTabs,     \* rows of tabs: status, table, and whether a bill is there and paid
  floorCalls,    \* the handlers in flight
  floorBegun,    \* handlers begun so far
  muddled        \* history: tables whose status stopped meaning anything (see FloorPlan)

floorVars == <<tableStatus, floorTabs, floorCalls, floorBegun, muddled>>

TableStatus == {"available", "occupied", "reserved", "inactive"}
FloorTabStatus == {"none", "open", "billed", "paid", "voided", "removed"}
AnyTable == CHOOSE t \in FloorTables : TRUE

FloorTabRow == [status: FloorTabStatus, table: FloorTables, bill: {"none", "unpaid", "paid"}]
NoTabRow == [status |-> "none", table |-> AnyTable, bill |-> "none"]

(* A call: its next statement, its tab, the tab row it read, the table it read or was given, and *)
(* whether a statement of somebody else came after its reads. *)
FloorCall == [pc: {"idle", "insert", "guestInsert", "guestOccupy", "close", "transfer", "merge", "void",
                   "save", "remove", "insertBill", "markBilled", "reopen", "settle", "saveTable", "release"},
              tab: FloorTabs \cup {NoTab}, row: FloorTabRow, table: FloorTables,
              seen: TableStatus, stale: BOOLEAN]

IdleFloorCall == [pc |-> "idle", tab |-> NoTab, row |-> NoTabRow, table |-> AnyTable,
                  seen |-> "available", stale |-> FALSE]

FloorInit ==
  /\ tableStatus = [t \in FloorTables |-> "available"]
  /\ floorTabs = [i \in FloorTabs |-> NoTabRow]
  /\ floorCalls = [c \in FloorCalls |-> IdleFloorCall]
  /\ floorBegun = 0
  /\ muddled = {}

---------------------------------------------------------------------------
(* Who sits where. *)

Live(i) == floorTabs[i].status \in {"open", "billed"}
SittingIn(tabs, t) == { i \in FloorTabs : tabs[i].status \in {"open", "billed"} /\ tabs[i].table = t }
SittingAt(t) == SittingIn(floorTabs, t)

(* The tables whose status or party a statement changes. *)
Changed(statuses, tabs) ==
  { t \in FloorTables : statuses[t] # tableStatus[t] \/ SittingIn(tabs, t) # SittingAt(t) }

(* What openTab, release and the guest's openTab look for: a billed tab does not count. *)
OpenTabsAt(t) == { i \in FloorTabs : floorTabs[i].status = "open" /\ floorTabs[i].table = t }

Unused(i) ==
  /\ floorTabs[i].status = "none"
  /\ \A c \in FloorCalls : floorCalls[c].tab # i

---------------------------------------------------------------------------
(* Reads and writes. *)

BeginFloor(c, call) ==
  /\ floorCalls[c] = IdleFloorCall
  /\ floorBegun < MaxFloorCalls
  /\ floorBegun' = floorBegun + 1
  /\ floorCalls' = [floorCalls EXCEPT ![c] = call]
  /\ UNCHANGED <<tableStatus, floorTabs, muddled>>

BeginOnTab(c, i, pc) ==
  /\ floorTabs[i].status \notin {"none", "removed"}
  /\ BeginFloor(c, [IdleFloorCall EXCEPT !.pc = pc, !.tab = i, !.row = floorTabs[i],
                                         !.table = floorTabs[i].table])

(* A statement or transaction of c that leaves `next` as its call: everybody else's reads are old now. *)
(* The tables it changes are muddled when its own reads were old, or `when` holds. *)
WriteFloor(c, next, statuses, tabs, when) ==
  /\ tableStatus' = statuses
  /\ floorTabs' = tabs
  /\ floorCalls' = [d \in FloorCalls |->
       IF d = c THEN next ELSE [floorCalls[d] EXCEPT !.stale = floorCalls[d] # IdleFloorCall]]
  /\ muddled' = IF when \/ floorCalls[c].stale THEN muddled \cup Changed(statuses, tabs) ELSE muddled
  /\ UNCHANGED floorBegun

SetTable(t, status) == [tableStatus EXCEPT ![t] = status]

(* An update of a row that was deleted finds nothing. *)
SetTab(i, status) == [floorTabs EXCEPT ![i].status = IF @ = "removed" THEN @ ELSE status]

(* Moving a tab frees one table and takes another; the mutant keeps both. *)
MovedKeepsBoth(from, to) == [tableStatus EXCEPT ![to] = "occupied"]
Moved(from, to) == [tableStatus EXCEPT ![from] = "available", ![to] = "occupied"]

---------------------------------------------------------------------------
(* Opening. *)

BeginOpenTab(c) ==
  \E i \in FloorTabs, t \in FloorTables :
    /\ Unused(i)
    /\ tableStatus[t] # "inactive"
    /\ OpenTabsAt(t) = {}
    /\ BeginFloor(c, [IdleFloorCall EXCEPT !.pc = "insert", !.tab = i, !.table = t])

(* Mutant: the bill's status is written before there is one. *)
NewTabPending(t) == [status |-> "open", table |-> t, bill |-> "pending"]
NewTab(t) == [status |-> "open", table |-> t, bill |-> "none"]

OpenTab(c) ==
  LET i == floorCalls[c].tab
      t == floorCalls[c].table
  IN /\ floorCalls[c].pc = "insert"
     /\ WriteFloor(c, IdleFloorCall, SetTable(t, "occupied"), [floorTabs EXCEPT ![i] = NewTab(t)],
                   SittingAt(t) # {})

(* A guest's tab and the table it takes are two statements, and the table's status is not asked for. *)
BeginGuestTab(c) ==
  \E i \in FloorTabs, t \in FloorTables :
    /\ Unused(i)
    /\ OpenTabsAt(t) = {}
    /\ BeginFloor(c, [IdleFloorCall EXCEPT !.pc = "guestInsert", !.tab = i, !.table = t])

GuestInsert(c) ==
  LET i == floorCalls[c].tab
      t == floorCalls[c].table
  IN /\ floorCalls[c].pc = "guestInsert"
     /\ WriteFloor(c, [floorCalls[c] EXCEPT !.pc = "guestOccupy"], tableStatus,
                   [floorTabs EXCEPT ![i] = NewTab(t)], SittingAt(t) # {})

GuestOccupy(c) ==
  /\ floorCalls[c].pc = "guestOccupy"
  /\ WriteFloor(c, IdleFloorCall, SetTable(floorCalls[c].table, "occupied"), floorTabs, FALSE)

(* createTabFromReservation: the table is the booking's, whoever sits there. *)
SeatParty(c) ==
  \E i \in FloorTabs, t \in FloorTables :
    /\ floorCalls[c] = IdleFloorCall
    /\ Unused(i)
    /\ WriteFloor(c, IdleFloorCall, SetTable(t, "occupied"), [floorTabs EXCEPT ![i] = NewTab(t)],
                  SittingAt(t) # {})

---------------------------------------------------------------------------
(* Moving and ending. *)

BeginTransfer(c) ==
  \E i \in FloorTabs, t \in FloorTables :
    /\ floorTabs[i].status = "open"
    /\ tableStatus[t] = "available"     \* and no booking is due at t: any of its states
    /\ BeginFloor(c, [IdleFloorCall EXCEPT !.pc = "transfer", !.tab = i, !.row = floorTabs[i], !.table = t])

Transfer(c) ==
  LET i == floorCalls[c].tab
      from == floorCalls[c].row.table
      to == floorCalls[c].table
  IN /\ floorCalls[c].pc = "transfer"
     /\ WriteFloor(c, IdleFloorCall, Moved(from, to), [floorTabs EXCEPT ![i].table = to],
                   SittingAt(to) # {})

(* mergeTab: the emptied table goes out of service. *)
BeginMerge(c) ==
  \E i, into \in FloorTabs :
    /\ i # into
    /\ floorTabs[i].status = "open" /\ floorTabs[into].status = "open"
    /\ floorTabs[i].bill = "none" /\ floorTabs[into].bill = "none"
    /\ BeginOnTab(c, i, "merge")

BeginVoid(c) ==
  \E i \in FloorTabs : floorTabs[i].status = "open" /\ BeginOnTab(c, i, "void")

(* closeTab asks for a paid bill, not for a tab that is still open. *)
BeginCloseTab(c) ==
  \E i \in FloorTabs : floorTabs[i].bill = "paid" /\ BeginOnTab(c, i, "close")

BeginSettle(c) ==
  \E i \in FloorTabs : floorTabs[i].bill = "unpaid" /\ BeginOnTab(c, i, "settle")

(* How each of them leaves its tab and the table it read. *)
Ending == [merge |-> "voided", void |-> "voided", close |-> "paid", settle |-> "paid"]
Leaving == [merge |-> "inactive", void |-> "available", close |-> "available", settle |-> "available"]

EndTab(c) ==
  LET call == floorCalls[c]
      i == call.tab
      ended == SetTab(i, Ending[call.pc])
  IN /\ call.pc \in DOMAIN Ending
     /\ call.pc = "settle" => floorTabs[i].bill = "unpaid"
     /\ WriteFloor(c, IdleFloorCall, SetTable(call.table, Leaving[call.pc]),
                   IF call.pc = "settle" THEN [ended EXCEPT ![i].bill = "paid"] ELSE ended,
                   ~Live(i))

(* processPayment: the claim finds the bill paid, and nothing else is written. *)
SettleLost(c) ==
  /\ floorCalls[c].pc = "settle"
  /\ floorTabs[floorCalls[c].tab].bill # "unpaid"
  /\ WriteFloor(c, IdleFloorCall, tableStatus, floorTabs, FALSE)

---------------------------------------------------------------------------
(* Editing a tab. *)

(* update: name, party size or notes; the whole row that was read is saved, even back into being. *)
BeginUpdateTab(c) ==
  \E i \in FloorTabs : BeginOnTab(c, i, "save")

SavedRow(call) == [call.row EXCEPT !.bill = floorTabs[call.tab].bill]

SaveTab(c) ==
  LET call == floorCalls[c]
  IN /\ call.pc = "save"
     /\ WriteFloor(c, IdleFloorCall, tableStatus, [floorTabs EXCEPT ![call.tab] = SavedRow(call)], FALSE)

BeginRemoveTab(c) ==
  \E i \in FloorTabs : BeginOnTab(c, i, "remove")

RemoveTab(c) ==
  LET i == floorCalls[c].tab
  IN /\ floorCalls[c].pc = "remove"
     /\ WriteFloor(c, IdleFloorCall, tableStatus, SetTab(i, "removed"),
                   Live(i))

(* generateBill: the first bill, then the tab. *)
BeginGenerateBill(c) ==
  \E i \in FloorTabs : Live(i) /\ floorTabs[i].bill = "none" /\ BeginOnTab(c, i, "insertBill")

InsertBill(c) ==
  LET i == floorCalls[c].tab
  IN /\ floorCalls[c].pc = "insertBill"
     /\ WriteFloor(c, [floorCalls[c] EXCEPT !.pc = "markBilled"], tableStatus,
                   [floorTabs EXCEPT ![i].bill = IF @ = "none" THEN "unpaid" ELSE @], FALSE)

MarkBilled(c) ==
  LET i == floorCalls[c].tab
  IN /\ floorCalls[c].pc = "markBilled"
     /\ WriteFloor(c, IdleFloorCall, tableStatus, SetTab(i, "billed"), FALSE)

(* addOrderItems: a new round reopens a billed tab; the mutant one that was paid too. *)
TakesRoundPaid(i) == floorTabs[i].status \in {"billed", "paid"}
TakesRound(i) == floorTabs[i].status = "billed"

BeginNewRound(c) ==
  \E i \in FloorTabs : TakesRound(i) /\ BeginOnTab(c, i, "reopen")

FloorReopenTab(c) ==
  LET i == floorCalls[c].tab
  IN /\ floorCalls[c].pc = "reopen"
     /\ WriteFloor(c, IdleFloorCall, tableStatus, SetTab(i, "open"), FALSE)

---------------------------------------------------------------------------
(* Editing a table. *)

(* updateStatus: staff know better. *)
SetTableStatus(c) ==
  \E t \in FloorTables, s \in TableStatus \ {"reserved"} :
    /\ floorCalls[c] = IdleFloorCall
    /\ floorBegun < MaxFloorCalls
    /\ s # tableStatus[t]
    /\ tableStatus' = SetTable(t, s)
    /\ floorCalls' = [d \in FloorCalls |-> [floorCalls[d] EXCEPT !.stale = floorCalls[d] # IdleFloorCall]]
    /\ floorBegun' = floorBegun + 1
    /\ muddled' = muddled \cup {t}
    /\ UNCHANGED floorTabs

(* update: label or seats; the status that was read is saved with them. *)
BeginUpdateTable(c) ==
  \E t \in FloorTables :
    BeginFloor(c, [IdleFloorCall EXCEPT !.pc = "saveTable", !.table = t, !.seen = tableStatus[t]])

SaveTable(c) ==
  /\ floorCalls[c].pc = "saveTable"
  /\ WriteFloor(c, IdleFloorCall, SetTable(floorCalls[c].table, floorCalls[c].seen), floorTabs, FALSE)

(* release: one open tab of the table, if there is any, is voided with it. *)
BeginRelease(c) ==
  \E t \in FloorTables, i \in FloorTabs \cup {NoTab} :
    /\ IF OpenTabsAt(t) = {} THEN i = NoTab ELSE i \in OpenTabsAt(t)
    /\ BeginFloor(c, [IdleFloorCall EXCEPT !.pc = "release", !.tab = i, !.table = t])

Release(c) ==
  LET t == floorCalls[c].table
      i == floorCalls[c].tab
  IN /\ floorCalls[c].pc = "release"
     /\ WriteFloor(c, IdleFloorCall, SetTable(t, "available"),
                   IF i = NoTab THEN floorTabs ELSE SetTab(i, "voided"),
                   SittingAt(t) \ {i} # {})

(* The process stops, or a statement fails; a guest's tab may be left at a table that looks free. *)
AbortFloor(c) ==
  /\ floorCalls[c] # IdleFloorCall
  /\ floorCalls' = [floorCalls EXCEPT ![c] = IdleFloorCall]
  /\ muddled' = IF floorCalls[c].pc = "guestOccupy" THEN muddled \cup {floorCalls[c].table} ELSE muddled
  /\ UNCHANGED <<tableStatus, floorTabs, floorBegun>>

FloorNext ==
  \E c \in FloorCalls :
    \/ BeginOpenTab(c) \/ OpenTab(c)
    \/ BeginGuestTab(c) \/ GuestInsert(c) \/ GuestOccupy(c) \/ SeatParty(c)
    \/ BeginTransfer(c) \/ Transfer(c)
    \/ BeginMerge(c) \/ BeginVoid(c) \/ BeginCloseTab(c) \/ BeginSettle(c)
    \/ EndTab(c) \/ SettleLost(c)
    \/ BeginUpdateTab(c) \/ SaveTab(c) \/ BeginRemoveTab(c) \/ RemoveTab(c)
    \/ BeginGenerateBill(c) \/ InsertBill(c) \/ MarkBilled(c)
    \/ BeginNewRound(c) \/ FloorReopenTab(c)
    \/ SetTableStatus(c) \/ BeginUpdateTable(c) \/ SaveTable(c)
    \/ BeginRelease(c) \/ Release(c) \/ AbortFloor(c)

FloorSpec == FloorInit /\ [][FloorNext]_floorVars

---------------------------------------------------------------------------
(* Tables, tabs and calls have their types. *)
FloorTypeOK ==
  /\ tableStatus \in [FloorTables -> TableStatus]
  /\ floorTabs \in [FloorTabs -> FloorTabRow]
  /\ floorCalls \in [FloorCalls -> FloorCall]
  /\ floorBegun \in 0 .. MaxFloorCalls
  /\ muddled \subseteq FloorTables

BeingTaken(t) == \E c \in FloorCalls : floorCalls[c].pc = "guestOccupy" /\ floorCalls[c].table = t

(* A table is marked occupied exactly while one party sits at it, through openings, moves, merges, *)
(* voids, payments and edits.  The only ways out are those that `muddled` records: a handler wrote what *)
(* somebody had changed since it looked; a party was put where another still sat; a tab that had ended *)
(* was closed, paid or removed; staff set the status by hand; a guest's opening stopped half-way. *)
FloorPlan ==
  \A t \in FloorTables \ muddled :
    /\ Cardinality(SittingAt(t)) <= 1
    /\ SittingAt(t) # {} => tableStatus[t] = "occupied" \/ BeingTaken(t)
    /\ tableStatus[t] = "occupied" => SittingAt(t) # {}

(* A tab that was paid, voided or removed is served again only by a handler that had read it before that: the *)
(* whole-row save of update, the mark of generateBill, the reopening of addOrderItems. *)
EndedStaysEnded ==
  [][ \A i \in FloorTabs :
        floorTabs[i].status \in {"paid", "voided", "removed"} /\ floorTabs'[i].status \in {"open", "billed"} =>
          \E c \in FloorCalls : /\ floorCalls[c].stale
                                /\ floorCalls[c].tab = i
                                /\ floorCalls[c].pc \in {"save", "markBilled", "reopen"} ]_floorVars

=============================================================================
