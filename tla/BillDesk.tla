------------------------------ MODULE BillDesk ------------------------------
(***************************************************************************)
(* The billing desk around the settlement path: the endpoints that create  *)
(* and edit the bills Settlement settles, and the two other writers of a   *)
(* tab's status.  Each runs at the same time as the payments, and each is  *)
(* a sequence of database calls outside any transaction, except the insert *)
(* of a round, so every step below is one await:                           *)
(*   generateBill, applyDiscount, removeCashRequest   (bill.service)       *)
(*   initializePayment, submitCashIntent              (payment.controller) *)
(*   addOrderItems                                    (order.service)      *)
(*   closeTab                                         (tab.service)        *)
(*                                                                         *)
(* A call is an editor.  A bill it read is copied into the editor (row),   *)
(* edited there and saved as a whole row some time later.  Totals are any  *)
(* kobo amount: what the orders and the discount add up to is left out.    *)
(***************************************************************************)
EXTENDS Settlement

CONSTANTS
    Editor,     \* calls of the billing endpoints, each used once
    MaxRound    \* bound on the tracked units one round orders

ASSUME RoundAssumption == MaxRound \in Nat

VARIABLE edits  \* the state of each editor

deskVars == <<vars, edits>>

EditOp == {"none", "generate", "discount", "initialize", "cash", "remove", "round", "close"}

EditState ==
    [pc: {"idle", "insert", "save", "mark", "hold", "reopen", "round", "close", "done"},
     op: EditOp, scope: Scope \cup {NULL}, bill: BillId \cup {NULL}, row: Bill \cup {NULL}]

IdleEdit == [pc |-> "idle", op |-> "none", scope |-> NULL, bill |-> NULL, row |-> NULL]

DeskTypeOK == TypeOK /\ edits \in [Editor -> EditState]

-----------------------------------------------------------------------------
BecomeEdit(e, d) == edits' = [edits EXCEPT ![e] = d]

Call(op, s) == [IdleEdit EXCEPT !.op = op, !.scope = s]

Then(d, pc) == [d EXCEPT !.pc = pc]

(* The edited copy of row b, to be saved.                                    *)
Edited(d, b, row) == [d EXCEPT !.pc = "save", !.bill = b, !.row = row]

Starts(e, d) ==
    /\ edits[e].pc = "idle"
    /\ BecomeEdit(e, d)
    /\ UNCHANGED vars

(* Refused calls change nothing and are left out: an editor that can do      *)
(* nothing stays idle.                                                       *)
OpenForBilling(s) == IsTab(s) /\ scopeStatus[s] \in {"open", "billed"}

-----------------------------------------------------------------------------
(* Mutants, as in Settlement.                                                *)

(* A tab is closed without asking for a paid bill. *)
BeginCloseUnpaid(e) ==
    \E s \in Scope : IsTab(s) /\ Starts(e, Then(Call("close", s), "close"))

(* The payment method of a cash request is stored as its status. *)
NewBillMethodAsStatus(d, p, a) ==
    [scope |-> d.scope, payment_status |-> IF d.op = "cash" THEN "cash" ELSE "pending",
     paid_at |-> "unset", voided_at |-> "unset", idempotency_key |-> NULL,
     payment_reference |-> p, total_kobo |-> a, payment_amount_kobo |-> 0]

(* A round counts its units again on top of those recorded. *)
RoundConsumedTwice(c, n) == c + 2 * n

-----------------------------------------------------------------------------
(* What the endpoints read before they write.                                *)

(* generateBill recomputes the newest live bill or issues the first one.     *)
BeginGenerate(e) ==
    \E s \in Scope :
        /\ OpenForBilling(s)
        /\ \/ LiveBills(s) = {} /\ Starts(e, Then(Call("generate", s), "insert"))
           \/ \E b \in BillId, a \in Amount :
                 /\ Newest(LiveBills(s), b)
                 /\ ~Paid(bills[b])
                 /\ Starts(e, Edited(Call("generate", s), b,
                                     [bills[b] EXCEPT !.total_kobo = a]))

(* applyDiscount takes whichever bill of the tab the database returns first, *)
(* and does not look at the tab's status.                                    *)
BeginDiscount(e) ==
    \E s \in Scope, a \in Amount : \E b \in BillsOf(s) :
        /\ IsTab(s)
        /\ ~Paid(bills[b])
        /\ a < bills[b].total_kobo
        /\ Starts(e, Edited(Call("discount", s), b, [bills[b] EXCEPT !.total_kobo = a]))

(* A payment reference nobody has used: references are random.               *)
Fresh(p) ==
    /\ Referenced(p) = {}
    /\ \A r \in Request : requests[r].key # p
    /\ \A e \in Editor : edits[e].row # NULL => edits[e].row.payment_reference # p

PendingBills(s) == {b \in BillsOf(s) : bills[b].payment_status = "pending"}

(* initializePayment: the tab's pending bill, voided or not, gets a payment  *)
(* reference if it has none; without one a bill is issued.                   *)
BeginInitialize(e) ==
    \E s \in Scope :
        /\ OpenForBilling(s) \/ ~IsTab(s)
        /\ \/ PendingBills(s) = {} /\ Starts(e, Then(Call("initialize", s), "insert"))
           \/ \E b \in PendingBills(s), p \in Ref :
                 /\ bills[b].payment_reference = NULL
                 /\ Fresh(p)
                 /\ Starts(e, Edited(Call("initialize", s), b,
                                     [bills[b] EXCEPT !.payment_reference = p]))

(* submitCashIntent: the newest bill, voided or not, becomes the cash        *)
(* request, unless it is one already.                                        *)
BeginCashIntent(e) ==
    \E s \in Scope :
        /\ OpenForBilling(s)
        /\ Kind[s] = "dine_in"
        /\ \/ BillsOf(s) = {} /\ Starts(e, Then(Call("cash", s), "insert"))
           \/ \E b \in BillId, a \in Amount :
                 /\ Newest(BillsOf(s), b)
                 /\ ~Paid(bills[b])
                 /\ bills[b].payment_status # "pending_cash" \/ Voided(bills[b])
                 /\ Starts(e, Edited(Call("cash", s), b,
                                     [bills[b] EXCEPT !.payment_status = "pending_cash",
                                                      !.total_kobo = a]))

(* removeCashRequest voids the newest live bill, a cash request or not, and  *)
(* leaves held orders held.                                                  *)
BeginRemove(e) ==
    \E s \in Scope, b \in BillId :
        /\ IsTab(s)
        /\ scopeStatus[s] # "paid"
        /\ Newest(LiveBills(s), b)
        /\ ~Paid(bills[b])
        /\ Starts(e, Edited(Call("remove", s), b,
                            [bills[b] EXCEPT !.voided_at = "set",
                                             !.payment_status = "voided"]))

(* addOrderItems reads the status of the tab once.                           *)
BeginRound(e) ==
    \E s \in Scope :
        /\ OpenForBilling(s)
        /\ Starts(e, Then(Call("round", s),
                          IF scopeStatus[s] = "billed" THEN "reopen" ELSE "round"))

(* closeTab asks whether whichever bill the database returns first is paid.  *)
BeginClose(e) ==
    \E s \in Scope : \E b \in BillsOf(s) :
        /\ IsTab(s)
        /\ Paid(bills[b])
        /\ Starts(e, Then(Call("close", s), "close"))

-----------------------------------------------------------------------------
NewBill(d, p, a) ==
    [scope |-> d.scope,
     payment_status |-> IF d.op = "cash" THEN "pending_cash" ELSE "pending",
     paid_at |-> "unset", voided_at |-> "unset",
     idempotency_key |-> NULL, payment_reference |-> p, total_kobo |-> a,
     payment_amount_kobo |-> 0]

AfterWrite(d) ==
    CASE d.op = "cash" -> "hold"
      [] d.op = "generate" /\ d.pc = "insert" -> "mark"
      [] OTHER -> "done"

InsertBill(e) ==
    LET d == edits[e]
    IN  /\ d.pc = "insert"
        /\ \E b \in BillId, a \in Amount, p \in Ref \cup {NULL} :
              /\ ~Exists(b)
              /\ \A o \in BillId : o < b => Exists(o)
              /\ IF d.op = "generate" THEN p = NULL ELSE p # NULL /\ Fresh(p)
              /\ bills' = [bills EXCEPT ![b] = NewBill(d, p, a)]
        /\ BecomeEdit(e, Then(d, AfterWrite(d)))
        /\ UNCHANGED <<orders, scopeStatus, tableStatus, consumption, webhookEvents, requests>>

(* billRepository.save: the whole row, as it was read and edited.            *)
SaveBill(e) ==
    LET d == edits[e]
    IN  /\ d.pc = "save"
        /\ bills' = [bills EXCEPT ![d.bill] = d.row]
        /\ BecomeEdit(e, Then(d, AfterWrite(d)))
        /\ UNCHANGED <<orders, scopeStatus, tableStatus, consumption, webhookEvents, requests>>

(* The tab is billed, whatever happened to it since generateBill read it.    *)
MarkBilled(e) ==
    /\ edits[e].pc = "mark"
    /\ scopeStatus' = [scopeStatus EXCEPT ![edits[e].scope] = "billed"]
    /\ BecomeEdit(e, Then(edits[e], "done"))
    /\ UNCHANGED <<bills, orders, tableStatus, consumption, webhookEvents, requests>>

(* The cash intent holds the orders that wait for the supervisor: they are   *)
(* among those that block the payment, and may be all of them.               *)
HoldOrders(e) ==
    LET s == edits[e].scope
    IN  /\ edits[e].pc = "hold"
        /\ \/ UNCHANGED orders
           \/ /\ orders[s].kitchen = "busy"
              /\ \E k \in {"busy", "clear"} :
                    orders' = [orders EXCEPT ![s].approval = "held", ![s].kitchen = k]
        /\ BecomeEdit(e, Then(edits[e], "done"))
        /\ UNCHANGED <<bills, scopeStatus, tableStatus, consumption, webhookEvents, requests>>

(* The reopening of a billed tab is not part of the round's transaction.     *)
ReopenTab(e) ==
    /\ edits[e].pc = "reopen"
    /\ scopeStatus' = [scopeStatus EXCEPT ![edits[e].scope] = "open"]
    /\ BecomeEdit(e, Then(edits[e], "round"))
    /\ UNCHANGED <<bills, orders, tableStatus, consumption, webhookEvents, requests>>

(* deductByTab is given the new round only and takes what exceeds the units  *)
(* recorded for the tab so far: nothing, unless the tab has no record.       *)
RoundConsumed(c, n) == IF c = 0 THEN n ELSE c

(* A round larger than the record writes a second record, which the index    *)
(* refuses; the refusal is swallowed and the COMMIT of the aborted           *)
(* transaction rolls the round back.                                         *)
InsertRound(e) ==
    LET s == edits[e].scope
    IN  /\ edits[e].pc = "round"
        /\ \E n \in 0 .. MaxRound :
              /\ orders[s].quantity + n <= MaxQuantity
              /\ IF consumption[s] > 0 /\ n > consumption[s]
                 THEN UNCHANGED <<orders, consumption>>
                 ELSE /\ orders' = [orders EXCEPT ![s].quantity = @ + n, ![s].kitchen = "busy"]
                      /\ consumption' = [consumption EXCEPT ![s] = RoundConsumed(@, n)]
        /\ BecomeEdit(e, Then(edits[e], "done"))
        /\ UNCHANGED <<bills, scopeStatus, tableStatus, webhookEvents, requests>>

CloseTab(e) ==
    LET s == edits[e].scope
    IN  /\ edits[e].pc = "close"
        /\ scopeStatus' = [scopeStatus EXCEPT ![s] = "paid"]
        /\ tableStatus' = IF TableOf[s] = NULL THEN tableStatus
                          ELSE [tableStatus EXCEPT ![TableOf[s]] = "available"]
        /\ BecomeEdit(e, Then(edits[e], "done"))
        /\ UNCHANGED <<bills, orders, consumption, webhookEvents, requests>>

(* The server stops between two calls.                                       *)
EditAborts(e) ==
    /\ edits[e].pc \notin {"idle", "done"}
    /\ BecomeEdit(e, Then(edits[e], "done"))
    /\ UNCHANGED vars

-----------------------------------------------------------------------------
(* No bill yet; each scope has one order of one tracked unit, which a tab    *)
(* has taken from the stock when it was added and a standalone group has not. *)
DeskInit ==
    /\ bills = [b \in BillId |-> NULL]
    /\ orders = [s \in Scope |-> [quantity |-> 1, approval |-> "none", kitchen |-> "clear"]]
    /\ scopeStatus = [s \in Scope |-> "open"]
    /\ tableStatus = [t \in Table |-> "occupied"]
    /\ consumption = [x \in StockRef |-> IF x \in Scope /\ IsTab(x) THEN 1 ELSE 0]
    /\ webhookEvents = {}
    /\ requests = [r \in Request |-> IdleRequest]
    /\ edits = [e \in Editor |-> IdleEdit]

Edit(e) ==
    \/ BeginGenerate(e)
    \/ BeginDiscount(e)
    \/ BeginInitialize(e)
    \/ BeginCashIntent(e)
    \/ BeginRemove(e)
    \/ BeginRound(e)
    \/ BeginClose(e)
    \/ InsertBill(e)
    \/ SaveBill(e)
    \/ MarkBilled(e)
    \/ HoldOrders(e)
    \/ ReopenTab(e)
    \/ InsertRound(e)
    \/ CloseTab(e)
    \/ EditAborts(e)

DeskNext ==
    \/ Next /\ UNCHANGED edits
    \/ \E e \in Editor : Edit(e)

DeskSpec == DeskInit /\ [][DeskNext]_deskVars

-----------------------------------------------------------------------------
(* However its total is recomputed, discounted or overwritten while payments *)
(* are under way, a paid bill shows a payment that covers the total it shows. *)
PaidIsCovered ==
    \A b \in BillId :
        Exists(b) /\ Paid(bills[b]) => bills[b].payment_amount_kobo >= bills[b].total_kobo

(* A tab is closed only if a payment settled one of its bills, even when     *)
(* that bill was overwritten, voided or succeeded by another one since.      *)
ClosedOnlyWhenSettled ==
    \A s \in Scope : scopeStatus[s] = "paid" =>
        \E r \in Request, b \in BillsOf(s) : Settles(r, b)

(* A bill that was settled twice was saved, in between, from a copy read     *)
(* before the first settlement: payments alone never settle it twice.        *)
SettledTwiceWasOverwritten ==
    \A r, o \in Request, b \in BillId : r # o /\ Settles(r, b) /\ Settles(o, b) =>
        \E e \in Editor :
            /\ edits[e].pc \in {"hold", "done"}
            /\ edits[e].bill = b
            /\ ~Paid(edits[e].row)

(* A payment disappears from a bill in no other step than the save of a copy *)
(* read before it: no receipt, round, close or abort takes it back.          *)
UnpaidOnlyByStaleSave ==
    [][\A b \in BillId : Exists(b) /\ Paid(bills[b]) /\ ~Paid(bills'[b]) =>
          \E e \in Editor :
              /\ edits[e].pc = "save"
              /\ edits[e].bill = b
              /\ edits'[e].pc # "save"]_deskVars

(* What is recorded as taken from the stock for a tab never exceeds what the *)
(* tab ordered, whether rounds or payments recorded it.                      *)
StockTakenOnce ==
    \A s \in Scope : IsTab(s) => consumption[s] <= orders[s].quantity

=============================================================================
