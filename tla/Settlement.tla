----------------------------- MODULE Settlement -----------------------------
(***************************************************************************)
(* The settlement path of the point of sale: BillService.processPayment    *)
(* and everything that calls it -- the cashier's payment endpoint, the     *)
(* supervisor's confirmCashPayment and the payment-provider webhooks --     *)
(* run by concurrent requests over one PostgreSQL database.                *)
(*                                                                         *)
(* A request is a sequence of steps, one per await that reads or writes    *)
(* the database; what a step read stays in the request (field row) and is  *)
(* stale from then on.  TypeORM's repository.save(entity) writes back      *)
(* every column of the entity, so a save is modelled as replacing the      *)
(* whole row by the request's copy.  A transaction is one step: it takes   *)
(* the row lock of the bill with its first statement and either commits    *)
(* all its writes or none.                                                 *)
(*                                                                         *)
(* No bill is created or edited here: the bills in Init are what the       *)
(* billing endpoints left behind.  Module BillDesk adds those endpoints.   *)
(* One menu item is tracked and the stock on hand is enough: what a        *)
(* shortage does to the movements is module StockLedger's.                 *)
(***************************************************************************)
EXTENDS Naturals, FiniteSets

CONSTANTS
    Scope,      \* what one settlement covers: a tab or a standalone order group
    Kind,       \* Kind[s]: "dine_in", "takeaway" or "standalone"
    Table,      \* dining tables
    TableOf,    \* TableOf[s]: tabs.table_id, NULL when the scope sits at no table
    BillId,     \* bill rows, numbered in the order of created_at
    Ref,        \* payment references, each one provider delivery
    RefAmount,  \* RefAmount[p]: the kobo amount delivery p reports
    ClientKey,  \* idempotency keys the cashier's device generates
    Amount,     \* kobo amounts of bills and payments
    MaxQuantity,\* bound on the stock units one scope orders
    Request,    \* HTTP requests, each used once
    NULL

ASSUME ScopeAssumption == Kind \in [Scope -> {"dine_in", "takeaway", "standalone"}]
ASSUME TableAssumption == TableOf \in [Scope -> Table \cup {NULL}] /\ NULL \notin Table
ASSUME BillIdAssumption == BillId \subseteq Nat /\ BillId \cap Scope = {}
ASSUME QuantityAssumption == MaxQuantity \in Nat \ {0}
ASSUME AmountAssumption == Amount \subseteq Nat /\ RefAmount \in [Ref -> Amount]
ASSUME NullAssumption == NULL \notin Ref \cup Scope \cup ClientKey \cup BillId
ASSUME KeyAssumption == Ref \cap (Scope \cup ClientKey) = {} /\ Scope \cap ClientKey = {}

VARIABLES
    bills,          \* table bills: a row, or NULL where none was created yet
    orders,         \* per scope, the orders table as settlement sees it
    scopeStatus,    \* tabs.status, or the group status carried by its orders
    tableStatus,    \* tables.status
    consumption,    \* ORDER_CONSUMPTION stock movements, by reference_id
    webhookEvents,  \* deliveries on the ledger with a settled outcome
    requests        \* the requests in flight and the answered ones

vars == <<bills, orders, scopeStatus, tableStatus, consumption, webhookEvents, requests>>

-----------------------------------------------------------------------------
(* An idempotency key: a webhook's is its reference, a cash confirmation's   *)
(* is its tab, and the cashier's device makes up its own or sends none.      *)
Key == Ref \cup Scope \cup ClientKey \cup {NULL}

(* A timestamp column, null or not.                                          *)
Stamp == {"unset", "set"}

Paid(row) == row.paid_at = "set"

Voided(row) == row.voided_at = "set"

Bill == [scope: Scope,
         payment_status: {"pending", "pending_cash", "paid", "voided"},
         paid_at: Stamp, voided_at: Stamp,
         idempotency_key: Key,
         payment_reference: Ref \cup {NULL},
         total_kobo: Nat, payment_amount_kobo: Nat]

(* quantity: units of the tracked menu item over all the orders of the scope; *)
(* approval: some order waits in PENDING_PAYMENT_APPROVAL; kitchen: some      *)
(* billable order not held so is not fulfilled yet, and blocks the payment.   *)
Orders == [quantity: Nat, approval: {"held", "none"}, kitchen: {"busy", "clear"}]

StockRef == Scope \cup BillId

Status == {"none", "open", "billed", "paid", "voided"}

PC == {"idle", "confirm", "resolve", "check", "fast", "settle", "receipt", "record", "done"}

Outcome == {"none", "settled", "already", "existing", "rejected", "no_bill",
            "duplicate", "already_paid", "failed"}

RequestState ==
    [pc: PC, op: {"none", "pay", "confirm", "webhook"}, scope: Scope \cup {NULL},
     bill: BillId \cup {NULL}, row: Bill \cup {NULL}, key: Key, method: {"cash", "transfer"},
     amount: Nat, outcome: Outcome]

IdleRequest ==
    [pc |-> "idle", op |-> "none", scope |-> NULL, bill |-> NULL, row |-> NULL,
     key |-> NULL, method |-> "transfer", amount |-> 0, outcome |-> "none"]

(* NULL is no row: a model value, or any value that is not a record.          *)
ASSUME RowAssumption == NULL \notin Bill

TypeOK ==
    /\ bills \in [BillId -> Bill \cup {NULL}]
    /\ orders \in [Scope -> Orders]
    /\ scopeStatus \in [Scope -> Status]
    /\ tableStatus \in [Table -> {"available", "occupied"}]
    /\ consumption \in [StockRef -> Nat]
    /\ webhookEvents \subseteq Ref
    /\ requests \in [Request -> RequestState]

-----------------------------------------------------------------------------
(* Reads of the bills table.                                                 *)
IsTab(s) == Kind[s] # "standalone"

Exists(b) == bills[b] # NULL

BillsOf(s) == {b \in BillId : Exists(b) /\ bills[b].scope = s}

LiveBills(s) == {b \in BillsOf(s) : ~Voided(bills[b])}

Newest(B, b) == b \in B /\ \A o \in B : o <= b

Referenced(p) == {b \in BillId : Exists(b) /\ bills[b].payment_reference = p}

(* The bills of the branch a transfer of this amount can be matched with.    *)
Payable(a) == {b \in BillId : /\ Exists(b)
                              /\ ~Voided(bills[b])
                              /\ ~Paid(bills[b])
                              /\ bills[b].total_kobo = a}

-----------------------------------------------------------------------------
(* Mutants: each is a faulty version of the operator of the same name without *)
(* its last word, to see that a property can fail.  Nothing else uses them.   *)

(* A refused delivery counts as processed. *)
AnswerRecorded(q, o) ==
    [q EXCEPT !.pc = IF q.op = "webhook" /\ q.pc # "record" THEN "record" ELSE "done",
              !.outcome = o]

(* The claim does not look at paid_at. *)
ClaimableUnpaid(row) == row.idempotency_key = NULL

(* The claim fails on a voided bill as well. *)
ClaimableLive(row) == ~Paid(row) /\ ~Voided(row) /\ row.idempotency_key = NULL

(* Held orders stay held. *)
ReleasedNone(o) == o

(* A payment below the total is accepted. *)
RefusedUnserved(q) ==
    (q.method = "cash" /\ Kind[q.scope] # "dine_in") \/ orders[q.scope].kitchen = "busy"

(* The receipt is saved with the bill as it was before the payment. *)
UploadReceiptBefore(r) ==
    LET q == requests[r]
    IN  /\ q.pc = "receipt"
        /\ bills' = [bills EXCEPT ![q.bill] = [q.row EXCEPT !.paid_at = "unset"]]
        /\ requests' = [requests EXCEPT ![r].pc = "done"]
        /\ UNCHANGED <<orders, scopeStatus, tableStatus, consumption, webhookEvents>>

-----------------------------------------------------------------------------
(* Request bookkeeping.                                                      *)
Database == <<bills, orders, scopeStatus, tableStatus, consumption, webhookEvents>>

Become(r, q) == requests' = [requests EXCEPT ![r] = q]

Answer(q, o) == [q EXCEPT !.pc = "done", !.outcome = o]

(* A webhook handler still has to put its outcome on the ledger.             *)
Finish(q, o) ==
    [q EXCEPT !.pc = IF q.op = "webhook" THEN "record" ELSE "done", !.outcome = o]

Hold(q, b, pc) ==
    [q EXCEPT !.pc = pc, !.bill = b, !.row = bills[b], !.scope = bills[b].scope]

(* processPayment's own read of the bill: the newest row not voided.         *)
LoadRunningBill(r, q) ==
    \/ /\ LiveBills(q.scope) = {}
       /\ Become(r, Answer(q, "no_bill"))
    \/ \E b \in BillId : /\ Newest(LiveBills(q.scope), b)
                         /\ Become(r, Hold(q, b, "check"))

-----------------------------------------------------------------------------
(* The callers of processPayment.                                            *)

(* The cashier's endpoint: POST /bills/:tabId/pay.                           *)
BeginPay(r) ==
    /\ requests[r].pc = "idle"
    /\ \E s \in Scope, k \in ClientKey \cup {NULL}, m \in {"cash", "transfer"}, a \in Amount :
          /\ IsTab(s)
          /\ scopeStatus[s] # "none"
          /\ LoadRunningBill(r, [IdleRequest EXCEPT !.op = "pay", !.scope = s,
                                     !.key = k, !.method = m, !.amount = a])
    /\ UNCHANGED Database

(* confirmCashPayment reads the newest bill, voided or not, and calls        *)
(* processPayment with its total and a key derived from the tab.             *)
BeginConfirm(r) ==
    /\ requests[r].pc = "idle"
    /\ \E s \in Scope :
          /\ IsTab(s)
          /\ scopeStatus[s] # "none"
          /\ LET q == [IdleRequest EXCEPT !.op = "confirm", !.scope = s, !.key = s,
                                          !.method = "cash"]
             IN  \/ BillsOf(s) = {} /\ Become(r, Answer(q, "no_bill"))
                 \/ \E b \in BillId :
                       /\ Newest(BillsOf(s), b)
                       /\ Become(r, IF Paid(bills[b])
                                    THEN Answer([q EXCEPT !.bill = b], "already_paid")
                                    ELSE [q EXCEPT !.pc = "confirm",
                                                   !.amount = bills[b].total_kobo])
    /\ UNCHANGED Database

ConfirmLoadsBill(r) ==
    /\ requests[r].pc = "confirm"
    /\ LoadRunningBill(r, requests[r])
    /\ UNCHANGED Database

(* A provider delivers a verified payment: first time, retry or duplicate.   *)
(* The ledger knows a delivery by its bytes and its look-up fails open, so   *)
(* one that was recorded may still pass.                                     *)
BeginWebhook(r) ==
    /\ requests[r].pc = "idle"
    /\ \E p \in Ref :
          LET q == [IdleRequest EXCEPT !.op = "webhook", !.key = p,
                                       !.amount = RefAmount[p]]
          IN  \/ p \in webhookEvents /\ Become(r, Answer(q, "duplicate"))
              \/ Become(r, [q EXCEPT !.pc = "resolve"])
    /\ UNCHANGED Database

(* The bill a delivery pays: the one that carries its reference, voided or   *)
(* not, and failing that the only payable bill of exactly that amount.       *)
Resolved(p) ==
    IF Referenced(p) # {} THEN Referenced(p)
    ELSE IF Cardinality(Payable(RefAmount[p])) = 1 THEN Payable(RefAmount[p]) ELSE {}

ResolveWebhookBill(r) ==
    /\ requests[r].pc = "resolve"
    /\ LET q == requests[r]
       IN  \/ Resolved(q.key) = {} /\ Become(r, Answer(q, "no_bill"))
           \/ \E b \in Resolved(q.key) :
                 Become(r, IF Paid(bills[b])
                           THEN [Hold(q, b, "record") EXCEPT !.outcome = "already_paid"]
                           ELSE IF bills[b].total_kobo # q.amount THEN Answer(q, "rejected")
                           ELSE Hold(q, b, "check"))
    /\ UNCHANGED Database

-----------------------------------------------------------------------------
(* processPayment.                                                           *)

Refused(q) ==
    \/ q.method = "cash" /\ Kind[q.scope] # "dine_in"
    \/ orders[q.scope].kitchen = "busy"
    \/ q.amount < q.row.total_kobo

CheckPayable(r) ==
    /\ requests[r].pc = "check"
    /\ Become(r, IF Refused(requests[r]) THEN Answer(requests[r], "rejected")
                 ELSE [requests[r] EXCEPT !.pc = "fast"])
    /\ UNCHANGED Database

(* The fast path: somebody already paid with this idempotency key.           *)
PaidWith(k) == {b \in BillId : /\ Exists(b)
                               /\ k # NULL
                               /\ bills[b].idempotency_key = k
                               /\ Paid(bills[b])}

IdempotencyFastPath(r) ==
    /\ requests[r].pc = "fast"
    /\ LET q == requests[r]
       IN  \/ PaidWith(q.key) = {} /\ Become(r, [q EXCEPT !.pc = "settle"])
           \/ \E b \in PaidWith(q.key) :
                 Become(r, Finish([q EXCEPT !.bill = b, !.row = bills[b]], "existing"))
    /\ UNCHANGED Database

(* The atomic claim: UPDATE ... WHERE paid_at IS NULL AND idempotency_key IS NULL. *)
Claimable(row) == ~Paid(row) /\ row.idempotency_key = NULL

(* The unique index on bills.idempotency_key refuses a key in use elsewhere. *)
KeyInUse(b, k) ==
    k # NULL /\ \E o \in BillId \ {b} : Exists(o) /\ bills[o].idempotency_key = k

(* Where deductByTab records what this settlement takes from the stock.      *)
Reference(q) == IF IsTab(q.scope) THEN q.scope ELSE q.bill

(* deductByTab takes what is not recorded under the reference yet; a second  *)
(* ORDER_CONSUMPTION row for the same reference violates                     *)
(* IDX_stock_movements_dedup and leaves the transaction aborted.             *)
StockConflict(q) ==
    /\ consumption[Reference(q)] > 0
    /\ consumption[Reference(q)] < orders[q.scope].quantity

Consumed(q) ==
    IF consumption[Reference(q)] = 0 THEN orders[q.scope].quantity
    ELSE consumption[Reference(q)]

(* The request's copy of the row, with the payment written into it.          *)
SettledRow(q) ==
    [q.row EXCEPT !.payment_status = "paid", !.paid_at = "set",
                  !.idempotency_key = IF q.key = NULL THEN @ ELSE q.key,
                  !.payment_reference = IF q.op = "webhook" THEN q.key ELSE @,
                  !.payment_amount_kobo = q.amount]

(* Settling the whole scope voids its other unpaid bills.                    *)
Superseded(b, s) ==
    b \in LiveBills(s) /\ ~Paid(bills[b])

(* Held orders go to the kitchen queue, or to the supervisor's: both block.  *)
Released(o) == [o EXCEPT !.approval = "none",
                         !.kitchen = IF o.approval = "held" THEN "busy" ELSE @]

SettleCommits(r) ==
    LET q == requests[r]
    IN  /\ q.pc = "settle"
        /\ Claimable(bills[q.bill])
        /\ ~KeyInUse(q.bill, q.key)
        /\ ~StockConflict(q)
        /\ bills' = [b \in BillId |->
                       IF b = q.bill THEN SettledRow(q)
                       ELSE IF Superseded(b, q.scope) THEN [bills[b] EXCEPT !.voided_at = "set"]
                       ELSE bills[b]]
        /\ scopeStatus' = [scopeStatus EXCEPT ![q.scope] = "paid"]
        /\ orders' = [orders EXCEPT ![q.scope] = Released(@)]
        /\ tableStatus' = IF TableOf[q.scope] = NULL THEN tableStatus
                          ELSE [tableStatus EXCEPT ![TableOf[q.scope]] = "available"]
        /\ consumption' = [consumption EXCEPT ![Reference(q)] = Consumed(q)]
        /\ Become(r, [q EXCEPT !.pc = "receipt", !.row = SettledRow(q),
                               !.outcome = "settled"])
        /\ UNCHANGED webhookEvents

(* Zero rows claimed: the loser answers with the row as it is now.           *)
SettleLosesClaim(r) ==
    LET q == requests[r]
    IN  /\ q.pc = "settle"
        /\ ~Claimable(bills[q.bill])
        /\ Become(r, Finish([q EXCEPT !.row = bills[q.bill]], "already"))
        /\ UNCHANGED Database

SettleRollsBack(r) ==
    LET q == requests[r]
    IN  /\ q.pc = "settle"
        /\ Claimable(bills[q.bill])
        /\ KeyInUse(q.bill, q.key) \/ StockConflict(q)
        /\ Become(r, Answer(q, "rejected"))
        /\ UNCHANGED Database

(* After the commit the receipt is uploaded and its URL saved with the whole *)
(* row; a failed upload, or a refused save, is swallowed.                    *)
UploadReceipt(r) ==
    LET q == requests[r]
    IN  /\ q.pc = "receipt"
        /\ bills' = IF KeyInUse(q.bill, q.row.idempotency_key) THEN bills
                    ELSE [bills EXCEPT ![q.bill] = q.row]
        /\ Become(r, Finish(q, q.outcome))
        /\ UNCHANGED <<orders, scopeStatus, tableStatus, consumption, webhookEvents>>

SkipReceipt(r) ==
    /\ requests[r].pc = "receipt"
    /\ Become(r, Finish(requests[r], requests[r].outcome))
    /\ UNCHANGED Database

RecordWebhookEvent(r) ==
    /\ requests[r].pc = "record"
    /\ webhookEvents' = webhookEvents \cup {requests[r].key}
    /\ Become(r, Answer(requests[r], requests[r].outcome))
    /\ UNCHANGED <<bills, orders, scopeStatus, tableStatus, consumption>>

(* The server stops, the connection drops, PostgreSQL picks the transaction  *)
(* as a deadlock victim: what is not committed never happens.                *)
Abort(r) ==
    /\ requests[r].pc \notin {"idle", "done"}
    /\ Become(r, Answer(requests[r], IF requests[r].outcome = "none" THEN "failed"
                                     ELSE requests[r].outcome))
    /\ UNCHANGED Database

(* The kitchen and the waiters serve what blocked the payment.               *)
ServeOrders(s) ==
    /\ orders[s].kitchen = "busy"
    /\ orders' = [orders EXCEPT ![s].kitchen = "clear"]
    /\ UNCHANGED <<bills, scopeStatus, tableStatus, consumption, webhookEvents, requests>>

-----------------------------------------------------------------------------
(* The bills a settlement can find: issued, unpaid, possibly more than one   *)
(* for the same scope, with or without a payment reference.                  *)
IssuedBill ==
    {[scope |-> s, payment_status |-> "pending", paid_at |-> "unset", voided_at |-> "unset",
      idempotency_key |-> NULL, payment_reference |-> p, total_kobo |-> a,
      payment_amount_kobo |-> 0] : s \in Scope, p \in Ref \cup {NULL}, a \in Amount}

Init ==
    /\ bills \in [BillId -> IssuedBill \cup {NULL}]
    /\ \A b, o \in BillId : /\ b # o /\ Exists(b) /\ Exists(o)
                            /\ bills[b].payment_reference # NULL
                            => bills[b].payment_reference # bills[o].payment_reference
    /\ orders \in [Scope -> [quantity: 1 .. MaxQuantity, approval: {"held", "none"},
                          kitchen: {"busy", "clear"}]]
    /\ scopeStatus = [s \in Scope |-> IF IsTab(s) THEN "billed" ELSE "open"]
    /\ tableStatus = [t \in Table |-> "occupied"]
    /\ consumption \in [StockRef -> 0 .. MaxQuantity]
    /\ \A s \in Scope : consumption[s] <= orders[s].quantity
    /\ \A b \in BillId : consumption[b] = 0
    /\ \A s \in Scope : ~IsTab(s) => consumption[s] = 0
    /\ webhookEvents = {}
    /\ requests = [r \in Request |-> IdleRequest]

Step(r) ==
    \/ BeginPay(r)
    \/ BeginConfirm(r)
    \/ ConfirmLoadsBill(r)
    \/ BeginWebhook(r)
    \/ ResolveWebhookBill(r)
    \/ CheckPayable(r)
    \/ IdempotencyFastPath(r)
    \/ SettleCommits(r)
    \/ SettleLosesClaim(r)
    \/ SettleRollsBack(r)
    \/ UploadReceipt(r)
    \/ SkipReceipt(r)
    \/ RecordWebhookEvent(r)
    \/ Abort(r)

Next ==
    \/ \E r \in Request : Step(r)
    \/ \E s \in Scope : ServeOrders(s)

Spec == Init /\ [][Next]_vars

-----------------------------------------------------------------------------
Settles(r, b) == requests[r].outcome = "settled" /\ requests[r].bill = b

(* However many payments, confirmations, retries and duplicates run at once, *)
(* one bill is settled by one request: the conditional UPDATE is the only    *)
(* thing that decides who.                                                   *)
SettledOnce ==
    \A r, o \in Request, b \in BillId : Settles(r, b) /\ Settles(o, b) => r = o

(* A request answered as paid -- winner, loser of the race, or stopped on    *)
(* the fast path -- points at a bill that is paid.                           *)
AnsweredPaidIsPaid ==
    \A r \in Request :
        /\ requests[r].outcome \in {"settled", "already", "existing", "already_paid"}
        => Paid(bills[requests[r].bill])

(* Settlement is all or nothing: a closed scope has a paid bill, holds back  *)
(* no order, and its stock is taken in full, once; stock is recorded under a *)
(* bill exactly when that bill settled a standalone group.                   *)
SettlementIsAtomic ==
    /\ \A s \in Scope : scopeStatus[s] = "paid" =>
          /\ \E b \in BillsOf(s) : Paid(bills[b])
          /\ orders[s].approval = "none"
          /\ IsTab(s) => consumption[s] = orders[s].quantity
    /\ \A b \in BillId :
          consumption[b] > 0 <=> Exists(b) /\ ~IsTab(bills[b].scope) /\ Paid(bills[b])

(* A delivery recorded as settled -- never looked at again -- has a paid     *)
(* bill that carries its reference or its amount.                            *)
RecordedDeliveryIsPaid ==
    \A p \in webhookEvents : \E b \in BillId :
        /\ Exists(b)
        /\ Paid(bills[b])
        /\ bills[b].payment_reference = p \/ bills[b].total_kobo = RefAmount[p]

(* A settled bill keeps its payment: no late receipt, loser or duplicate     *)
(* takes it back or replaces it by another.                                  *)
SettledStaysSettled ==
    [][\A b \in BillId : Exists(b) /\ Paid(bills[b]) =>
          /\ bills'[b] # NULL
          /\ Paid(bills'[b])
          /\ bills'[b].idempotency_key = bills[b].idempotency_key
          /\ bills'[b].payment_amount_kobo = bills[b].payment_amount_kobo]_vars

(* Doc: voiding the other bills of the scope keeps them from being settled   *)
(* later and double-counted in revenue (comment above the voiding UPDATE).   *)
OneSettlementPerScope ==
    \A b, o \in BillId :
        /\ Exists(b) /\ Paid(bills[b])
        /\ Exists(o) /\ Paid(bills[o])
        /\ bills[b].scope = bills[o].scope
        => b = o

-----------------------------------------------------------------------------
(* The settlement path implements PaymentLedger.                             *)
SettledBy == [b \in BillId |-> {r \in Request : Settles(r, b)}]

Closed == {s \in Scope : scopeStatus[s] = "paid"}

ToldPaid ==
    [r \in Request |->
       IF requests[r].outcome \in {"settled", "already", "existing", "already_paid"}
       THEN requests[r].bill ELSE NULL]

Ledger == INSTANCE PaymentLedger
            WITH settledBy <- SettledBy, closed <- Closed, toldPaid <- ToldPaid

(* Whatever the interleaving, the requests together behave like the ledger.  *)
ImplementsLedger == Ledger!Spec

=============================================================================
