----------------------------- MODULE StockLedger -----------------------------
(***************************************************************************)
(* One tracked menu item: its quantity_in_stock and the stock movements    *)
(* that account for it, under every operation that writes either:          *)
(* rounds and payments (IngredientService.deductByTab), cancelled items    *)
(* (reverseOrderConsumption), voided and merged tabs (TabService), and the *)
(* back office's restock, reconcile and update.                            *)
(*                                                                         *)
(* Orders, payments and voids change the stock in a transaction that locks *)
(* the item, one step here; what they read before the transaction is a     *)
(* step of its own, kept in the call.  The back office reads the item,     *)
(* saves it and records a movement in three separate calls without a lock. *)
(***************************************************************************)
EXTENDS Integers, FiniteSets, FiniteSetsExt

CONSTANTS
    Tab,
    Order,          \* order rows, each created once
    Call,           \* HTTP requests, each used once
    InitialStock,
    MaxQuantity,    \* units one order, one delivery of goods or one count has
    NULL

ASSUME StockAssumption ==
  /\ InitialStock \in Nat /\ MaxQuantity \in Nat \ {0}
  /\ IsFiniteSet(Tab) /\ IsFiniteSet(Order)
  /\ NULL \notin Nat

VARIABLES
    stock,          \* menu_items.quantity_in_stock
    tabStatus,      \* tabs.status
    orders,         \* order rows of the item
    consumption,    \* ORDER_CONSUMPTION movement by tab, NULL where there is none
    reversal,       \* VOID_REVERSAL movements by tab, NULL where there is none
    orderReversal,  \* VOID_REVERSAL movement by order, NULL where there is none
    purchased,      \* sum of the PURCHASE movements
    adjusted,       \* sum of the MANUAL_ADJUSTMENT movements
    calls           \* requests between two database calls

vars == <<stock, tabStatus, orders, consumption, reversal, orderReversal,
          purchased, adjusted, calls>>

-----------------------------------------------------------------------------
Quantity == 1 .. MaxQuantity

OrderStatus == {"none", "live", "delivered", "declined", "cancelled"}

OrderRow == [status: OrderStatus, tab: Tab \cup {NULL}, quantity: 0 .. MaxQuantity]

Movement == Nat \cup {NULL}

CallState ==
    [pc: {"idle", "round", "update", "void", "merge", "save", "record", "done"},
     op: {"none", "round", "update", "void", "merge", "restock", "count", "edit"},
     tab: Tab \cup {NULL}, into: Tab \cup {NULL},
     order: Order \cup {NULL}, row: OrderRow \cup {NULL},
     quantity: Int,         \* the units ordered, delivered, or the count's delta
     value: Nat,            \* the quantity_in_stock to be saved
     reversed: BOOLEAN]     \* voidTab saw a reversal of the tab

IdleCall == [pc |-> "idle", op |-> "none", tab |-> NULL, into |-> NULL,
             order |-> NULL, row |-> NULL, quantity |-> 0, value |-> 0, reversed |-> FALSE]

StockTypeOK ==
    /\ stock \in Int
    /\ tabStatus \in [Tab -> {"open", "paid", "voided"}]
    /\ orders \in [Order -> OrderRow]
    /\ consumption \in [Tab -> Movement]
    /\ reversal \in [Tab -> Movement]
    /\ orderReversal \in [Order -> Movement]
    /\ purchased \in Nat
    /\ adjusted \in Int
    /\ calls \in [Call -> CallState]

-----------------------------------------------------------------------------
Units(m) == IF m = NULL THEN 0 ELSE m

OrdersOf(t) == {o \in Order : orders[o].status # "none" /\ orders[o].tab = t}

(* Declined and cancelled orders count: the payment passes every order row.  *)
Ordered(t) == MapThenSumSet(LAMBDA o : orders[o].quantity, OrdersOf(t))

(* Mutant: the difference is not cut off at zero. *)
ToDeductSigned(t, n) == n - Units(consumption[t])

(* deductByTab: what is not recorded yet, as far as the stock goes.          *)
ToDeduct(t, n) == IF n > Units(consumption[t]) THEN n - Units(consumption[t]) ELSE 0

(* Mutant: what was asked for is taken, in stock or not. *)
AppliedInFull(n) == n

Applied(n) == IF n <= stock THEN n ELSE stock

(* The unique index on (reference_id, menu_item_id) refuses a second row.    *)
Refused(t, n) == ToDeduct(t, n) > 0 /\ consumption[t] # NULL

-----------------------------------------------------------------------------
(* Mutants: faulty versions of the operators of the same name without their  *)
(* last word, to see that a property can fail.  Nothing else uses them.      *)

(* The movement records what was asked for, not what was taken. *)
DeductAsked(t, n) ==
    /\ stock' = stock - Applied(ToDeduct(t, n))
    /\ consumption' = [consumption EXCEPT ![t] = ToDeduct(t, n)]

(* Merging leaves the movements with the tab that was merged. *)
RepointNone(f, from, into) == f

-----------------------------------------------------------------------------
Deduct(t, n) ==
    IF ToDeduct(t, n) = 0 THEN UNCHANGED <<stock, consumption>>
    ELSE /\ stock' = stock - Applied(ToDeduct(t, n))
         /\ consumption' = [consumption EXCEPT ![t] = Applied(ToDeduct(t, n))]

Become(c, q) == calls' = [calls EXCEPT ![c] = q]

Finish(c) == Become(c, [calls[c] EXCEPT !.pc = "done"])

Starts(c, q) ==
    /\ calls[c].pc = "idle"
    /\ Become(c, q)
    /\ UNCHANGED <<stock, tabStatus, orders, consumption, reversal, orderReversal,
                   purchased, adjusted>>

(* addOrderItems checks the stock before its transaction, and the tab before *)
(* anything is locked.                                                       *)
BeginRound(c) ==
    \E t \in Tab, n \in Quantity :
        /\ tabStatus[t] = "open"
        /\ n <= stock
        /\ Starts(c, [IdleCall EXCEPT !.pc = "round", !.op = "round", !.tab = t,
                                      !.quantity = n])

NewOrder(t, n) == [status |-> "live", tab |-> t, quantity |-> n]

(* The round and what it takes commit together.  When the index refuses the  *)
(* movement the error is swallowed, the transaction is aborted all the same, *)
(* and its COMMIT rolls back: the call succeeds and nothing is stored.       *)
CommitRound(c) ==
    LET t == calls[c].tab
        n == calls[c].quantity
    IN  /\ calls[c].pc = "round"
        /\ IF Refused(t, n) THEN UNCHANGED <<stock, consumption, orders>>
           ELSE /\ Deduct(t, n)
                /\ \E o \in Order :
                      /\ orders[o].status = "none"
                      /\ orders' = [orders EXCEPT ![o] = NewOrder(t, n)]
        /\ Finish(c)
        /\ UNCHANGED <<tabStatus, reversal, orderReversal, purchased, adjusted>>

(* The settlement of a tab, which succeeds once and only when nothing is     *)
(* left to serve; a refused movement fails the payment.                      *)
Pay(t) ==
    /\ tabStatus[t] # "paid"
    /\ OrdersOf(t) # {}
    /\ \A o \in OrdersOf(t) : orders[o].status # "live"
    /\ ~Refused(t, Ordered(t))
    /\ Deduct(t, Ordered(t))
    /\ tabStatus' = [tabStatus EXCEPT ![t] = "paid"]
    /\ UNCHANGED <<orders, reversal, orderReversal, purchased, adjusted, calls>>

(* An order is served or declined; neither touches the stock.                *)
Resolve(o) ==
    /\ orders[o].status = "live"
    /\ \E x \in {"delivered", "declined"} :
          orders' = [orders EXCEPT ![o].status = x]
    /\ UNCHANGED <<stock, tabStatus, consumption, reversal, orderReversal, purchased,
                   adjusted, calls>>

(* updateOrder changes the quantity of an order in whatever status, without  *)
(* taking or returning stock, and saves the whole row it read.               *)
BeginUpdate(c) ==
    \E o \in Order, n \in Quantity :
        /\ orders[o].status # "none"
        /\ Starts(c, [IdleCall EXCEPT !.pc = "update", !.op = "update", !.order = o,
                                      !.row = [orders[o] EXCEPT !.quantity = n]])

SaveOrder(c) ==
    /\ calls[c].pc = "update"
    /\ orders' = [orders EXCEPT ![calls[c].order] = calls[c].row]
    /\ Finish(c)
    /\ UNCHANGED <<stock, tabStatus, consumption, reversal, orderReversal, purchased,
                   adjusted>>

(* Cancelling an item returns its whole quantity, once, taken or not.        *)
Cancel(o) ==
    /\ orders[o].status = "live"
    /\ orders' = [orders EXCEPT ![o].status = "cancelled"]
    /\ IF orderReversal[o] # NULL THEN UNCHANGED <<stock, orderReversal>>
       ELSE /\ stock' = stock + orders[o].quantity
            /\ orderReversal' = [orderReversal EXCEPT ![o] = orders[o].quantity]
    /\ UNCHANGED <<tabStatus, consumption, reversal, purchased, adjusted, calls>>

(* voidTab looks for an earlier reversal before its transaction.             *)
BeginVoid(c) ==
    \E t \in Tab :
        /\ tabStatus[t] = "open"
        /\ Starts(c, [IdleCall EXCEPT !.pc = "void", !.op = "void", !.tab = t,
                                      !.reversed = (reversal[t] # NULL)])

(* It returns what is recorded for the tab, cancelled items included.        *)
CommitVoid(c) ==
    LET t == calls[c].tab
    IN  /\ calls[c].pc = "void"
        /\ tabStatus' = [tabStatus EXCEPT ![t] = "voided"]
        /\ IF calls[c].reversed \/ consumption[t] = NULL
           THEN UNCHANGED <<stock, reversal>>
           ELSE /\ stock' = stock + consumption[t]
                /\ reversal' = [reversal EXCEPT ![t] = Units(@) + consumption[t]]
        /\ Finish(c)
        /\ UNCHANGED <<orders, consumption, orderReversal, purchased, adjusted>>

(* mergeTab folds the movements of one tab into another's.                   *)
BeginMerge(c) ==
    \E t, u \in Tab :
        /\ t # u
        /\ tabStatus[t] = "open" /\ tabStatus[u] = "open"
        /\ Starts(c, [IdleCall EXCEPT !.pc = "merge", !.op = "merge", !.tab = t, !.into = u])

Repoint(f, from, into) ==
    IF f[from] = NULL THEN f
    ELSE [f EXCEPT ![into] = Units(@) + f[from], ![from] = NULL]

CommitMerge(c) ==
    LET t == calls[c].tab
        u == calls[c].into
    IN  /\ calls[c].pc = "merge"
        /\ orders' = [o \in Order |-> IF o \in OrdersOf(t) THEN [orders[o] EXCEPT !.tab = u]
                                      ELSE orders[o]]
        /\ consumption' = Repoint(consumption, t, u)
        /\ reversal' = Repoint(reversal, t, u)
        /\ tabStatus' = [tabStatus EXCEPT ![t] = "voided"]
        /\ Finish(c)
        /\ UNCHANGED <<stock, orderReversal, purchased, adjusted>>

-----------------------------------------------------------------------------
(* The back office: read the item, save it, record the movement.             *)
BeginRestock(c) ==
    \E n \in Quantity :
        Starts(c, [IdleCall EXCEPT !.pc = "save", !.op = "restock", !.quantity = n,
                                   !.value = stock + n])

(* reconcile: a physical count that differs from the stock that was read.    *)
BeginCount(c) ==
    \E n \in 0 .. MaxQuantity :
        /\ n # stock
        /\ Starts(c, [IdleCall EXCEPT !.pc = "save", !.op = "count",
                                      !.quantity = n - stock, !.value = n])

(* update: any edit of the item writes back the stock it read.               *)
BeginEdit(c) ==
    Starts(c, [IdleCall EXCEPT !.pc = "save", !.op = "edit", !.value = stock])

SaveItem(c) ==
    /\ calls[c].pc = "save"
    /\ stock' = calls[c].value
    /\ Become(c, [calls[c] EXCEPT !.pc = IF calls[c].op = "edit" THEN "done" ELSE "record"])
    /\ UNCHANGED <<tabStatus, orders, consumption, reversal, orderReversal, purchased, adjusted>>

RecordMovement(c) ==
    /\ calls[c].pc = "record"
    /\ IF calls[c].op = "restock"
       THEN purchased' = purchased + calls[c].quantity /\ UNCHANGED adjusted
       ELSE adjusted' = adjusted + calls[c].quantity /\ UNCHANGED purchased
    /\ Finish(c)
    /\ UNCHANGED <<stock, tabStatus, orders, consumption, reversal, orderReversal>>

(* A call fails, or the server stops, between two database calls.            *)
Abort(c) ==
    /\ calls[c].pc \notin {"idle", "done"}
    /\ Finish(c)
    /\ UNCHANGED <<stock, tabStatus, orders, consumption, reversal, orderReversal,
                   purchased, adjusted>>

-----------------------------------------------------------------------------
Init ==
    /\ stock = InitialStock
    /\ tabStatus = [t \in Tab |-> "open"]
    /\ orders = [o \in Order |-> [status |-> "none", tab |-> NULL, quantity |-> 0]]
    /\ consumption = [t \in Tab |-> NULL]
    /\ reversal = [t \in Tab |-> NULL]
    /\ orderReversal = [o \in Order |-> NULL]
    /\ purchased = 0
    /\ adjusted = 0
    /\ calls = [c \in Call |-> IdleCall]

Step(c) ==
    \/ BeginRound(c)
    \/ CommitRound(c)
    \/ BeginUpdate(c)
    \/ SaveOrder(c)
    \/ BeginVoid(c)
    \/ CommitVoid(c)
    \/ BeginMerge(c)
    \/ CommitMerge(c)
    \/ BeginRestock(c)
    \/ BeginCount(c)
    \/ BeginEdit(c)
    \/ SaveItem(c)
    \/ RecordMovement(c)
    \/ Abort(c)

Next ==
    \/ \E c \in Call : Step(c)
    \/ \E t \in Tab : Pay(t)
    \/ \E o \in Order : Resolve(o) \/ Cancel(o)

Spec == Init /\ [][Next]_vars

-----------------------------------------------------------------------------
(* Whatever sells, returns and counts at the same time, the stock is never   *)
(* negative, though addOrderItems checks it before it locks the item.        *)
NeverNegative == stock >= 0

Sum(f, S) == MapThenSumSet(LAMBDA x : Units(f[x]), S)

(* The stock the movements account for.                                      *)
Booked ==
    InitialStock + purchased + adjusted + Sum(reversal, Tab) + Sum(orderReversal, Order)
      - Sum(consumption, Tab)

(* What the back office reads of the movements: getAudit works the opening    *)
(* stock out backwards, its slippage is what the stock and the purchases and  *)
(* sales do not explain, and the tally of the day does the same with the      *)
(* movements of one day.  None of them counts a VOID_REVERSAL.                *)
Sold == Sum(consumption, Tab)
AuditedOpening == stock - purchased + Sold - adjusted
Slippage == stock - (AuditedOpening + purchased - Sold)
HasMovements ==
    \/ purchased # 0 \/ adjusted # 0
    \/ \E t \in Tab : consumption[t] # NULL \/ reversal[t] # NULL
    \/ \E o \in Order : orderReversal[o] # NULL
AuditStatus ==
    IF ~HasMovements THEN "Unreviewed"
    ELSE IF Slippage = 0 THEN "Balanced" ELSE IF Slippage < 0 THEN "Shortage" ELSE "Surplus"
TallyOpening == stock - purchased + Sold - adjusted
IsTallyValid == stock = TallyOpening + purchased - Sold

(* The stock and its movements move together in every round, payment,        *)
(* cancellation, void and merge; only the back office's unlocked save and    *)
(* its late movement can part them.                                          *)
OnlyBackOfficeDrifts ==
    [][stock' - Booked' # stock - Booked =>
          \E c \in Call : calls[c].pc \in {"save", "record"} /\ calls'[c] # calls[c]]_vars

(* Wherever merges carry an order, the tab it sits on has the movement that  *)
(* voiding or paying that tab will look for; only the save of a copy of the  *)
(* order read before the merge can strand it on the tab it came from.        *)
OrdersHaveMovement ==
    \A o \in Order : orders[o].status # "none" /\ consumption[orders[o].tab] = NULL =>
        \E c \in Call :
            /\ calls[c].op = "update"
            /\ calls[c].pc = "done"
            /\ calls[c].order = o

(* As long as nobody restocks, counts or edits, the audit of an item whose    *)
(* units were never returned opens with the stock it had, and a count alone   *)
(* makes it speak of a shortage; returned units inflate the opening instead.  *)
AuditStandsOnLedger ==
    /\ (\A c \in Call : calls[c].op \notin {"restock", "count", "edit"}) =>
          AuditedOpening = InitialStock + Sum(reversal, Tab) + Sum(orderReversal, Order)
    /\ AuditStatus \in {"Shortage", "Surplus"} \/ ~IsTallyValid => \E c \in Call : calls[c].op = "count"

(* No sequence of rounds, returns and counts oversells an item or loses the   *)
(* movement that gives its units back, and the reports stand on them.         *)
StockIsHeld == NeverNegative /\ OrdersHaveMovement /\ AuditStandsOnLedger

(* Doc: the first round deducts fully and later rounds deduct the newly      *)
(* added quantity (comment above deductByTab).                               *)
RoundTakesStock ==
    [][\A o \in Order : orders[o].status = "none" /\ orders'[o].status # "none"
          => stock' = stock - Applied(orders'[o].quantity)]_vars

(* Doc: a reversal is made once, and the reversals of items keep those of    *)
(* the tab consistent (comments in voidTab and above reverseOrderConsumption): *)
(* no tab gets more back than was taken for it.                              *)
ReturnedWasTaken ==
    \A t \in Tab :
        Units(reversal[t]) + Sum(orderReversal, OrdersOf(t)) <= Units(consumption[t])

=============================================================================
