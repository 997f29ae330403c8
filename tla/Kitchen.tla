------------------------------ MODULE Kitchen ------------------------------
(***************************************************************************)
(* The orders of one tab on their way through the kitchen (order.service.ts, *)
(* order.scheduler.ts, and the guest's side in customer.service.ts).        *)
(* The staff's status changes lock the row and ask for its status; beside   *)
(* them a job, the guest, the payment and the editing of an order read rows *)
(* and save them later.  An order that gets ready is announced: by the job, *)
(* or through a buffer in memory that a timer empties.                      *)
(***************************************************************************)
EXTENDS Naturals, FiniteSets

CONSTANTS
  KOrders,        \* rows of orders
  ApiCalls,       \* endpoints that read and save in two steps, in flight
  MaxApiCalls,    \* bound: such calls begun in a behaviour
  MaxRestarts     \* bound: restarts of the server

ASSUME KitchenAssumption == MaxApiCalls \in Nat /\ MaxRestarts \in Nat

VARIABLES
  kds,           \* the branch has kitchen displays
  kOrders,       \* rows of orders
  timesUp,       \* orders whose timer_ends_at has passed
  tabPaid,       \* the tab was settled
  apiCalls,      \* what each call will do, with the rows it read
  apiBegun,      \* calls begun so far
  cron,          \* the same for the job that runs every 30 seconds
  readyBuffer,   \* orders bumped and not announced yet, in memory
  announced,     \* orders whose readiness was announced
  announceFailed, \* history: orders whose announcement was tried and failed
  restarts

kitchenVars == <<kds, kOrders, timesUp, tabPaid, apiCalls, apiBegun, cron, readyBuffer, announced, announceFailed, restarts>>

KStatus == {"none", "held", "pending", "approved", "assigned", "preparing", "ready", "out",
            "delivered", "declined", "cancelled", "removed"}
Cooking == {"approved", "assigned", "preparing"}
Ended == {"delivered", "declined", "cancelled", "removed"}

(* prepaid: the guest must pay before it is cooked; instant: a drink, ready when ordered. *)
KRow == [status: KStatus, timer: BOOLEAN, prepaid: BOOLEAN, instant: BOOLEAN]
NoKRow == [status |-> "none", timer |-> FALSE, prepaid |-> FALSE, instant |-> FALSE]

NoRows == [o \in {} |-> NoKRow]
IdleApi == [does |-> "nothing", seen |-> NoRows]

KitchenInit ==
  /\ kds \in BOOLEAN
  /\ kOrders = [o \in KOrders |-> NoKRow]
  /\ timesUp = {}
  /\ tabPaid = FALSE
  /\ apiCalls = [c \in ApiCalls |-> IdleApi]
  /\ apiBegun = 0
  /\ cron = IdleApi
  /\ readyBuffer = {}
  /\ announced = {}
  /\ announceFailed = {}
  /\ restarts = 0

WithStatus(S) == { o \in KOrders : kOrders[o].status \in S }
Rows(S) == [o \in S |-> kOrders[o]]

---------------------------------------------------------------------------
(* Ordering. *)

(* Mutant: the name the status had before displays existed. *)
ForTheKitchenOld == IF kds THEN "assigned" ELSE "pending_approval"
ForTheKitchen == IF kds THEN "assigned" ELSE "pending"

(* addOrderItems by staff, addItems by a guest; a takeaway guest pays first. *)
PlaceOrder(o) ==
  \E row \in { [NoKRow EXCEPT !.status = ForTheKitchen],
               [NoKRow EXCEPT !.status = "ready", !.instant = TRUE],
               [NoKRow EXCEPT !.status = "held", !.prepaid = TRUE] } :
    /\ kOrders[o].status = "none"
    /\ ~tabPaid
    /\ kOrders' = [kOrders EXCEPT ![o] = row]
    /\ UNCHANGED <<kds, timesUp, tabPaid, apiCalls, apiBegun, cron, readyBuffer, announced, announceFailed, restarts>>

---------------------------------------------------------------------------
(* Staff: each endpoint locks the row, asks for its status and saves. *)

Staff(o, from, row) ==
  /\ kOrders[o].status \in from
  /\ kOrders' = [kOrders EXCEPT ![o] = row]
  /\ UNCHANGED <<kds, tabPaid, apiCalls, apiBegun, cron, announced, announceFailed, restarts>>

To(o, status) == [kOrders[o] EXCEPT !.status = status]

(* With displays the countdown waits for the chef; without, it starts now.  Mutant: it always waits. *)
ApprovedRowUntimed(o) == [kOrders[o] EXCEPT !.status = IF kds THEN "assigned" ELSE "approved", !.timer = FALSE]
ApprovedRow(o) == [kOrders[o] EXCEPT !.status = IF kds THEN "assigned" ELSE "approved", !.timer = ~kds]

(* Mutant: an order that waits for its payment is approved as well. *)
ApprovableAnyway == {"pending", "held"}
Approvable == {"pending"}

Approve(o) ==
  /\ Staff(o, Approvable, ApprovedRow(o))
  /\ timesUp' = timesUp \ {o}
  /\ UNCHANGED readyBuffer

ChefAccept(o) ==
  /\ Staff(o, {"assigned"}, [To(o, "preparing") EXCEPT !.timer = TRUE])
  /\ timesUp' = timesUp \ {o}
  /\ UNCHANGED readyBuffer

(* Mutant: a bump is not announced. *)
BufferedNever(o) == readyBuffer
Buffered(o) == readyBuffer \cup {o}

BumpReady(o) ==
  /\ Staff(o, Cooking, To(o, "ready"))
  /\ readyBuffer' = Buffered(o)
  /\ UNCHANGED timesUp

Decline(o) == Staff(o, {"pending"}, To(o, "declined")) /\ UNCHANGED <<timesUp, readyBuffer>>
ConfirmPickup(o) == Staff(o, {"ready"}, To(o, "out")) /\ UNCHANGED <<timesUp, readyBuffer>>
Deliver(o) == Staff(o, {"ready", "out"}, To(o, "delivered")) /\ UNCHANGED <<timesUp, readyBuffer>>

(* Mutant: a delivered order may be cancelled. *)
CancellableDelivered == KStatus \ {"none", "removed", "declined", "cancelled"}
Cancellable == KStatus \ {"none", "removed", "delivered", "declined", "cancelled"}
Cancel(o) == Staff(o, Cancellable, To(o, "cancelled")) /\ UNCHANGED <<timesUp, readyBuffer>>

---------------------------------------------------------------------------
(* Calls that read and save: the edit of an order, the guest's receipt, the release of prepaid orders *)
(* by the payment, the removal of an order. *)

BeginApi(c, does, S) ==
  /\ apiCalls[c] = IdleApi
  /\ S # {}
  /\ apiBegun < MaxApiCalls
  /\ apiBegun' = apiBegun + 1
  /\ apiCalls' = [apiCalls EXCEPT ![c] = [does |-> does, seen |-> Rows(S)]]
  /\ UNCHANGED <<kds, kOrders, timesUp, cron, readyBuffer, announced, announceFailed, restarts>>

BeginUpdateOrder(c) ==
  /\ \E o \in WithStatus(KStatus \ {"none", "removed"}) : BeginApi(c, "update", {o})
  /\ UNCHANGED tabPaid

BeginConfirmReceived(c) == BeginApi(c, "receive", WithStatus({"ready", "out"})) /\ UNCHANGED tabPaid

BeginRemoveOrder(c) ==
  /\ \E o \in WithStatus({"pending"}) : BeginApi(c, "remove", {o})
  /\ UNCHANGED tabPaid

(* processPayment, once its claim has won. *)
BeginRelease(c) ==
  /\ ~tabPaid
  /\ tabPaid' = TRUE
  /\ BeginApi(c, "release", WithStatus({"held"}))

(* A settlement with nothing to release. *)
Settle ==
  /\ ~tabPaid /\ WithStatus({"held"}) = {}
  /\ tabPaid' = TRUE
  /\ UNCHANGED <<kds, kOrders, timesUp, apiCalls, apiBegun, cron, readyBuffer, announced, announceFailed, restarts>>

(* What a call writes over a row: the release updates the status alone, the others save what they read. *)
Written(call, o) ==
  CASE call.does = "update" -> call.seen[o]
    [] call.does = "receive" -> [call.seen[o] EXCEPT !.status = "delivered"]
    [] call.does = "ripen" -> [call.seen[o] EXCEPT !.status = "ready"]
    [] call.does = "release" -> IF kOrders[o].status = "removed" THEN kOrders[o] ELSE To(o, ForTheKitchen)
    [] call.does = "remove" -> To(o, "removed")
    [] OTHER -> kOrders[o]

Save(call) == [o \in KOrders |-> IF o \in DOMAIN call.seen THEN Written(call, o) ELSE kOrders[o]]

SaveOrders(c) ==
  /\ apiCalls[c] # IdleApi
  /\ kOrders' = Save(apiCalls[c])
  /\ apiCalls' = [apiCalls EXCEPT ![c] = IdleApi]
  /\ UNCHANGED <<kds, timesUp, tabPaid, apiBegun, cron, readyBuffer, announced, announceFailed, restarts>>

---------------------------------------------------------------------------
(* The job, the buffer, time and restarts. *)

CountdownEnds(o) ==
  /\ kOrders[o].timer
  /\ o \notin timesUp
  /\ timesUp' = timesUp \cup {o}
  /\ UNCHANGED <<kds, kOrders, tabPaid, apiCalls, apiBegun, cron, readyBuffer, announced, announceFailed, restarts>>

ReadExpired ==
  LET expired == { o \in WithStatus(Cooking) \cap timesUp : kOrders[o].timer }
  IN /\ cron = IdleApi
     /\ expired # {}
     /\ cron' = [does |-> "ripen", seen |-> Rows(expired)]
     /\ UNCHANGED <<kds, kOrders, timesUp, tabPaid, apiCalls, apiBegun, readyBuffer, announced, announceFailed, restarts>>

SaveReady ==
  /\ cron.does = "ripen"
  /\ kOrders' = Save(cron)
  /\ cron' = [cron EXCEPT !.does = "announce"]
  /\ UNCHANGED <<kds, timesUp, tabPaid, apiCalls, apiBegun, readyBuffer, announced, announceFailed, restarts>>

AnnounceReady ==
  /\ cron.does = "announce"
  /\ announced' = announced \cup DOMAIN cron.seen
  /\ cron' = IdleApi
  /\ UNCHANGED <<kds, kOrders, timesUp, tabPaid, apiCalls, apiBegun, readyBuffer, announceFailed, restarts>>

(* The look-up of the tabs throws, or the notification of this tab or of one before it: the pass ends *)
(* there.  Its orders were saved as ready, so no later pass selects them.                             *)
AnnounceReadyThrows ==
  /\ cron.does = "announce"
  /\ announceFailed' = announceFailed \cup DOMAIN cron.seen
  /\ cron' = IdleApi
  /\ UNCHANGED <<kds, kOrders, timesUp, tabPaid, apiCalls, apiBegun, readyBuffer, announced, restarts>>

ExpireOrderTimers == ReadExpired \/ SaveReady \/ AnnounceReady \/ AnnounceReadyThrows

FlushReadyBuffer ==
  /\ readyBuffer # {}
  /\ announced' = announced \cup readyBuffer
  /\ readyBuffer' = {}
  /\ UNCHANGED <<kds, kOrders, timesUp, tabPaid, apiCalls, apiBegun, cron, announceFailed, restarts>>

(* The buffer is emptied before the tab is looked up: a failed look-up is logged, a tab that is gone or *)
(* a notification that is not inserted leaves the batch unsent.                                         *)
LoseReadyBatch ==
  /\ readyBuffer # {}
  /\ announceFailed' = announceFailed \cup readyBuffer
  /\ readyBuffer' = {}
  /\ UNCHANGED <<kds, kOrders, timesUp, tabPaid, apiCalls, apiBegun, cron, announced, restarts>>

(* A restart forgets what was in flight; a payment still releasing is rolled back. *)
Restart ==
  /\ restarts < MaxRestarts
  /\ restarts' = restarts + 1
  /\ tabPaid' = (tabPaid /\ \A c \in ApiCalls : apiCalls[c].does # "release")
  /\ apiCalls' = [c \in ApiCalls |-> IdleApi]
  /\ cron' = IdleApi
  /\ readyBuffer' = {}
  /\ UNCHANGED <<kds, kOrders, timesUp, apiBegun, announced, announceFailed>>

KitchenNext ==
  \/ \E o \in KOrders :
       \/ PlaceOrder(o) \/ Approve(o) \/ ChefAccept(o) \/ BumpReady(o)
       \/ Decline(o) \/ ConfirmPickup(o) \/ Deliver(o) \/ Cancel(o) \/ CountdownEnds(o)
  \/ \E c \in ApiCalls :
       \/ BeginUpdateOrder(c) \/ BeginConfirmReceived(c) \/ BeginRemoveOrder(c) \/ BeginRelease(c)
       \/ SaveOrders(c)
  \/ Settle \/ ExpireOrderTimers \/ FlushReadyBuffer \/ LoseReadyBatch \/ Restart

(* Time passes, the scheduler calls the job again and again, the runtime fires the buffer's timer, and *)
(* each of these ends, well or badly; nobody has to approve, cook, serve or pay, and no notification   *)
(* has to be inserted.                                                                                 *)
KitchenFairness ==
  /\ \A o \in KOrders : WF_kitchenVars(CountdownEnds(o))
  /\ WF_kitchenVars(ExpireOrderTimers)
  /\ WF_kitchenVars(FlushReadyBuffer \/ LoseReadyBatch)

KitchenSpec == KitchenInit /\ [][KitchenNext]_kitchenVars /\ KitchenFairness

---------------------------------------------------------------------------
(* Orders, calls and buffers have their types. *)
KitchenTypeOK ==
  /\ kds \in BOOLEAN /\ tabPaid \in BOOLEAN
  /\ kOrders \in [KOrders -> KRow]
  /\ timesUp \subseteq KOrders /\ readyBuffer \subseteq KOrders /\ announced \subseteq KOrders
  /\ announceFailed \subseteq KOrders
  /\ \A call \in { apiCalls[c] : c \in ApiCalls } \cup {cron} :
       /\ DOMAIN call.seen \subseteq KOrders
       /\ \A o \in DOMAIN call.seen : call.seen[o] \in KRow
       /\ (call.does = "nothing") <=> (call.seen = NoRows)
  /\ apiBegun \in 0 .. MaxApiCalls
  /\ restarts \in 0 .. MaxRestarts

(* An order a guest must prepay is not in the kitchen, let alone served, before the tab is paid: no *)
(* mixture of approvals, edits, timers and restarts lets it through. *)
HeldUntilPaid ==
  \A o \in KOrders :
    kOrders[o].prepaid /\ kOrders[o].status \in Cooking \cup {"ready", "out", "delivered"} => tabPaid

(* An order that was served, declined, cancelled or removed comes back only when a call saves the copy *)
(* it had read before that: the job, the edit, the receipt, the release. *)
EndedOrdersStayEnded ==
  [][ \A o \in KOrders :
        kOrders[o].status \in Ended /\ kOrders'[o].status # kOrders[o].status =>
          \E call \in { apiCalls[c] : c \in ApiCalls } \cup {cron} :
            /\ o \in DOMAIN call.seen
            /\ call.seen[o].status # kOrders[o].status
            /\ kOrders'[o] = Written(call, o) ]_kitchenVars

(* Without a chef's or supervisor's further help, an order that was approved (no displays) or accepted *)
(* by the chef leaves the kitchen: the job finds it when its countdown is over. *)
TimedOrdersGetReady ==
  \A o \in KOrders :
    kOrders[o].status \in {"approved", "preparing"} ~> kOrders[o].status \notin {"approved", "preparing"}

(* Of every order that a bump or the job made ready, an announcement to the floor is tried: it is made, *)
(* or it failed -- nothing tries it again -- unless the server restarts: the buffer of bumps is in      *)
(* memory, and the job announces after it has saved.                                                    *)
ReadyIsAnnounced ==
  \A o \in KOrders :
    kOrders[o].status = "ready" /\ ~kOrders[o].instant ~>
      o \in announced \cup announceFailed \/ restarts > 0

(* What the kitchen was given leaves it, and the floor hears of it or its announcement failed. *)
KitchenDelivers == TimedOrdersGetReady /\ ReadyIsAnnounced

=============================================================================
