------------------------------ MODULE Delivery ------------------------------
(***************************************************************************)
(* Dispatch of the standalone order groups that guests place for delivery: *)
(* the orders, the deliveries offered to the riders, and the payouts the   *)
(* riders get for them (delivery.service, with the callers in              *)
(* order.service, order.scheduler and customer.service).                   *)
(*                                                                         *)
(* A call is one request, or one run of the timer job; each step is one    *)
(* statement on the database, and what a step read is stale in the next.   *)
(* Only an order's own status change and the payout are transactions.  A   *)
(* call that ends frees its slot for another.  One branch, with delivery   *)
(* enabled; what is sent to sockets and phones is left out, and so is what *)
(* a delivery pays: a batch is the set of deliveries it pays.              *)
(***************************************************************************)
EXTENDS Naturals

CONSTANTS
    Group,      \* tracking codes of order groups picked up by riders
    Order,      \* orders
    GroupOf,    \* GroupOf[o]: the group order o belongs to
    DeliveryId, \* rows of table deliveries
    Rider,      \* riders
    BatchId,    \* rows of table payout_batches
    Call,       \* how many calls run at the same time
    NULL

ASSUME GroupAssumption == GroupOf \in [Order -> Group]
ASSUME NullAssumption == NULL \notin Group \cup DeliveryId \cup Rider \cup BatchId

VARIABLES
    orders,     \* orders.order_status
    deliveries, \* table deliveries: a row, or NULL where there is none yet
    batches,    \* table payout_batches, likewise
    earnings,   \* how many earning rows of rider_ledger refer to the delivery
    calls,      \* the calls under way
    hook        \* history: what became of the last hook for the group

vars == <<orders, deliveries, batches, earnings, calls, hook>>

-----------------------------------------------------------------------------
(* "cooking": any status before READY_FOR_PICKUP; "cancelled": or declined.  *)
OrderStatus ==
    {"none", "cooking", "ready_for_pickup", "out_for_delivery", "delivered", "cancelled"}

(* The code never sets out_for_delivery on a delivery.                       *)
DeliveryStatus == {"pending", "accepted", "handed_over", "delivered", "cancelled"}

DeliveryRow == [group: Group, status: DeliveryStatus, rider: Rider \cup {NULL},
                payout_status: {"pending", "paid"}]

Batch == [rider: Rider, status: {"pending", "completed", "failed"}, pays: SUBSET DeliveryId]

ASSUME RowAssumption == NULL \notin DeliveryRow \cup Batch

PC == {"idle", "find", "create", "save", "accept", "pickup", "hand", "confirm", "receive",
       "cancel", "claim", "complete", "fail"}

CallState ==
    [pc: PC, group: Group \cup {NULL}, delivery: DeliveryId \cup {NULL},
     rider: Rider \cup {NULL}, batch: BatchId \cup {NULL},
     expired: SUBSET Order, candidates: SUBSET DeliveryId]

IdleCall ==
    [pc |-> "idle", group |-> NULL, delivery |-> NULL, rider |-> NULL, batch |-> NULL,
     expired |-> {}, candidates |-> {}]

DeliveryTypeOK ==
    /\ orders \in [Order -> OrderStatus]
    /\ deliveries \in [DeliveryId -> DeliveryRow \cup {NULL}]
    /\ batches \in [BatchId -> Batch \cup {NULL}]
    /\ earnings \in [DeliveryId -> Nat]
    /\ calls \in [Call -> CallState]
    /\ hook \in [Group -> {"none", "called", "interrupted"}]

-----------------------------------------------------------------------------
Exists(d) == deliveries[d] # NULL

Has(d, statuses) == Exists(d) /\ deliveries[d].status \in statuses

-----------------------------------------------------------------------------
(* Mutants: each is a faulty version of the operator below whose name it     *)
(* extends, to see that a property can fail.  Nothing else uses them.        *)

(* A cancelled delivery counts as active. *)
ActiveCancelled(g) == {d \in DeliveryId : Exists(d) /\ deliveries[d].group = g}

(* The payout takes what it read, without asking again. *)
ClaimedUnchecked(D) == D

(* Accepting does not ask whether the delivery is still pending. *)
AcceptWinsAnyway(d) == deliveries[d].status # "cancelled"

(* A delivery is offered with the status of its orders. *)
NewDeliveryReady(g) ==
    [group |-> g, status |-> "ready_for_pickup", rider |-> NULL, payout_status |-> "pending"]

-----------------------------------------------------------------------------
(* What the hook takes for an active delivery: any that was not cancelled,   *)
(* one delivered long ago included.                                          *)
Active(g) == {d \in DeliveryId : Exists(d) /\ deliveries[d].group = g
                                 /\ deliveries[d].status # "cancelled"}

NewDelivery(g) ==
    [group |-> g, status |-> "pending", rider |-> NULL, payout_status |-> "pending"]

(* The deliveries a payout takes for the rider.                              *)
PendingPayouts(r) ==
    {d \in DeliveryId : Has(d, {"delivered"}) /\ deliveries[d].rider = r
                        /\ deliveries[d].payout_status = "pending"}

(* Of those, the ones the conditional UPDATE still finds unpaid.             *)
Claimed(D) == {d \in D : deliveries[d].payout_status = "pending"}

AcceptWins(d) == deliveries[d].status = "pending"

-----------------------------------------------------------------------------
Become(c, k) == calls' = [calls EXCEPT ![c] = k]

End(c) == Become(c, IdleCall)

(* A call begins with a read, and changes nothing with it.                   *)
Starts(c, k) ==
    /\ calls[c].pc = "idle"
    /\ Become(c, k)
    /\ UNCHANGED <<orders, deliveries, batches, earnings, hook>>

SetStatus(d, s) == deliveries' = [deliveries EXCEPT ![d].status = s]

(* setGroupOrderStatus: one UPDATE over the orders of the group.             *)
SetGroupOrders(g, from, to) ==
    orders' = [o \in Order |-> IF GroupOf[o] = g /\ orders[o] \in from THEN to ELSE orders[o]]

-----------------------------------------------------------------------------
(* Orders: added by the guest at any time, bumped in the kitchen, readied by *)
(* the timer, and moved by the staff as any other order.                     *)
AddItems(o) ==
    /\ orders[o] = "none"
    /\ orders' = [orders EXCEPT ![o] = "cooking"]
    /\ UNCHANGED <<deliveries, batches, earnings, calls, hook>>

(* bump commits the order and goes on to the hook.                           *)
Bump(c) ==
    /\ calls[c].pc = "idle"
    /\ \E o \in Order :
          /\ orders[o] = "cooking"
          /\ orders' = [orders EXCEPT ![o] = "ready_for_pickup"]
          /\ Become(c, [IdleCall EXCEPT !.pc = "find", !.group = GroupOf[o]])
          /\ hook' = [hook EXCEPT ![GroupOf[o]] = "called"]
    /\ UNCHANGED <<deliveries, batches, earnings>>

(* The timer job loads the orders whose time is over and saves them ready;   *)
(* it has no hook for orders without a tab.                                  *)
BeginTimer(c) ==
    \E S \in SUBSET {o \in Order : orders[o] = "cooking"} :
        S # {} /\ Starts(c, [IdleCall EXCEPT !.pc = "save", !.expired = S])

SaveExpired(c) ==
    /\ calls[c].pc = "save"
    /\ orders' = [o \in Order |-> IF o \in calls[c].expired THEN "ready_for_pickup"
                                  ELSE orders[o]]
    /\ End(c)
    /\ UNCHANGED <<deliveries, batches, earnings, hook>>

StaffConfirmPickup(o) ==
    /\ orders[o] = "ready_for_pickup"
    /\ orders' = [orders EXCEPT ![o] = "out_for_delivery"]
    /\ UNCHANGED <<deliveries, batches, earnings, calls, hook>>

StaffDeliver(o) ==
    /\ orders[o] \in {"ready_for_pickup", "out_for_delivery"}
    /\ orders' = [orders EXCEPT ![o] = "delivered"]
    /\ UNCHANGED <<deliveries, batches, earnings, calls, hook>>

(* cancel, and decline before the kitchen has it; the delivery stays.        *)
StaffCancel(o) ==
    /\ orders[o] \in {"cooking", "ready_for_pickup", "out_for_delivery"}
    /\ orders' = [orders EXCEPT ![o] = "cancelled"]
    /\ UNCHANGED <<deliveries, batches, earnings, calls, hook>>

-----------------------------------------------------------------------------
(* ensureOnOrdersReady: look for an active delivery of the group, and offer  *)
(* one to the riders if there is none.                                       *)
FindActive(c) ==
    /\ calls[c].pc = "find"
    /\ IF Active(calls[c].group) # {} THEN End(c)
       ELSE Become(c, [calls[c] EXCEPT !.pc = "create"])
    /\ UNCHANGED <<orders, deliveries, batches, earnings, hook>>

(* No index keeps a group from having two: UQ_deliveries_tab_active is on    *)
(* tab_id, which a group does not have.                                      *)
CreateDelivery(c) ==
    /\ calls[c].pc = "create"
    /\ \E d \in DeliveryId :
          /\ ~Exists(d)
          /\ deliveries' = [deliveries EXCEPT ![d] = NewDelivery(calls[c].group)]
    /\ End(c)
    /\ UNCHANGED <<orders, batches, earnings, hook>>

-----------------------------------------------------------------------------
(* accept: the rider's UPDATE asks for the status again, and loses if it is  *)
(* not pending any more; the orders follow in a statement of their own.      *)
BeginAccept(c) ==
    \E d \in DeliveryId, r \in Rider :
        Has(d, {"pending"}) /\ Starts(c, [IdleCall EXCEPT !.pc = "accept", !.delivery = d, !.rider = r])

Accept(c) ==
    LET d == calls[c].delivery
    IN  /\ calls[c].pc = "accept"
        /\ IF AcceptWins(d)
           THEN /\ deliveries' = [deliveries EXCEPT ![d].status = "accepted",
                                                    ![d].rider = calls[c].rider]
                /\ Become(c, [calls[c] EXCEPT !.pc = "pickup"])
           ELSE UNCHANGED deliveries /\ End(c)
        /\ UNCHANGED <<orders, batches, earnings, hook>>

PickUpOrders(c) ==
    /\ calls[c].pc = "pickup"
    /\ SetGroupOrders(deliveries[calls[c].delivery].group, {"ready_for_pickup"}, "out_for_delivery")
    /\ End(c)
    /\ UNCHANGED <<deliveries, batches, earnings, hook>>

(* complete: the rider hands over; the UPDATE does not ask again.            *)
BeginHandOver(c) ==
    \E d \in DeliveryId :
        /\ Has(d, {"accepted"})
        /\ Starts(c, [IdleCall EXCEPT !.pc = "hand", !.delivery = d])

HandOver(c) ==
    /\ calls[c].pc = "hand"
    /\ SetStatus(calls[c].delivery, "handed_over")
    /\ End(c)
    /\ UNCHANGED <<orders, batches, earnings, hook>>

(* confirmCustomerDelivery: the delivery, then every order of the group that *)
(* is ready or out, handed over or not.                                      *)
BeginConfirm(c) ==
    \E d \in DeliveryId :
        /\ Has(d, {"handed_over"})
        /\ Starts(c, [IdleCall EXCEPT !.pc = "confirm", !.delivery = d])

Confirm(c) ==
    /\ calls[c].pc = "confirm"
    /\ SetStatus(calls[c].delivery, "delivered")
    /\ Become(c, [calls[c] EXCEPT !.pc = "receive"])
    /\ UNCHANGED <<orders, batches, earnings, hook>>

ReceiveOrders(c) ==
    /\ calls[c].pc = "receive"
    /\ SetGroupOrders(deliveries[calls[c].delivery].group,
                      {"ready_for_pickup", "out_for_delivery"}, "delivered")
    /\ End(c)
    /\ UNCHANGED <<deliveries, batches, earnings, hook>>

(* reassign: the manager cancels a delivery that was not finished when it    *)
(* was read, and offers a new one.                                           *)
BeginReassign(c) ==
    \E d \in DeliveryId :
        /\ Has(d, {"pending", "accepted", "handed_over"})
        /\ Starts(c, [IdleCall EXCEPT !.pc = "cancel", !.delivery = d,
                                      !.group = deliveries[d].group])

CancelDelivery(c) ==
    /\ calls[c].pc = "cancel"
    /\ SetStatus(calls[c].delivery, "cancelled")
    /\ Become(c, [calls[c] EXCEPT !.pc = "create"])
    /\ UNCHANGED <<orders, batches, earnings, hook>>

-----------------------------------------------------------------------------
(* processRiderPayout: a transaction, in which others may still commit       *)
(* between the look for candidates and the conditional UPDATE that claims    *)
(* them; batch and ledger are written for what was claimed.                  *)
BeginPayout(c) ==
    \E r \in Rider :
        /\ PendingPayouts(r) # {}
        /\ Starts(c, [IdleCall EXCEPT !.pc = "claim", !.rider = r,
                                      !.candidates = PendingPayouts(r)])

ClaimPayout(c) ==
    LET claimed == Claimed(calls[c].candidates)
    IN  /\ calls[c].pc = "claim"
        /\ \/ /\ claimed = {}
              /\ UNCHANGED <<deliveries, batches, earnings>>
           \/ /\ claimed # {}
              /\ deliveries' = [d \in DeliveryId |->
                                  IF d \in claimed THEN [deliveries[d] EXCEPT !.payout_status = "paid"]
                                  ELSE deliveries[d]]
              /\ earnings' = [d \in DeliveryId |->
                                IF d \in claimed THEN earnings[d] + 1 ELSE earnings[d]]
              /\ \E b \in BatchId :
                    /\ batches[b] = NULL
                    /\ batches' = [batches EXCEPT ![b] = [rider |-> calls[c].rider,
                                                          status |-> "pending", pays |-> claimed]]
        /\ End(c)
        /\ UNCHANGED <<orders, hook>>

(* completePayoutBatch and failPayoutBatch ask for a pending batch and save  *)
(* the row they read.                                                        *)
BeginClose(c) ==
    \E b \in BatchId, pc \in {"complete", "fail"} :
        /\ batches[b] # NULL
        /\ batches[b].status = "pending"
        /\ Starts(c, [IdleCall EXCEPT !.pc = pc, !.batch = b])

CloseBatch(c) ==
    /\ calls[c].pc \in {"complete", "fail"}
    /\ batches' = [batches EXCEPT ![calls[c].batch].status =
                      IF calls[c].pc = "complete" THEN "completed" ELSE "failed"]
    /\ End(c)
    /\ UNCHANGED <<orders, deliveries, earnings, hook>>

(* The server stops, or a statement fails: the rest of the call never runs.  *)
Abort(c) ==
    /\ calls[c].pc # "idle"
    /\ hook' = IF calls[c].pc \in {"find", "create"}
               THEN [hook EXCEPT ![calls[c].group] = "interrupted"] ELSE hook
    /\ End(c)
    /\ UNCHANGED <<orders, deliveries, batches, earnings>>

-----------------------------------------------------------------------------
Init ==
    /\ orders = [o \in Order |-> "none"]
    /\ deliveries = [d \in DeliveryId |-> NULL]
    /\ batches = [b \in BatchId |-> NULL]
    /\ earnings = [d \in DeliveryId |-> 0]
    /\ calls = [c \in Call |-> IdleCall]
    /\ hook = [g \in Group |-> "none"]

Step(c) ==
    \/ Bump(c)
    \/ BeginTimer(c)
    \/ SaveExpired(c)
    \/ FindActive(c)
    \/ CreateDelivery(c)
    \/ BeginAccept(c)
    \/ Accept(c)
    \/ PickUpOrders(c)
    \/ BeginHandOver(c)
    \/ HandOver(c)
    \/ BeginConfirm(c)
    \/ Confirm(c)
    \/ ReceiveOrders(c)
    \/ BeginReassign(c)
    \/ CancelDelivery(c)
    \/ BeginPayout(c)
    \/ ClaimPayout(c)
    \/ BeginClose(c)
    \/ CloseBatch(c)
    \/ Abort(c)

Next ==
    \/ \E c \in Call : Step(c)
    \/ \E o \in Order : AddItems(o) \/ StaffConfirmPickup(o) \/ StaffDeliver(o) \/ StaffCancel(o)

Spec == Init /\ [][Next]_vars

-----------------------------------------------------------------------------
(* The flags of the deliveries, the batches and the ledger never disagree,   *)
(* whatever payouts run at once: a delivery is paid exactly when one batch,  *)
(* its own rider's, pays it, and the ledger has one earning for it; and no   *)
(* rider is paid for a delivery that is still offered or on its way.         *)
LedgersAgree ==
    /\ \A d \in DeliveryId :
          LET paid == Exists(d) /\ deliveries[d].payout_status = "paid"
          IN  /\ earnings[d] = IF paid THEN 1 ELSE 0
              /\ paid => ~Has(d, {"pending", "accepted"})
              /\ paid <=> \E b \in BatchId : batches[b] # NULL /\ d \in batches[b].pays
    /\ \A b \in BatchId : batches[b] # NULL =>
          \A d \in batches[b].pays :
              /\ deliveries[d].rider = batches[b].rider
              /\ \A o \in BatchId \ {b} : batches[o] # NULL => d \notin batches[o].pays

(* First accept wins: however many riders accept at once, and whatever is    *)
(* reassigned or handed over late, a delivery never goes from one rider to   *)
(* another, nor back on offer.                                               *)
FirstAcceptWins ==
    [][\A d \in DeliveryId : Exists(d) /\ deliveries[d].rider # NULL =>
          /\ deliveries'[d].rider = deliveries[d].rider
          /\ deliveries'[d].status # "pending"]_vars

Offered(g) ==
    \E d \in DeliveryId : /\ Has(d, {"pending", "accepted", "handed_over", "delivered"})
                         /\ deliveries[d].group = g

AtWork(g) ==
    \E c \in Call : calls[c].pc \in {"find", "create"} /\ calls[c].group = g

(* Once the kitchen bumped an order of a group, the group never stays        *)
(* without a delivery: not when the hooks of two orders, a reassignment and  *)
(* late writes of riders cross each other, unless one of them was cut off.   *)
BumpedHasDelivery ==
    \A g \in Group : hook[g] = "called" => Offered(g) \/ AtWork(g)

(* Doc: a pending delivery is ensured whenever an order becomes ready for    *)
(* pickup (comment above ensureOnOrdersReady).                               *)
ReadyHasDelivery ==
    \A o \in Order : orders[o] = "ready_for_pickup" =>
        Offered(GroupOf[o]) \/ AtWork(GroupOf[o]) \/ hook[GroupOf[o]] = "interrupted"

=============================================================================
