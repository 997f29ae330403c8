---------------------------- MODULE DeliveryProofs ----------------------------
(***************************************************************************)
(* Proofs about module Delivery, for any number of groups, orders,         *)
(* deliveries, riders, batches and calls.                                  *)
(***************************************************************************)
EXTENDS Delivery, TLAPS

-----------------------------------------------------------------------------
(* The inductive invariant.                                                  *)

(* What a call may rely on between its statements: the delivery it read is   *)
(* still there, and a candidate of a payout is still the rider's and         *)
(* neither on offer nor on its way.                                          *)
CallOK(c) ==
    /\ calls[c].pc \in {"find", "create", "cancel"} => calls[c].group \in Group
    /\ calls[c].pc \in {"accept", "pickup", "hand", "confirm", "receive", "cancel"}
          => calls[c].delivery \in DeliveryId /\ Exists(calls[c].delivery)
    /\ calls[c].pc = "cancel" => calls[c].group = deliveries[calls[c].delivery].group
    /\ calls[c].pc = "accept" => calls[c].rider \in Rider
    /\ calls[c].pc = "claim" =>
          /\ calls[c].rider \in Rider
          /\ \A d \in calls[c].candidates :
                /\ Exists(d)
                /\ deliveries[d].rider = calls[c].rider
                /\ deliveries[d].status \notin {"pending", "accepted"}
    /\ calls[c].pc \in {"complete", "fail"}
          => calls[c].batch \in BatchId /\ batches[calls[c].batch] # NULL

(* Nobody carries a delivery that is on offer.                               *)
OfferedIsFree ==
    \A d \in DeliveryId : Has(d, {"pending"}) => deliveries[d].rider = NULL

Inv ==
    /\ DeliveryTypeOK
    /\ \A c \in Call : CallOK(c)
    /\ OfferedIsFree
    /\ LedgersAgree
    /\ BumpedHasDelivery

(* What a step does to the rows of the deliveries and the batches: they stay,*)
(* a delivery stays in its group and with its rider, and goes neither back   *)
(* on offer nor back on its way.                                             *)
RowsKept ==
    /\ \A d \in DeliveryId : Exists(d) =>
          /\ Exists(d)'
          /\ deliveries'[d].group = deliveries[d].group
          /\ deliveries[d].status # "pending" =>
                deliveries'[d].status # "pending" /\ deliveries'[d].rider = deliveries[d].rider
          /\ deliveries[d].status \notin {"pending", "accepted"} =>
                deliveries'[d].status \notin {"pending", "accepted"}
    /\ \A b \in BatchId : batches[b] # NULL => batches'[b] # NULL

-----------------------------------------------------------------------------
(* Every variable keeps its type.                                            *)

LEMMA InitInv == Init => Inv
<1> SUFFICES ASSUME Init PROVE Inv
  OBVIOUS
<1> USE NullAssumption, RowAssumption
<1>1. DeliveryTypeOK
  BY DEF Init, DeliveryTypeOK, OrderStatus, CallState, IdleCall, PC
<1>2. \A c \in Call : CallOK(c)
  BY DEF Init, CallOK, IdleCall
<1>3. OfferedIsFree /\ LedgersAgree
  BY DEF Init, OfferedIsFree, LedgersAgree, Has, Exists
<1>4. BumpedHasDelivery
  BY DEF Init, BumpedHasDelivery
<1> QED
  BY <1>1, <1>2, <1>3, <1>4 DEF Inv

LEMMA BecomeType ==
    ASSUME DeliveryTypeOK, NEW c \in Call, NEW k \in CallState, Become(c, k)
    PROVE  /\ calls' \in [Call -> CallState]
           /\ calls'[c] = k
           /\ \A o \in Call : o # c => calls'[o] = calls[o]
  BY DEF DeliveryTypeOK, Become

LEMMA IdleType == IdleCall \in CallState
  BY DEF IdleCall, CallState, PC

LEMMA StatusType ==
    ASSUME DeliveryTypeOK, NEW d \in DeliveryId, Exists(d), NEW s \in DeliveryStatus,
           SetStatus(d, s)
    PROVE  deliveries' \in [DeliveryId -> DeliveryRow \cup {NULL}]
  BY RowAssumption DEF DeliveryTypeOK, Exists, SetStatus, DeliveryRow

LEMMA OrdersType ==
    ASSUME DeliveryTypeOK, NEW g, NEW from, NEW to \in OrderStatus, SetGroupOrders(g, from, to)
    PROVE  orders' \in [Order -> OrderStatus]
  BY DEF DeliveryTypeOK, SetGroupOrders

LEMMA StepType ==
    ASSUME Inv, NEW c \in Call, Step(c)
    PROVE  DeliveryTypeOK'
<1> USE NullAssumption, RowAssumption, GroupAssumption, IdleType
<1> DeliveryTypeOK /\ CallOK(c)
  BY DEF Inv
<1> calls[c] \in CallState
  BY DEF DeliveryTypeOK
<1>1. CASE Bump(c)
  <2> PICK o \in Order :
          /\ orders' = [orders EXCEPT ![o] = "ready_for_pickup"]
          /\ Become(c, [IdleCall EXCEPT !.pc = "find", !.group = GroupOf[o]])
          /\ hook' = [hook EXCEPT ![GroupOf[o]] = "called"]
    BY <1>1 DEF Bump
  <2>1. [IdleCall EXCEPT !.pc = "find", !.group = GroupOf[o]] \in CallState
    BY DEF IdleCall, CallState, PC
  <2>2. calls' \in [Call -> CallState]
    BY <2>1, BecomeType
  <2> QED
    BY <1>1, <2>2 DEF Bump, DeliveryTypeOK, OrderStatus
<1>2. CASE BeginTimer(c)
  <2> PICK S \in SUBSET Order : Starts(c, [IdleCall EXCEPT !.pc = "save", !.expired = S])
    BY <1>2 DEF BeginTimer
  <2>1. [IdleCall EXCEPT !.pc = "save", !.expired = S] \in CallState
    BY DEF IdleCall, CallState, PC
  <2> QED
    BY <2>1, BecomeType DEF Starts, DeliveryTypeOK
<1>3. CASE SaveExpired(c)
  BY <1>3, BecomeType DEF SaveExpired, End, DeliveryTypeOK, OrderStatus
<1>4. CASE FindActive(c)
  <2>1. [calls[c] EXCEPT !.pc = "create"] \in CallState
    BY DEF CallState, PC
  <2> QED
    BY <1>4, <2>1, BecomeType DEF FindActive, End, DeliveryTypeOK
<1>5. CASE CreateDelivery(c)
  <2> PICK d \in DeliveryId : deliveries' = [deliveries EXCEPT ![d] = NewDelivery(calls[c].group)]
    BY <1>5 DEF CreateDelivery
  <2>1. NewDelivery(calls[c].group) \in DeliveryRow
    BY <1>5 DEF CreateDelivery, CallOK, NewDelivery, DeliveryRow, DeliveryStatus
  <2> QED
    BY <1>5, <2>1, BecomeType DEF CreateDelivery, End, DeliveryTypeOK
<1>6. CASE BeginAccept(c)
  <2> PICK d \in DeliveryId, r \in Rider :
          Starts(c, [IdleCall EXCEPT !.pc = "accept", !.delivery = d, !.rider = r])
    BY <1>6 DEF BeginAccept
  <2>1. [IdleCall EXCEPT !.pc = "accept", !.delivery = d, !.rider = r] \in CallState
    BY DEF IdleCall, CallState, PC
  <2> QED
    BY <2>1, BecomeType DEF Starts, DeliveryTypeOK
<1>7. CASE Accept(c)
  <2> DEFINE d == calls[c].delivery
  <2>1. d \in DeliveryId /\ deliveries[d] \in DeliveryRow /\ calls[c].rider \in Rider
    BY <1>7 DEF Accept, CallOK, Exists, DeliveryTypeOK
  <2>2. CASE AcceptWins(d)
    <3>1. [calls[c] EXCEPT !.pc = "pickup"] \in CallState
      BY DEF CallState, PC
    <3>2. calls' \in [Call -> CallState]
      BY <1>7, <2>2, <3>1, BecomeType DEF Accept
    <3>3. deliveries' = [deliveries EXCEPT ![d].status = "accepted", ![d].rider = calls[c].rider]
      BY <1>7, <2>2 DEF Accept
    <3>4. deliveries' = [deliveries EXCEPT ![d] = [deliveries[d] EXCEPT !.status = "accepted",
                                                                         !.rider = calls[c].rider]]
      BY <3>3, <2>1 DEF DeliveryTypeOK
    <3>5. [deliveries[d] EXCEPT !.status = "accepted", !.rider = calls[c].rider] \in DeliveryRow
      BY <2>1 DEF DeliveryRow, DeliveryStatus
    <3> QED
      BY <1>7, <2>1, <3>2, <3>4, <3>5 DEF Accept, DeliveryTypeOK
  <2>3. CASE ~AcceptWins(d)
    BY <1>7, <2>3, BecomeType DEF Accept, End, DeliveryTypeOK
  <2> QED
    BY <2>2, <2>3
<1>8. CASE PickUpOrders(c)
  <2>1. orders' \in [Order -> OrderStatus]
    BY <1>8, OrdersType DEF PickUpOrders, OrderStatus
  <2> QED
    BY <1>8, <2>1, BecomeType DEF PickUpOrders, End, DeliveryTypeOK
<1>9. CASE BeginHandOver(c)
  <2> PICK d \in DeliveryId : Starts(c, [IdleCall EXCEPT !.pc = "hand", !.delivery = d])
    BY <1>9 DEF BeginHandOver
  <2>1. [IdleCall EXCEPT !.pc = "hand", !.delivery = d] \in CallState
    BY DEF IdleCall, CallState, PC
  <2> QED
    BY <2>1, BecomeType DEF Starts, DeliveryTypeOK
<1>10. CASE HandOver(c)
  <2>1. deliveries' \in [DeliveryId -> DeliveryRow \cup {NULL}]
    BY <1>10, StatusType DEF HandOver, CallOK, DeliveryStatus
  <2> QED
    BY <1>10, <2>1, BecomeType DEF HandOver, End, DeliveryTypeOK
<1>11. CASE BeginConfirm(c)
  <2> PICK d \in DeliveryId : Starts(c, [IdleCall EXCEPT !.pc = "confirm", !.delivery = d])
    BY <1>11 DEF BeginConfirm
  <2>1. [IdleCall EXCEPT !.pc = "confirm", !.delivery = d] \in CallState
    BY DEF IdleCall, CallState, PC
  <2> QED
    BY <2>1, BecomeType DEF Starts, DeliveryTypeOK
<1>12. CASE Confirm(c)
  <2>1. deliveries' \in [DeliveryId -> DeliveryRow \cup {NULL}]
    BY <1>12, StatusType DEF Confirm, CallOK, DeliveryStatus
  <2>2. [calls[c] EXCEPT !.pc = "receive"] \in CallState
    BY DEF CallState, PC
  <2> QED
    BY <1>12, <2>1, <2>2, BecomeType DEF Confirm, DeliveryTypeOK
<1>13. CASE ReceiveOrders(c)
  <2>1. orders' \in [Order -> OrderStatus]
    BY <1>13, OrdersType DEF ReceiveOrders, OrderStatus
  <2> QED
    BY <1>13, <2>1, BecomeType DEF ReceiveOrders, End, DeliveryTypeOK
<1>14. CASE BeginReassign(c)
  <2> PICK d \in DeliveryId :
          /\ Has(d, {"pending", "accepted", "handed_over"})
          /\ Starts(c, [IdleCall EXCEPT !.pc = "cancel", !.delivery = d,
                                        !.group = deliveries[d].group])
    BY <1>14 DEF BeginReassign
  <2>1. deliveries[d].group \in Group
    BY DEF Has, Exists, DeliveryTypeOK, DeliveryRow
  <2>2. [IdleCall EXCEPT !.pc = "cancel", !.delivery = d, !.group = deliveries[d].group] \in CallState
    BY <2>1 DEF IdleCall, CallState, PC
  <2> QED
    BY <2>2, BecomeType DEF Starts, DeliveryTypeOK
<1>15. CASE CancelDelivery(c)
  <2>1. deliveries' \in [DeliveryId -> DeliveryRow \cup {NULL}]
    BY <1>15, StatusType DEF CancelDelivery, CallOK, DeliveryStatus
  <2>2. [calls[c] EXCEPT !.pc = "create"] \in CallState
    BY DEF CallState, PC
  <2> QED
    BY <1>15, <2>1, <2>2, BecomeType DEF CancelDelivery, DeliveryTypeOK
<1>16. CASE BeginPayout(c)
  <2> PICK r \in Rider : Starts(c, [IdleCall EXCEPT !.pc = "claim", !.rider = r,
                                                    !.candidates = PendingPayouts(r)])
    BY <1>16 DEF BeginPayout
  <2>1. [IdleCall EXCEPT !.pc = "claim", !.rider = r, !.candidates = PendingPayouts(r)] \in CallState
    BY DEF IdleCall, CallState, PC, PendingPayouts
  <2> QED
    BY <2>1, BecomeType DEF Starts, DeliveryTypeOK
<1>17. CASE ClaimPayout(c)
  <2> DEFINE claimed == Claimed(calls[c].candidates)
  <2>1. claimed \subseteq DeliveryId /\ \A d \in claimed : deliveries[d] \in DeliveryRow
    BY <1>17 DEF ClaimPayout, Claimed, CallOK, CallState, Exists, DeliveryTypeOK
  <2>2. CASE UNCHANGED <<deliveries, batches, earnings>>
    BY <1>17, <2>2, BecomeType DEF ClaimPayout, End, DeliveryTypeOK
  <2>3. CASE claimed # {}
    <3>1. \A d \in claimed : [deliveries[d] EXCEPT !.payout_status = "paid"] \in DeliveryRow
      BY <2>1 DEF DeliveryRow
    <3>2. deliveries' \in [DeliveryId -> DeliveryRow \cup {NULL}]
      BY <1>17, <2>3, <3>1 DEF ClaimPayout, DeliveryTypeOK
    <3>3. earnings' \in [DeliveryId -> Nat]
      BY <1>17, <2>3 DEF ClaimPayout, DeliveryTypeOK
    <3>4. calls[c].rider \in Rider
      BY <1>17 DEF ClaimPayout, CallOK
    <3>5. [rider |-> calls[c].rider, status |-> "pending", pays |-> claimed] \in Batch
      BY <2>1, <3>4 DEF Batch
    <3>6. batches' \in [BatchId -> Batch \cup {NULL}]
      BY <1>17, <2>3, <3>5 DEF ClaimPayout, DeliveryTypeOK
    <3> QED
      BY <1>17, <3>2, <3>3, <3>6, BecomeType DEF ClaimPayout, End, DeliveryTypeOK
  <2> QED
    BY <1>17, <2>2, <2>3 DEF ClaimPayout
<1>18. CASE BeginClose(c)
  <2> PICK b \in BatchId, pc \in {"complete", "fail"} :
          Starts(c, [IdleCall EXCEPT !.pc = pc, !.batch = b])
    BY <1>18 DEF BeginClose
  <2>1. [IdleCall EXCEPT !.pc = pc, !.batch = b] \in CallState
    BY DEF IdleCall, CallState, PC
  <2> QED
    BY <2>1, BecomeType DEF Starts, DeliveryTypeOK
<1>19. CASE CloseBatch(c)
  <2>1. calls[c].batch \in BatchId /\ batches[calls[c].batch] \in Batch
    BY <1>19 DEF CloseBatch, CallOK, DeliveryTypeOK
  <2>2. batches' \in [BatchId -> Batch \cup {NULL}]
    BY <1>19, <2>1 DEF CloseBatch, Batch, DeliveryTypeOK
  <2> QED
    BY <1>19, <2>2, BecomeType DEF CloseBatch, End, DeliveryTypeOK
<1>20. CASE Abort(c)
  <2>1. hook' \in [Group -> {"none", "called", "interrupted"}]
    BY <1>20 DEF Abort, DeliveryTypeOK
  <2> QED
    BY <1>20, <2>1, BecomeType DEF Abort, End, DeliveryTypeOK
<1> QED
  BY <1>1, <1>2, <1>3, <1>4, <1>5, <1>6, <1>7, <1>8, <1>9, <1>10, <1>11, <1>12, <1>13, <1>14,
     <1>15, <1>16, <1>17, <1>18, <1>19, <1>20 DEF Step

LEMMA NextType == Inv /\ [Next]_vars => DeliveryTypeOK'
<1> SUFFICES ASSUME Inv, [Next]_vars PROVE DeliveryTypeOK'
  OBVIOUS
<1>1. CASE \E c \in Call : Step(c)
  BY <1>1, StepType
<1>2. CASE \E o \in Order : AddItems(o) \/ StaffConfirmPickup(o) \/ StaffDeliver(o) \/ StaffCancel(o)
  BY <1>2 DEF Inv, DeliveryTypeOK, AddItems, StaffConfirmPickup, StaffDeliver,
     StaffCancel, OrderStatus
<1>3. CASE UNCHANGED vars
  BY <1>3 DEF Inv, DeliveryTypeOK, vars
<1> QED
  BY <1>1, <1>2, <1>3 DEF Next

-----------------------------------------------------------------------------
(* The rows of deliveries and batches are kept, and with them what the other *)
(* calls know of them.                                                       *)

LEMMA StepRows ==
    ASSUME Inv, NEW c \in Call, Step(c)
    PROVE  RowsKept
<1> USE RowAssumption
<1> DeliveryTypeOK /\ CallOK(c) /\ OfferedIsFree
  BY DEF Inv
<1>1. CASE UNCHANGED <<deliveries, batches>>
  BY <1>1 DEF RowsKept, Exists
<1>2. CASE CreateDelivery(c)
  <2> PICK d \in DeliveryId : /\ ~Exists(d)
                              /\ deliveries' = [deliveries EXCEPT ![d] = NewDelivery(calls[c].group)]
    BY <1>2 DEF CreateDelivery
  <2>1. \A e \in DeliveryId : Exists(e) => deliveries'[e] = deliveries[e]
    BY DEF DeliveryTypeOK
  <2> QED
    BY <1>2, <2>1 DEF CreateDelivery, RowsKept, Exists
<1>3. CASE Accept(c)
  <2> DEFINE d == calls[c].delivery
  <2>1. d \in DeliveryId /\ deliveries[d] \in DeliveryRow
    BY <1>3 DEF Accept, CallOK, Exists, DeliveryTypeOK
  <2>2. CASE AcceptWins(d)
    <3>1. deliveries' = [deliveries EXCEPT ![d].status = "accepted", ![d].rider = calls[c].rider]
      BY <1>3, <2>2 DEF Accept
    <3>2. deliveries'[d] = [deliveries[d] EXCEPT !.status = "accepted", !.rider = calls[c].rider]
      BY <3>1, <2>1 DEF DeliveryTypeOK
    <3>3. \A e \in DeliveryId \ {d} : deliveries'[e] = deliveries[e]
      BY <3>1 DEF DeliveryTypeOK
    <3>4. deliveries'[d] \in [group : Group, status : {"accepted"}, rider : {calls[c].rider},
                              payout_status : {"pending", "paid"}]
      BY <3>2, <2>1 DEF DeliveryRow
    <3>5. deliveries'[d].group = deliveries[d].group
      BY <3>2, <2>1 DEF DeliveryRow
    <3>6. deliveries'[d] # NULL
      BY <2>1, <3>2, <1>3, NullAssumption DEF DeliveryRow, DeliveryStatus, Accept, CallOK
    <3>7. deliveries[d].status = "pending"
      BY <2>2 DEF AcceptWins
    <3> QED
      BY <1>3, <3>3, <3>5, <3>6, <3>7 DEF Accept, RowsKept, Exists
  <2>3. CASE ~AcceptWins(d)
    BY <1>1, <1>3, <2>3 DEF Accept
  <2> QED
    BY <2>2, <2>3
<1>4. ASSUME NEW s \in {"handed_over", "delivered", "cancelled"}, calls[c].delivery \in DeliveryId,
             Exists(calls[c].delivery), SetStatus(calls[c].delivery, s), UNCHANGED batches
      PROVE  RowsKept
  <2> DEFINE d == calls[c].delivery
  <2>1. deliveries[d] \in DeliveryRow
    BY <1>4 DEF Exists, DeliveryTypeOK
  <2>2. deliveries'[d] = [deliveries[d] EXCEPT !.status = s]
    BY <1>4 DEF SetStatus, DeliveryTypeOK
  <2>3. deliveries'[d] \in DeliveryRow
    BY <2>1, <2>2, <1>4 DEF DeliveryRow, DeliveryStatus
  <2>4. /\ deliveries'[d].group = deliveries[d].group
        /\ deliveries'[d].rider = deliveries[d].rider
        /\ deliveries'[d].status = s
    BY <2>1, <2>2 DEF DeliveryRow
  <2>5. \A e \in DeliveryId \ {d} : deliveries'[e] = deliveries[e]
    BY <1>4 DEF SetStatus, DeliveryTypeOK
  <2> QED
    BY <1>4, <2>3, <2>4, <2>5 DEF RowsKept, Exists
<1>5. CASE HandOver(c)
  BY <1>4, <1>5 DEF HandOver, CallOK
<1>6. CASE Confirm(c)
  BY <1>4, <1>6 DEF Confirm, CallOK
<1>7. CASE CancelDelivery(c)
  BY <1>4, <1>7 DEF CancelDelivery, CallOK
<1>8. CASE ClaimPayout(c)
  <2> DEFINE claimed == Claimed(calls[c].candidates)
  <2>1. CASE claimed # {}
    <3>1. \A d \in DeliveryId : Exists(d) => deliveries[d] \in DeliveryRow
      BY DEF Exists, DeliveryTypeOK
    <3>2. \A d \in DeliveryId : Exists(d) =>
              deliveries'[d] \in {deliveries[d], [deliveries[d] EXCEPT !.payout_status = "paid"]}
      BY <1>8, <2>1 DEF ClaimPayout
    <3>3. \A d \in DeliveryId : Exists(d) =>
              /\ deliveries'[d] \in DeliveryRow
              /\ deliveries'[d].group = deliveries[d].group
              /\ deliveries'[d].rider = deliveries[d].rider
              /\ deliveries'[d].status = deliveries[d].status
      BY <3>1, <3>2 DEF DeliveryRow
    <3>4. \A b \in BatchId : batches[b] # NULL => batches'[b] # NULL
      BY <1>8, <2>1 DEF ClaimPayout, DeliveryTypeOK
    <3> QED
      BY <3>3, <3>4 DEF RowsKept, Exists
  <2> QED
    BY <1>1, <1>8, <2>1 DEF ClaimPayout
<1>9. CASE CloseBatch(c)
  <2>1. calls[c].batch \in BatchId /\ batches[calls[c].batch] \in Batch
    BY <1>9 DEF CloseBatch, CallOK, DeliveryTypeOK
  <2>2. batches'[calls[c].batch] \in Batch
    BY <1>9, <2>1 DEF CloseBatch, DeliveryTypeOK, Batch
  <2>3. \A b \in BatchId \ {calls[c].batch} : batches'[b] = batches[b]
    BY <1>9 DEF CloseBatch, DeliveryTypeOK
  <2> QED
    BY <1>9, <2>2, <2>3 DEF CloseBatch, RowsKept, Exists
<1> QED
  BY <1>1, <1>2, <1>3, <1>5, <1>6, <1>7, <1>8, <1>9 DEF Step, Bump, BeginTimer, SaveExpired,
     FindActive, BeginAccept, PickUpOrders, BeginHandOver, BeginConfirm, ReceiveOrders,
     BeginReassign, BeginPayout, BeginClose, Abort, Starts

LEMMA NextRows == Inv /\ [Next]_vars => RowsKept
<1> SUFFICES ASSUME Inv, [Next]_vars PROVE RowsKept
  OBVIOUS
<1>1. CASE \E c \in Call : Step(c)
  BY <1>1, StepRows
<1>2. CASE UNCHANGED <<deliveries, batches>>
  BY <1>2 DEF RowsKept, Exists
<1> QED
  BY <1>1, <1>2 DEF Next, vars, AddItems, StaffConfirmPickup, StaffDeliver, StaffCancel

LEMMA OtherCall ==
    ASSUME Inv, RowsKept, NEW c \in Call, calls'[c] = calls[c]
    PROVE  CallOK(c)'
<1> CallOK(c)
  BY DEF Inv
<1>1. calls[c].candidates \subseteq DeliveryId
  BY DEF Inv, DeliveryTypeOK, CallState
<1>2. ASSUME calls[c].pc = "claim", NEW d \in calls[c].candidates
      PROVE  /\ Exists(d)'
             /\ deliveries'[d].rider = calls[c].rider
             /\ deliveries'[d].status \notin {"pending", "accepted"}
  BY <1>1, <1>2 DEF CallOK, RowsKept
<1> QED
  BY <1>2 DEF CallOK, RowsKept, Exists

LEMMA IdleCallOK ==
    ASSUME NEW c \in Call, calls'[c] = IdleCall
    PROVE  CallOK(c)'
  BY DEF CallOK, IdleCall

LEMMA StepCalls ==
    ASSUME Inv, NEW c \in Call, Step(c)
    PROVE  \A o \in Call : CallOK(o)'
<1> DeliveryTypeOK /\ DeliveryTypeOK' /\ CallOK(c) /\ RowsKept
  BY StepType, StepRows DEF Inv
<1> calls[c] \in CallState /\ calls'[c] \in CallState
  BY DEF DeliveryTypeOK
<1>1. \E k : Become(c, k)
  <2>1. CASE SaveExpired(c) \/ CreateDelivery(c) \/ PickUpOrders(c) \/ HandOver(c)
             \/ ReceiveOrders(c) \/ ClaimPayout(c) \/ CloseBatch(c) \/ Abort(c)
    BY <2>1 DEF SaveExpired, CreateDelivery, PickUpOrders, HandOver, ReceiveOrders, ClaimPayout,
       CloseBatch, Abort, End
  <2>2. CASE Bump(c) \/ FindActive(c) \/ Accept(c) \/ Confirm(c) \/ CancelDelivery(c)
    BY <2>2 DEF Bump, FindActive, Accept, Confirm, CancelDelivery, End
  <2>3. CASE BeginTimer(c) \/ BeginAccept(c) \/ BeginHandOver(c) \/ BeginConfirm(c)
             \/ BeginReassign(c) \/ BeginPayout(c) \/ BeginClose(c)
    BY <2>3 DEF BeginTimer, BeginAccept, BeginHandOver, BeginConfirm, BeginReassign, BeginPayout,
       BeginClose, Starts
  <2> QED
    BY <2>1, <2>2, <2>3 DEF Step
<1>2. \A k : Become(c, k) => calls'[c] = k
  BY DEF Become, DeliveryTypeOK
<1> SUFFICES CallOK(c)'
  <2>1. \A o \in Call \ {c} : calls'[o] = calls[o]
    BY <1>1 DEF Become, DeliveryTypeOK
  <2> QED
    BY <2>1, OtherCall
<1>3. CASE End(c)
  BY <1>2, <1>3, IdleCallOK DEF End
<1>4. CASE Bump(c)
  <2> PICK o \in Order : Become(c, [IdleCall EXCEPT !.pc = "find", !.group = GroupOf[o]])
    BY <1>4 DEF Bump
  <2>1. calls'[c] = [IdleCall EXCEPT !.pc = "find", !.group = GroupOf[o]]
    BY <1>2
  <2>2. calls'[c].pc = "find" /\ calls'[c].group \in Group
    BY <2>1, GroupAssumption DEF IdleCall
  <2> QED
    BY <2>2 DEF CallOK
<1>5. CASE BeginTimer(c)
  <2> PICK S \in SUBSET Order : Starts(c, [IdleCall EXCEPT !.pc = "save", !.expired = S])
    BY <1>5 DEF BeginTimer
  <2>1. calls'[c].pc = "save"
    BY <1>2 DEF Starts, IdleCall
  <2> QED
    BY <2>1 DEF CallOK
<1>6. CASE Become(c, [calls[c] EXCEPT !.pc = "create"]) /\ calls[c].group \in Group
  <2>1. calls'[c] = [calls[c] EXCEPT !.pc = "create"]
    BY <1>2, <1>6
  <2>2. calls'[c].pc = "create" /\ calls'[c].group = calls[c].group
    BY <2>1 DEF CallState
  <2> QED
    BY <1>6, <2>2 DEF CallOK
<1>7. CASE FindActive(c)
  BY <1>3, <1>6, <1>7 DEF FindActive, CallOK
<1>8. CASE CancelDelivery(c)
  BY <1>6, <1>8 DEF CancelDelivery, CallOK
<1>9. CASE BeginAccept(c)
  <2> PICK d \in DeliveryId, r \in Rider :
          /\ Has(d, {"pending"})
          /\ Starts(c, [IdleCall EXCEPT !.pc = "accept", !.delivery = d, !.rider = r])
    BY <1>9 DEF BeginAccept
  <2>1. calls'[c] = [IdleCall EXCEPT !.pc = "accept", !.delivery = d, !.rider = r]
    BY <1>2 DEF Starts
  <2>2. calls'[c].pc = "accept" /\ calls'[c].delivery = d /\ calls'[c].rider = r
    BY <2>1 DEF IdleCall
  <2> QED
    BY <2>2 DEF CallOK, RowsKept, Has, Exists
<1>10. ASSUME NEW pc \in {"pickup", "receive"}, Become(c, [calls[c] EXCEPT !.pc = pc]),
              calls[c].delivery \in DeliveryId, Exists(calls[c].delivery)
       PROVE  CallOK(c)'
  <2>1. calls'[c] = [calls[c] EXCEPT !.pc = pc]
    BY <1>2, <1>10
  <2>2. calls'[c].pc = pc /\ calls'[c].delivery = calls[c].delivery
    BY <2>1 DEF CallState
  <2> QED
    BY <1>10, <2>2 DEF CallOK, RowsKept, Exists
<1>11. CASE Accept(c)
  BY <1>3, <1>10, <1>11 DEF Accept, CallOK
<1>12. CASE Confirm(c)
  BY <1>10, <1>12 DEF Confirm, CallOK
<1>13. ASSUME NEW pc \in {"hand", "confirm"}, NEW d \in DeliveryId, Exists(d),
              Starts(c, [IdleCall EXCEPT !.pc = pc, !.delivery = d])
       PROVE  CallOK(c)'
  <2>1. calls'[c] = [IdleCall EXCEPT !.pc = pc, !.delivery = d]
    BY <1>2, <1>13 DEF Starts
  <2>2. calls'[c].pc = pc /\ calls'[c].delivery = d
    BY <2>1 DEF IdleCall
  <2> QED
    BY <1>13, <2>2 DEF CallOK, RowsKept, Exists
<1>14. CASE BeginHandOver(c) \/ BeginConfirm(c)
  BY <1>13, <1>14 DEF BeginHandOver, BeginConfirm, Has
<1>15. CASE BeginReassign(c)
  <2> PICK d \in DeliveryId :
          /\ Has(d, {"pending", "accepted", "handed_over"})
          /\ Starts(c, [IdleCall EXCEPT !.pc = "cancel", !.delivery = d,
                                        !.group = deliveries[d].group])
    BY <1>15 DEF BeginReassign
  <2>1. calls'[c] = [IdleCall EXCEPT !.pc = "cancel", !.delivery = d, !.group = deliveries[d].group]
    BY <1>2 DEF Starts
  <2>2. /\ calls'[c].pc = "cancel"
        /\ calls'[c].delivery = d
        /\ calls'[c].group = deliveries[d].group
    BY <2>1 DEF IdleCall
  <2>3. deliveries[d].group \in Group
    BY DEF Has, Exists, DeliveryTypeOK, DeliveryRow
  <2> QED
    BY <2>2, <2>3 DEF CallOK, RowsKept, Has, Exists
<1>16. CASE BeginPayout(c)
  <2> PICK r \in Rider : Starts(c, [IdleCall EXCEPT !.pc = "claim", !.rider = r,
                                                    !.candidates = PendingPayouts(r)])
    BY <1>16 DEF BeginPayout
  <2>1. calls'[c] = [IdleCall EXCEPT !.pc = "claim", !.rider = r, !.candidates = PendingPayouts(r)]
    BY <1>2 DEF Starts
  <2>2. /\ calls'[c].pc = "claim"
        /\ calls'[c].rider = r
        /\ calls'[c].candidates = PendingPayouts(r)
    BY <2>1 DEF IdleCall
  <2>3. \A d \in PendingPayouts(r) :
           /\ Exists(d)'
           /\ deliveries'[d].rider = r
           /\ deliveries'[d].status \notin {"pending", "accepted"}
    BY DEF PendingPayouts, Has, RowsKept, Exists
  <2> QED
    BY <2>2, <2>3 DEF CallOK
<1>17. CASE BeginClose(c)
  <2> PICK b \in BatchId, pc \in {"complete", "fail"} :
          /\ batches[b] # NULL
          /\ Starts(c, [IdleCall EXCEPT !.pc = pc, !.batch = b])
    BY <1>17 DEF BeginClose
  <2>1. calls'[c] = [IdleCall EXCEPT !.pc = pc, !.batch = b]
    BY <1>2 DEF Starts
  <2>2. calls'[c].pc = pc /\ calls'[c].batch = b
    BY <2>1 DEF IdleCall
  <2> QED
    BY <2>2 DEF CallOK, RowsKept, Exists
<1> QED
  BY <1>3, <1>4, <1>5, <1>7, <1>8, <1>9, <1>11, <1>12, <1>14, <1>15, <1>16, <1>17
     DEF Step, SaveExpired, CreateDelivery, PickUpOrders, HandOver, ReceiveOrders, ClaimPayout,
         CloseBatch, Abort

LEMMA NextCalls == Inv /\ [Next]_vars => \A c \in Call : CallOK(c)'
<1> SUFFICES ASSUME Inv, [Next]_vars PROVE \A c \in Call : CallOK(c)'
  OBVIOUS
<1>1. CASE \E c \in Call : Step(c)
  BY <1>1, StepCalls
<1>2. CASE UNCHANGED calls
  BY <1>2, NextRows, OtherCall
<1> QED
  BY <1>1, <1>2 DEF Next, vars, AddItems, StaffConfirmPickup, StaffDeliver, StaffCancel

-----------------------------------------------------------------------------
(* Only a new delivery is on offer, or one whose row did not change.         *)

LEMMA NextOffered == Inv /\ [Next]_vars => OfferedIsFree'
<1> SUFFICES ASSUME Inv, [Next]_vars, NEW d \in DeliveryId, Has(d, {"pending"})'
             PROVE  deliveries'[d].rider = NULL
  BY DEF OfferedIsFree
<1> DeliveryTypeOK /\ DeliveryTypeOK' /\ RowsKept /\ OfferedIsFree
  BY NextRows, NextType DEF Inv
<1> Exists(d)' /\ deliveries'[d].status = "pending"
  BY DEF Has
<1>1. CASE deliveries'[d] = deliveries[d]
  BY <1>1 DEF OfferedIsFree, Has, Exists
<1>2. CASE \E c \in Call : CreateDelivery(c)
  <2> PICK c \in Call, e \in DeliveryId :
          deliveries' = [deliveries EXCEPT ![e] = NewDelivery(calls[c].group)]
    BY <1>2 DEF CreateDelivery
  <2> QED
    BY <1>1 DEF DeliveryTypeOK, NewDelivery
<1>3. ASSUME NEW c \in Call, Accept(c)
      PROVE  deliveries'[d].rider = NULL
  <2>1. CallOK(c)
    BY DEF Inv
  <2>2. calls[c].delivery \in DeliveryId /\ deliveries[calls[c].delivery] \in DeliveryRow
    BY <1>3, <2>1 DEF Accept, CallOK, Exists, DeliveryTypeOK
  <2>3. CASE deliveries' = [deliveries EXCEPT ![calls[c].delivery].status = "accepted",
                                              ![calls[c].delivery].rider = calls[c].rider]
    <3>1. d # calls[c].delivery
      BY <2>2, <2>3 DEF DeliveryTypeOK, DeliveryRow
    <3> QED
      BY <1>1, <2>3, <3>1 DEF DeliveryTypeOK
  <2> QED
    BY <1>1, <1>3, <2>3 DEF Accept
<1>4. ASSUME NEW c \in Call, NEW s \in {"handed_over", "delivered", "cancelled"},
             SetStatus(calls[c].delivery, s), calls[c].delivery \in DeliveryId,
             Exists(calls[c].delivery)
      PROVE  deliveries'[d].rider = NULL
  <2>1. deliveries[calls[c].delivery] \in DeliveryRow
    BY <1>4 DEF Exists, DeliveryTypeOK
  <2>2. deliveries'[calls[c].delivery].status = s
    BY <1>4, <2>1 DEF SetStatus, DeliveryTypeOK, DeliveryRow
  <2>3. d # calls[c].delivery
    BY <2>2
  <2> QED
    BY <1>1, <1>4, <2>3 DEF SetStatus, DeliveryTypeOK
<1>5. CASE \E c \in Call : HandOver(c) \/ Confirm(c) \/ CancelDelivery(c)
  <2> PICK c \in Call : HandOver(c) \/ Confirm(c) \/ CancelDelivery(c)
    BY <1>5
  <2>1. CallOK(c)
    BY DEF Inv
  <2> QED
    BY <1>4, <2>1 DEF HandOver, Confirm, CancelDelivery, CallOK
<1>6. ASSUME NEW c \in Call, ClaimPayout(c)
      PROVE  deliveries'[d].rider = NULL
  <2>1. CASE d \in Claimed(calls[c].candidates)
                 /\ deliveries'[d] = [deliveries[d] EXCEPT !.payout_status = "paid"]
    <3>1. CallOK(c) /\ calls[c].candidates \subseteq DeliveryId
      BY DEF Inv, DeliveryTypeOK, CallState
    <3>2. Exists(d) /\ deliveries[d].status # "pending"
      BY <1>6, <2>1, <3>1 DEF ClaimPayout, CallOK, Claimed
    <3> QED
      BY <3>2 DEF RowsKept
  <2> QED
    BY <1>1, <1>6, <2>1 DEF ClaimPayout
<1>7. CASE UNCHANGED deliveries
  BY <1>1, <1>7
<1> QED
  BY <1>2, <1>3, <1>5, <1>6, <1>7 DEF Next, Step, vars, AddItems, StaffConfirmPickup,
     StaffDeliver, StaffCancel, Bump, BeginTimer, SaveExpired, FindActive, BeginAccept, PickUpOrders,
     BeginHandOver, BeginConfirm, ReceiveOrders, BeginReassign, BeginPayout, BeginClose,
     CloseBatch, Abort, Starts

-----------------------------------------------------------------------------
(* The payouts.                                                              *)

PaidOut(d) == Exists(d) /\ deliveries[d].payout_status = "paid"

LEMMA LedgersKept ==
    ASSUME Inv, RowsKept, DeliveryTypeOK',
           UNCHANGED earnings,
           \A d \in DeliveryId : PaidOut(d)' <=> PaidOut(d),
           \A b \in BatchId : /\ batches'[b] = NULL <=> batches[b] = NULL
                              /\ batches[b] # NULL => /\ batches'[b].pays = batches[b].pays
                                                      /\ batches'[b].rider = batches[b].rider
    PROVE  LedgersAgree'
<1> LedgersAgree /\ DeliveryTypeOK
  BY DEF Inv
<1>1. \A b \in BatchId : batches[b] # NULL => batches[b].pays \subseteq DeliveryId
  BY DEF DeliveryTypeOK, Batch
<1>2. ASSUME NEW d \in DeliveryId
      PROVE  /\ earnings'[d] = IF PaidOut(d)' THEN 1 ELSE 0
             /\ PaidOut(d)' => ~Has(d, {"pending", "accepted"})'
             /\ PaidOut(d)' <=> \E b \in BatchId : batches'[b] # NULL /\ d \in batches'[b].pays
  <2>1. earnings[d] = IF PaidOut(d) THEN 1 ELSE 0
    BY DEF LedgersAgree, PaidOut
  <2>2. PaidOut(d) => ~Has(d, {"pending", "accepted"})
    BY DEF LedgersAgree, PaidOut
  <2>3. PaidOut(d) <=> \E b \in BatchId : batches[b] # NULL /\ d \in batches[b].pays
    BY DEF LedgersAgree, PaidOut
  <2>4. PaidOut(d) => ~Has(d, {"pending", "accepted"})'
    BY <2>2 DEF PaidOut, Has, RowsKept
  <2> QED
    BY <2>1, <2>3, <2>4
<1>3. ASSUME NEW b \in BatchId, batches'[b] # NULL, NEW d \in batches'[b].pays
      PROVE  /\ deliveries'[d].rider = batches'[b].rider
             /\ \A o \in BatchId \ {b} : batches'[o] # NULL => d \notin batches'[o].pays
  <2>1. batches[b] # NULL /\ d \in batches[b].pays /\ d \in DeliveryId
    BY <1>1, <1>3
  <2>2. PaidOut(d) /\ ~Has(d, {"pending", "accepted"})
    BY <2>1 DEF LedgersAgree, PaidOut
  <2>3. deliveries'[d].rider = deliveries[d].rider
    BY <2>1, <2>2 DEF PaidOut, Has, RowsKept
  <2>4. deliveries[d].rider = batches[b].rider
    BY <2>1 DEF LedgersAgree
  <2>5. \A o \in BatchId \ {b} : batches[o] # NULL => d \notin batches[o].pays
    BY <2>1 DEF LedgersAgree
  <2> QED
    BY <2>1, <2>3, <2>4, <2>5
<1> QED
  BY <1>2, <1>3 DEF LedgersAgree, PaidOut

LEMMA ClaimLedgers ==
    ASSUME Inv, RowsKept, DeliveryTypeOK', NEW c \in Call, ClaimPayout(c)
    PROVE  LedgersAgree'
<1> DEFINE claimed == Claimed(calls[c].candidates)
<1> LedgersAgree /\ DeliveryTypeOK /\ CallOK(c)
  BY DEF Inv
<1>1. CASE UNCHANGED <<deliveries, batches, earnings>>
  BY <1>1, LedgersKept DEF PaidOut, Exists
<1>2. CASE claimed # {}
  <2>1. claimed \subseteq DeliveryId
    BY DEF Claimed, DeliveryTypeOK, CallState
  <2>2. \A d \in claimed : /\ Exists(d)
                           /\ ~PaidOut(d)
                           /\ deliveries[d].rider = calls[c].rider
                           /\ deliveries[d].status \notin {"pending", "accepted"}
    BY DEF ClaimPayout, CallOK, Claimed, PaidOut
  <2>3. \A d \in claimed : deliveries[d] \in DeliveryRow
    BY <2>1, <2>2 DEF Exists, DeliveryTypeOK
  <2>4. deliveries' = [d \in DeliveryId |->
                          IF d \in claimed THEN [deliveries[d] EXCEPT !.payout_status = "paid"]
                          ELSE deliveries[d]]
    BY <1>2 DEF ClaimPayout
  <2>5. \A d \in claimed : /\ PaidOut(d)'
                           /\ deliveries'[d].rider = calls[c].rider
                           /\ ~Has(d, {"pending", "accepted"})'
    <3>1. \A d \in claimed : /\ deliveries'[d].payout_status = "paid"
                             /\ deliveries'[d].rider = deliveries[d].rider
                             /\ deliveries'[d].status = deliveries[d].status
      BY <2>1, <2>3, <2>4 DEF DeliveryRow
    <3> QED
      BY <2>1, <2>2, <3>1 DEF PaidOut, Has, RowsKept
  <2>6. \A d \in DeliveryId \ claimed : deliveries'[d] = deliveries[d]
    BY <2>4
  <2>7. \A d \in DeliveryId : earnings'[d] = IF d \in claimed THEN earnings[d] + 1 ELSE earnings[d]
    BY <1>2 DEF ClaimPayout
  <2> PICK b \in BatchId :
          /\ batches[b] = NULL
          /\ batches' = [batches EXCEPT ![b] = [rider |-> calls[c].rider, status |-> "pending",
                                                pays |-> claimed]]
    BY <1>2 DEF ClaimPayout
  <2>8. /\ batches'[b] # NULL /\ batches'[b].pays = claimed /\ batches'[b].rider = calls[c].rider
        /\ \A o \in BatchId \ {b} : batches'[o] = batches[o]
    <3>1. batches'[b] = [rider |-> calls[c].rider, status |-> "pending", pays |-> claimed]
      BY DEF DeliveryTypeOK
    <3>2. batches'[b] \in Batch
      BY <2>1, <3>1 DEF Batch, ClaimPayout, CallOK
    <3> QED
      BY <3>1, <3>2, RowAssumption DEF DeliveryTypeOK
  <2>9. \A o \in BatchId : batches[o] # NULL => batches[o].pays \cap claimed = {}
    BY <2>1, <2>2 DEF LedgersAgree, PaidOut
  <2>10. ASSUME NEW d \in DeliveryId
         PROVE  /\ earnings'[d] = IF PaidOut(d)' THEN 1 ELSE 0
                /\ PaidOut(d)' => ~Has(d, {"pending", "accepted"})'
                /\ PaidOut(d)' <=> \E o \in BatchId : batches'[o] # NULL /\ d \in batches'[o].pays
    <3>1. CASE d \in claimed
      <4>1. earnings[d] = 0
        BY <2>2, <3>1 DEF LedgersAgree, PaidOut
      <4> QED
        BY <2>5, <2>7, <2>8, <3>1, <4>1
    <3>2. CASE d \notin claimed
      <4>1. PaidOut(d)' <=> PaidOut(d)
        BY <2>6, <3>2 DEF PaidOut, Exists
      <4>2. /\ earnings[d] = IF PaidOut(d) THEN 1 ELSE 0
            /\ PaidOut(d) => ~Has(d, {"pending", "accepted"})
            /\ PaidOut(d) <=> \E o \in BatchId : batches[o] # NULL /\ d \in batches[o].pays
        BY DEF LedgersAgree, PaidOut
      <4>3. PaidOut(d) => ~Has(d, {"pending", "accepted"})'
        BY <4>2 DEF PaidOut, Has, RowsKept
      <4>4. (\E o \in BatchId : batches'[o] # NULL /\ d \in batches'[o].pays)
                <=> \E o \in BatchId : batches[o] # NULL /\ d \in batches[o].pays
        BY <2>8, <3>2
      <4> QED
        BY <2>7, <3>2, <4>1, <4>2, <4>3, <4>4
    <3> QED
      BY <3>1, <3>2
  <2>11. ASSUME NEW o \in BatchId, batches'[o] # NULL, NEW d \in batches'[o].pays
         PROVE  /\ deliveries'[d].rider = batches'[o].rider
                /\ \A p \in BatchId \ {o} : batches'[p] # NULL => d \notin batches'[p].pays
    <3>1. CASE o = b
      BY <2>5, <2>8, <2>9, <3>1
    <3>2. CASE o # b
      <4>1. batches[o] # NULL /\ d \in batches[o].pays /\ d \notin claimed
        BY <2>8, <2>9, <2>11, <3>2
      <4>2. d \in DeliveryId
        BY <4>1 DEF DeliveryTypeOK, Batch
      <4>3. /\ deliveries[d].rider = batches[o].rider
            /\ \A p \in BatchId \ {o} : batches[p] # NULL => d \notin batches[p].pays
        BY <4>1 DEF LedgersAgree
      <4> QED
        BY <2>6, <2>8, <3>2, <4>1, <4>2, <4>3
    <3> QED
      BY <3>1, <3>2
  <2> QED
    BY <2>10, <2>11 DEF LedgersAgree, PaidOut
<1> QED
  BY <1>1, <1>2 DEF ClaimPayout

LEMMA NextLedgers == Inv /\ [Next]_vars => LedgersAgree'
<1> SUFFICES ASSUME Inv, [Next]_vars PROVE LedgersAgree'
  OBVIOUS
<1> DeliveryTypeOK /\ DeliveryTypeOK' /\ RowsKept
  BY NextRows, NextType DEF Inv
<1>1. CASE UNCHANGED <<deliveries, batches, earnings>>
  BY <1>1, LedgersKept DEF PaidOut, Exists
<1>2. ASSUME UNCHANGED <<batches, earnings>>,
             \A d \in DeliveryId : PaidOut(d)' <=> PaidOut(d)
      PROVE  LedgersAgree'
  BY <1>2, LedgersKept
<1>3. ASSUME NEW c \in Call, CreateDelivery(c)
      PROVE  LedgersAgree'
  <2> PICK d \in DeliveryId : /\ ~Exists(d)
                              /\ deliveries' = [deliveries EXCEPT ![d] = NewDelivery(calls[c].group)]
    BY <1>3 DEF CreateDelivery
  <2>1. deliveries'[d].payout_status = "pending"
    BY DEF NewDelivery, DeliveryTypeOK
  <2>2. \A e \in DeliveryId \ {d} : deliveries'[e] = deliveries[e]
    BY DEF DeliveryTypeOK
  <2>3. \A e \in DeliveryId : PaidOut(e)' <=> PaidOut(e)
    BY <2>1, <2>2 DEF PaidOut, Exists
  <2> QED
    BY <1>2, <1>3, <2>3 DEF CreateDelivery
<1>4. ASSUME NEW c \in Call, Accept(c)
      PROVE  LedgersAgree'
  <2>1. CallOK(c)
    BY DEF Inv
  <2>2. calls[c].delivery \in DeliveryId /\ deliveries[calls[c].delivery] \in DeliveryRow
    BY <1>4, <2>1 DEF Accept, CallOK, Exists, DeliveryTypeOK
  <2>3. CASE deliveries' = [deliveries EXCEPT ![calls[c].delivery].status = "accepted",
                                              ![calls[c].delivery].rider = calls[c].rider]
    <3>1. deliveries'[calls[c].delivery].payout_status = deliveries[calls[c].delivery].payout_status
      BY <2>2, <2>3 DEF DeliveryTypeOK, DeliveryRow
    <3>2. \A e \in DeliveryId \ {calls[c].delivery} : deliveries'[e] = deliveries[e]
      BY <2>3 DEF DeliveryTypeOK
    <3>3. deliveries'[calls[c].delivery] # NULL /\ deliveries[calls[c].delivery] # NULL
      BY <1>4, <2>1 DEF Accept, CallOK, RowsKept, Exists
    <3>4. \A e \in DeliveryId : PaidOut(e)' <=> PaidOut(e)
      BY <3>1, <3>2, <3>3 DEF PaidOut, Exists
    <3> QED
      BY <1>2, <1>4, <3>4 DEF Accept
  <2> QED
    BY <1>1, <1>4, <2>3 DEF Accept
<1>5. ASSUME NEW c \in Call, HandOver(c) \/ Confirm(c) \/ CancelDelivery(c)
      PROVE  LedgersAgree'
  <2>1. calls[c].delivery \in DeliveryId /\ Exists(calls[c].delivery)
    BY <1>5 DEF Inv, CallOK, HandOver, Confirm, CancelDelivery
  <2> PICK s \in DeliveryStatus : SetStatus(calls[c].delivery, s)
    BY <1>5 DEF HandOver, Confirm, CancelDelivery, DeliveryStatus
  <2>2. deliveries[calls[c].delivery] \in DeliveryRow
    BY <2>1 DEF Exists, DeliveryTypeOK
  <2>3. deliveries'[calls[c].delivery].payout_status = deliveries[calls[c].delivery].payout_status
    BY <2>1, <2>2 DEF SetStatus, DeliveryTypeOK, DeliveryRow
  <2>4. \A e \in DeliveryId \ {calls[c].delivery} : deliveries'[e] = deliveries[e]
    BY DEF SetStatus, DeliveryTypeOK
  <2>5. deliveries'[calls[c].delivery] # NULL
    BY <2>1 DEF RowsKept, Exists
  <2>6. \A e \in DeliveryId : PaidOut(e)' <=> PaidOut(e)
    BY <2>1, <2>3, <2>4, <2>5 DEF PaidOut, Exists
  <2> QED
    BY <1>2, <1>5, <2>6 DEF HandOver, Confirm, CancelDelivery
<1>6. ASSUME NEW c \in Call, CloseBatch(c)
      PROVE  LedgersAgree'
  <2>1. calls[c].batch \in BatchId /\ batches[calls[c].batch] \in Batch
    BY <1>6 DEF Inv, CloseBatch, CallOK, DeliveryTypeOK
  <2>2. /\ batches'[calls[c].batch].pays = batches[calls[c].batch].pays
        /\ batches'[calls[c].batch].rider = batches[calls[c].batch].rider
    BY <1>6, <2>1 DEF CloseBatch, DeliveryTypeOK, Batch
  <2>3. \A b \in BatchId \ {calls[c].batch} : batches'[b] = batches[b]
    BY <1>6 DEF CloseBatch, DeliveryTypeOK
  <2>4. batches[calls[c].batch] # NULL /\ batches'[calls[c].batch] # NULL
    BY <2>1, RowAssumption DEF RowsKept
  <2>5. \A d \in DeliveryId : PaidOut(d)' <=> PaidOut(d)
    BY <1>6 DEF CloseBatch, PaidOut, Exists
  <2> QED
    BY <1>6, <2>2, <2>3, <2>4, <2>5, LedgersKept DEF CloseBatch
<1> QED
  BY <1>1, <1>3, <1>4, <1>5, <1>6, ClaimLedgers DEF Next, Step, vars, AddItems,
     StaffConfirmPickup, StaffDeliver, StaffCancel, Bump, BeginTimer, SaveExpired, FindActive, BeginAccept,
     PickUpOrders, BeginHandOver, BeginConfirm, ReceiveOrders, BeginReassign, BeginPayout,
     BeginClose, Abort, Starts

-----------------------------------------------------------------------------
(* The groups whose orders were bumped.                                      *)

(* A group keeps its delivery through every step but the cancellation, which *)
(* goes on to offer another.                                                 *)
LEMMA OfferedKept ==
    ASSUME Inv, RowsKept, DeliveryTypeOK', NEW g \in Group, Offered(g),
           \A d \in DeliveryId : Has(d, {"cancelled"})' => Has(d, {"cancelled"})
    PROVE  Offered(g)'
<1> PICK d \in DeliveryId : /\ Has(d, {"pending", "accepted", "handed_over", "delivered"})
                            /\ deliveries[d].group = g
  BY DEF Offered
<1>1. Exists(d)' /\ deliveries'[d].group = g
  BY DEF Has, RowsKept
<1>2. ~Has(d, {"cancelled"})'
  BY DEF Has
<1>3. deliveries'[d].status \in DeliveryStatus
  BY <1>1 DEF Exists, DeliveryTypeOK, DeliveryRow
<1> QED
  BY <1>1, <1>2, <1>3 DEF Offered, Has, DeliveryStatus

LEMMA StepServed ==
    ASSUME Inv, NEW c \in Call, Step(c)
    PROVE  BumpedHasDelivery'
<1> SUFFICES ASSUME NEW g \in Group, hook'[g] = "called"
             PROVE  Offered(g)' \/ AtWork(g)'
  BY DEF BumpedHasDelivery
<1> DeliveryTypeOK /\ DeliveryTypeOK' /\ RowsKept /\ CallOK(c)
  BY StepType, StepRows DEF Inv
<1> calls[c] \in CallState
  BY DEF DeliveryTypeOK
<1>1. \A k, o : Become(c, k) => calls'[c] = k /\ (o \in Call \ {c} => calls'[o] = calls[o])
  BY DEF Become, DeliveryTypeOK
<1>2. hook[g] = "called" => Offered(g) \/ AtWork(g)
  BY DEF Inv, BumpedHasDelivery
<1>3. ASSUME NEW k, Become(c, k), hook[g] = "called", calls[c].pc \notin {"find", "create"},
             UNCHANGED deliveries
      PROVE  Offered(g)' \/ AtWork(g)'
  BY <1>1, <1>2, <1>3 DEF Offered, AtWork, Has, Exists
<1>4. ASSUME NEW k, Become(c, k), hook[g] = "called", calls[c].pc \notin {"find", "create"},
             \A d \in DeliveryId : Has(d, {"cancelled"})' => Has(d, {"cancelled"})
      PROVE  Offered(g)' \/ AtWork(g)'
  <2>1. CASE Offered(g)
    BY <1>4, <2>1, OfferedKept
  <2>2. CASE AtWork(g)
    BY <1>1, <1>4, <2>2 DEF AtWork
  <2> QED
    BY <1>2, <1>4, <2>1, <2>2
<1>5. CASE Bump(c)
  <2> PICK o \in Order : /\ Become(c, [IdleCall EXCEPT !.pc = "find", !.group = GroupOf[o]])
                         /\ hook' = [hook EXCEPT ![GroupOf[o]] = "called"]
    BY <1>5 DEF Bump
  <2>1. CASE g = GroupOf[o]
    <3>1. calls'[c] = [IdleCall EXCEPT !.pc = "find", !.group = GroupOf[o]]
      BY <1>1
    <3>2. calls'[c].pc = "find" /\ calls'[c].group = g
      BY <2>1, <3>1 DEF IdleCall
    <3> QED
      BY <3>2 DEF AtWork
  <2>2. CASE g # GroupOf[o]
    <3>1. hook[g] = "called"
      BY <2>2 DEF DeliveryTypeOK
    <3> QED
      BY <1>3, <1>5, <3>1 DEF Bump
  <2> QED
    BY <2>1, <2>2
<1>6. CASE FindActive(c)
  <2>1. hook[g] = "called"
    BY <1>6 DEF FindActive
  <2>2. CASE Offered(g)
    BY <1>6, <2>2 DEF FindActive, Offered, Has, Exists
  <2>3. CASE AtWork(g) /\ Active(calls[c].group) = {}
    <3>1. Become(c, [calls[c] EXCEPT !.pc = "create"])
      BY <1>6, <2>3 DEF FindActive
    <3>2. calls'[c] = [calls[c] EXCEPT !.pc = "create"]
      BY <1>1, <3>1
    <3>3. calls'[c].pc = "create" /\ calls'[c].group = calls[c].group
      BY <3>2 DEF CallState
    <3> QED
      BY <1>1, <2>3, <3>1, <3>3 DEF AtWork
  <2>4. CASE AtWork(g) /\ Active(calls[c].group) # {}
    <3>1. PICK o \in Call : calls[o].pc \in {"find", "create"} /\ calls[o].group = g
      BY <2>4 DEF AtWork
    <3>2. CASE o = c
      <4> PICK d \in DeliveryId : Exists(d) /\ deliveries[d].group = g
                                            /\ deliveries[d].status # "cancelled"
        BY <2>4, <3>1, <3>2 DEF Active
      <4>1. deliveries[d].status \in DeliveryStatus
        BY DEF Exists, DeliveryTypeOK, DeliveryRow
      <4>2. Offered(g)
        BY <4>1 DEF Offered, Has, DeliveryStatus
      <4> QED
        BY <2>2, <4>2
    <3>3. CASE o # c
      BY <1>1, <1>6, <3>1, <3>3 DEF FindActive, End, AtWork
    <3> QED
      BY <3>2, <3>3
  <2> QED
    BY <1>2, <2>1, <2>2, <2>3, <2>4
<1>7. CASE CreateDelivery(c)
  <2>1. hook[g] = "called"
    BY <1>7 DEF CreateDelivery
  <2> PICK d \in DeliveryId : /\ ~Exists(d)
                              /\ deliveries' = [deliveries EXCEPT ![d] = NewDelivery(calls[c].group)]
    BY <1>7 DEF CreateDelivery
  <2>2. deliveries'[d] = NewDelivery(calls[c].group)
    BY DEF DeliveryTypeOK
  <2>3. NewDelivery(calls[c].group) \in DeliveryRow
    BY <1>7 DEF CreateDelivery, CallOK, NewDelivery, DeliveryRow, DeliveryStatus
  <2>4. g = calls[c].group => Offered(g)'
    BY <2>2, <2>3, RowAssumption DEF Offered, Has, Exists, NewDelivery
  <2>5. CASE Offered(g)
    <3>1. \A e \in DeliveryId \ {d} : deliveries'[e] = deliveries[e]
      BY DEF DeliveryTypeOK
    <3>2. \A e \in DeliveryId : Has(e, {"cancelled"})' => Has(e, {"cancelled"})
      BY <2>2, <3>1 DEF Has, Exists, NewDelivery
    <3> QED
      BY <2>5, <3>2, OfferedKept
  <2>6. CASE AtWork(g) /\ g # calls[c].group
    BY <1>1, <1>7, <2>6 DEF CreateDelivery, End, AtWork
  <2> QED
    BY <1>2, <2>1, <2>4, <2>5, <2>6
<1>8. CASE Accept(c)
  <2>1. hook[g] = "called" /\ calls[c].pc = "accept" /\ \E k : Become(c, k)
    BY <1>8 DEF Accept, End
  <2>2. CASE AcceptWins(calls[c].delivery)
    <3>1. deliveries' = [deliveries EXCEPT ![calls[c].delivery].status = "accepted",
                                           ![calls[c].delivery].rider = calls[c].rider]
      BY <1>8, <2>2 DEF Accept
    <3>2. calls[c].delivery \in DeliveryId /\ deliveries[calls[c].delivery] \in DeliveryRow
      BY <1>8 DEF Accept, CallOK, Exists, DeliveryTypeOK
    <3>3. deliveries'[calls[c].delivery].status = "accepted"
      BY <3>1, <3>2 DEF DeliveryTypeOK, DeliveryRow
    <3>4. \A e \in DeliveryId \ {calls[c].delivery} : deliveries'[e] = deliveries[e]
      BY <3>1 DEF DeliveryTypeOK
    <3>5. \A e \in DeliveryId : Has(e, {"cancelled"})' => Has(e, {"cancelled"})
      BY <3>3, <3>4 DEF Has, Exists
    <3> QED
      BY <1>4, <2>1, <3>5
  <2> QED
    BY <1>3, <1>8, <2>1, <2>2 DEF Accept
<1>9. CASE HandOver(c) \/ Confirm(c)
  <2>1. /\ hook[g] = "called"
        /\ calls[c].pc \in {"hand", "confirm"}
        /\ \E k : Become(c, k)
        /\ SetStatus(calls[c].delivery, "handed_over") \/ SetStatus(calls[c].delivery, "delivered")
    BY <1>9 DEF HandOver, Confirm, End
  <2>2. calls[c].delivery \in DeliveryId /\ deliveries[calls[c].delivery] \in DeliveryRow
    BY <2>1 DEF CallOK, Exists, DeliveryTypeOK
  <2>3. deliveries'[calls[c].delivery].status \in {"handed_over", "delivered"}
    BY <2>1, <2>2 DEF SetStatus, DeliveryTypeOK, DeliveryRow
  <2>4. \A e \in DeliveryId \ {calls[c].delivery} : deliveries'[e] = deliveries[e]
    BY <2>1 DEF SetStatus, DeliveryTypeOK
  <2>5. \A e \in DeliveryId : Has(e, {"cancelled"})' => Has(e, {"cancelled"})
    BY <2>3, <2>4 DEF Has, Exists
  <2> QED
    BY <1>4, <2>1, <2>5
<1>10. CASE CancelDelivery(c)
  <2> DEFINE d == calls[c].delivery
  <2>1. /\ hook[g] = "called"
        /\ calls[c].pc = "cancel"
        /\ Become(c, [calls[c] EXCEPT !.pc = "create"])
        /\ SetStatus(d, "cancelled")
    BY <1>10 DEF CancelDelivery
  <2>2. calls'[c] = [calls[c] EXCEPT !.pc = "create"]
    BY <1>1, <2>1
  <2>3. calls'[c].pc = "create" /\ calls'[c].group = calls[c].group
    BY <2>2 DEF CallState
  <2>4. CASE calls[c].group = g
    BY <2>3, <2>4 DEF AtWork
  <2>5. CASE calls[c].group # g /\ Offered(g)
    <3> PICK e \in DeliveryId : /\ Has(e, {"pending", "accepted", "handed_over", "delivered"})
                                /\ deliveries[e].group = g
      BY <2>5 DEF Offered
    <3>1. e # d
      BY <2>1, <2>5 DEF CallOK
    <3>2. deliveries'[e] = deliveries[e]
      BY <2>1, <3>1 DEF SetStatus, DeliveryTypeOK
    <3> QED
      BY <3>2 DEF Offered, Has, Exists
  <2>6. CASE AtWork(g)
    BY <1>1, <2>1, <2>6 DEF AtWork
  <2> QED
    BY <1>2, <2>1, <2>4, <2>5, <2>6
<1>11. CASE ClaimPayout(c)
  <2>1. hook[g] = "called" /\ calls[c].pc = "claim" /\ Become(c, IdleCall)
    BY <1>11 DEF ClaimPayout, End
  <2>2. CASE Claimed(calls[c].candidates) # {} /\ ~UNCHANGED deliveries
    <3>1. \A e \in DeliveryId :
              deliveries'[e] \in {deliveries[e], [deliveries[e] EXCEPT !.payout_status = "paid"]}
      BY <1>11, <2>2 DEF ClaimPayout
    <3>2. \A e \in DeliveryId :
              deliveries'[e] # deliveries[e] => e \in Claimed(calls[c].candidates)
      BY <1>11, <2>2 DEF ClaimPayout
    <3>3. \A e \in DeliveryId : deliveries'[e] # deliveries[e] =>
              Exists(e) /\ deliveries[e] \in DeliveryRow
      BY <2>1, <3>2 DEF Claimed, CallOK, Exists, DeliveryTypeOK
    <3>4. \A e \in DeliveryId : deliveries'[e] # deliveries[e] =>
              Exists(e) /\ deliveries'[e].status = deliveries[e].status
      BY <3>1, <3>3 DEF DeliveryRow
    <3>5. \A e \in DeliveryId : Has(e, {"cancelled"})' => Has(e, {"cancelled"})
      BY <3>4 DEF Has, Exists
    <3> QED
      BY <1>4, <2>1, <3>5
  <2> QED
    BY <1>3, <1>11, <2>1, <2>2 DEF ClaimPayout
<1>12. CASE Abort(c)
  <2>1. CASE calls[c].pc \in {"find", "create"}
    <3>1. g # calls[c].group /\ hook[g] = "called"
      BY <1>12, <2>1 DEF Abort, DeliveryTypeOK
    <3>2. CASE Offered(g)
      BY <1>12, <3>2 DEF Abort, Offered, Has, Exists
    <3>3. CASE AtWork(g)
      BY <1>1, <1>12, <3>1, <3>3 DEF Abort, End, AtWork
    <3> QED
      BY <1>2, <3>1, <3>2, <3>3
  <2>2. CASE calls[c].pc \notin {"find", "create"}
    BY <1>3, <1>12, <2>2 DEF Abort, End
  <2> QED
    BY <2>1, <2>2
<1>13. CASE BeginTimer(c) \/ BeginAccept(c) \/ BeginHandOver(c) \/ BeginConfirm(c)
            \/ BeginReassign(c) \/ BeginPayout(c) \/ BeginClose(c)
  <2>1. \E k : Starts(c, k)
    BY <1>13 DEF BeginTimer, BeginAccept, BeginHandOver, BeginConfirm, BeginReassign, BeginPayout,
       BeginClose
  <2> QED
    BY <1>3, <2>1 DEF Starts
<1>14. CASE SaveExpired(c) \/ PickUpOrders(c) \/ ReceiveOrders(c) \/ CloseBatch(c)
  BY <1>3, <1>14 DEF SaveExpired, PickUpOrders, ReceiveOrders, CloseBatch, End
<1> QED
  BY <1>5, <1>6, <1>7, <1>8, <1>9, <1>10, <1>11, <1>12, <1>13, <1>14 DEF Step

LEMMA NextServed == Inv /\ [Next]_vars => BumpedHasDelivery'
<1> SUFFICES ASSUME Inv, [Next]_vars PROVE BumpedHasDelivery'
  OBVIOUS
<1>1. CASE \E c \in Call : Step(c)
  BY <1>1, StepServed
<1>2. CASE UNCHANGED <<deliveries, calls, hook>>
  BY <1>2 DEF Inv, BumpedHasDelivery, Offered, AtWork, Has, Exists
<1> QED
  BY <1>1, <1>2 DEF Next, vars, AddItems, StaffConfirmPickup, StaffDeliver, StaffCancel

-----------------------------------------------------------------------------
(* The theorems.                                                             *)

(* The inductive invariant holds in every state the dispatch can reach.      *)
THEOREM DeliveryInv == Spec => []Inv
<1>1. Inv /\ [Next]_vars => Inv'
  BY NextType, NextCalls, NextOffered, NextLedgers, NextServed DEF Inv
<1> QED
  BY <1>1, InitInv, PTL DEF Spec

(* Every variable keeps its type.                                            *)
THEOREM DeliveryTypeCorrect == Spec => []DeliveryTypeOK
<1>1. Inv => DeliveryTypeOK
  BY DEF Inv
<1> QED
  BY <1>1, DeliveryInv, PTL

(* Flags, batches and ledger agree, and no delivery is paid twice, however   *)
(* many payouts run at once (processRiderPayout).                            *)
THEOREM LedgersAgreeAlways == Spec => []LedgersAgree
<1>1. Inv => LedgersAgree
  BY DEF Inv
<1> QED
  BY <1>1, DeliveryInv, PTL

(* A group whose order was bumped has a delivery, unless the hook was cut    *)
(* off (ensureOnOrdersReady, reassign).                                      *)
THEOREM BumpedHasDeliveryAlways == Spec => []BumpedHasDelivery
<1>1. Inv => BumpedHasDelivery
  BY DEF Inv
<1> QED
  BY <1>1, DeliveryInv, PTL

(* First accept wins: a delivery with a rider keeps him, and never goes back *)
(* on offer (accept, and the late writes of complete, confirm and reassign). *)
THEOREM FirstAcceptWinsAlways == Spec => FirstAcceptWins
<1>1. Inv /\ [Next]_vars => [\A d \in DeliveryId : Exists(d) /\ deliveries[d].rider # NULL =>
          /\ deliveries'[d].rider = deliveries[d].rider
          /\ deliveries'[d].status # "pending"]_vars
  BY NextRows DEF Inv, OfferedIsFree, RowsKept, Has
<1> QED
  BY <1>1, DeliveryInv, PTL DEF Spec, FirstAcceptWins

=============================================================================
