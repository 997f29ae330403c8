------------------------------ MODULE MCHouse ------------------------------
(* The components whose services do not touch each other's rows, for TLC: a *)
(* behaviour of the run is a behaviour of one of them, the `desk`.          *)
EXTENDS Bookings, Floor, Shifts, WaiterCalls, TabWaiters, SyncQueue, Subscriptions, WebhookDoor, TLC

CONSTANTS small, large

VARIABLE desk

MCCapacity == small :> 1 @@ large :> 2
MCDepositAmount == [d \in Deposits |-> 1]

RoomVars == <<bookingVars, floorVars, shiftVars, callVars, serveVars>>
OfficeVars == <<syncVars, subscriptionVars, doorVars>>

HouseInit ==
  /\ desk \in {"bookings", "floor", "shifts", "calls", "waiters", "sync", "subscription", "door"}
  /\ BookingInit /\ FloorInit /\ ShiftInit /\ CallInit /\ ServeInit /\ SyncInit /\ SubscriptionInit
  /\ DoorInit
  /\ desk # "sync" => workable = SyncKeys
  /\ desk # "subscription" => sub = NoSub
  /\ desk # "door" => provider = "right" /\ accounts \in [DoorBills -> { a \in Account : a.total = 1 /\ a.reference = NoDeposit }]

HouseNext ==
  /\ UNCHANGED desk
  /\ \/ desk = "bookings" /\ BookingNext /\ UNCHANGED <<floorVars, shiftVars, callVars, serveVars, OfficeVars>>
     \/ desk = "floor" /\ FloorNext /\ UNCHANGED <<bookingVars, shiftVars, callVars, serveVars, OfficeVars>>
     \/ desk = "shifts" /\ ShiftNext /\ UNCHANGED <<bookingVars, floorVars, callVars, serveVars, OfficeVars>>
     \/ desk = "calls" /\ CallNext /\ UNCHANGED <<bookingVars, floorVars, shiftVars, serveVars, OfficeVars>>
     \/ desk = "waiters" /\ ServeNext /\ UNCHANGED <<bookingVars, floorVars, shiftVars, callVars, OfficeVars>>
     \/ desk = "sync" /\ SyncNext /\ UNCHANGED <<RoomVars, subscriptionVars, doorVars>>
     \/ desk = "subscription" /\ SubscriptionNext /\ UNCHANGED <<RoomVars, syncVars, doorVars>>
     \/ desk = "door" /\ DoorNext /\ UNCHANGED <<RoomVars, syncVars, subscriptionVars>>

HouseSpec == HouseInit /\ [][HouseNext]_<<desk, RoomVars, OfficeVars>>

(* The configuration gives the rows of the components the same names, and the handlers too. *)
Symmetry == Permutations(Bookings) \cup Permutations(BookingCalls)

=============================================================================
