---------------------------- MODULE WebhookWatch ----------------------------
(***************************************************************************)
(* The job that asks the provider for the webhook deliveries which did not  *)
(* get through, and alerts the branch (reconcile of                         *)
(* payment/payment-reconciliation.scheduler.ts).  A pass lists the failed   *)
(* deliveries of the last hours, then the pending ones, and treats each as  *)
(* it was listed.  The provider is external.                                *)
(***************************************************************************)
EXTENDS Naturals

CONSTANTS
  Deliveries,       \* webhook deliveries of the provider
  MaxWatchCuts      \* bound: passes that end in an error or with the server

ASSUME WatchAssumption == MaxWatchCuts \in Nat

VARIABLES
  deliveries,    \* external: state of each delivery, and of its bill
  listed,        \* what the pass still has to look at, and the next attempt as it was listed
  listing,       \* which of its two lists the pass is on
  watchAlerts,   \* deliveries with an alert
  watchCuts

watchVars == <<deliveries, listed, listing, watchAlerts, watchCuts>>

(* Ages: recent, lingering past the stale minutes, out of the window of the lists. *)
Recent == 0
Lingering == 1
OutOfWindow == 2

(* next: whether the provider has announced another attempt, and whether its moment is past.  A delivery *)
(* is over once it has arrived, or once the bill with its reference is paid: the job would skip it. *)
(* Terminal, account or bill tell the branch of each; one without a branch is only logged. *)
Delivery == [status: {"none", "pending", "failed", "arrived", "settled"}, next: {"none", "planned", "past"},
             age: Recent .. OutOfWindow]
NoDeliveryYet == [status |-> "none", next |-> "none", age |-> Recent]

NothingListed == [d \in {} |-> "none"]

WatchInit ==
  /\ deliveries = [d \in Deliveries |-> NoDeliveryYet]
  /\ listed = NothingListed
  /\ listing = "idle"
  /\ watchAlerts = {}
  /\ watchCuts = 0

---------------------------------------------------------------------------
(* The provider: it sends, plans another attempt or none, gets through; bills are paid; time passes. *)

Provider(d, row) ==
  /\ deliveries' = [deliveries EXCEPT ![d] = row]
  /\ UNCHANGED <<listed, listing, watchAlerts, watchCuts>>

Underway(d) == deliveries[d].status \in {"pending", "failed"}

SendDelivery(d) ==
  /\ deliveries[d].status = "none"
  /\ \E next \in {"none", "planned"} : Provider(d, [NoDeliveryYet EXCEPT !.status = "pending", !.next = next])

AttemptFails(d) ==
  /\ Underway(d) /\ deliveries[d].next # "none"
  /\ \E next \in {"none", "planned"} : Provider(d, [deliveries[d] EXCEPT !.status = "failed", !.next = next])

AttemptArrives(d) ==
  Underway(d) /\ Provider(d, [deliveries[d] EXCEPT !.status = "arrived", !.next = "none"])

BillPaid(d) == Underway(d) /\ Provider(d, [NoDeliveryYet EXCEPT !.status = "settled"])

MomentPasses(d) ==
  Underway(d) /\ deliveries[d].next = "planned" /\ Provider(d, [deliveries[d] EXCEPT !.next = "past"])

DeliveryAges(d) ==
  Underway(d) /\ deliveries[d].age < OutOfWindow /\ Provider(d, [deliveries[d] EXCEPT !.age = @ + 1])

---------------------------------------------------------------------------
(* A pass. *)

StillRetrying(row) ==
  \/ row.next = "planned"
  \/ row.status = "pending" /\ row.next = "none" /\ row.age = Recent

(* Mutant: one alert for a branch is enough. *)
AlertedBranch(d) == watchAlerts # {}
AlreadyAlerted(d) == d \in watchAlerts

List(status) ==
  LET found == { d \in Deliveries : deliveries[d].status = status /\ deliveries[d].age # OutOfWindow }
  IN /\ listed' = [d \in found |-> deliveries[d].next]
     /\ listing' = status
     /\ UNCHANGED <<deliveries, watchAlerts, watchCuts>>

ListFailed == listing = "idle" /\ List("failed")
ListPending == listing = "failed" /\ listed = NothingListed /\ List("pending")
EndPass ==
  /\ listing = "pending" /\ listed = NothingListed
  /\ listing' = "idle"
  /\ UNCHANGED <<deliveries, listed, watchAlerts, watchCuts>>

(* The list tells the moment of the next attempt: it has passed by now, unless one is planned; and that *)
(* may be another one. *)
CheckDelivery(d) ==
  LET late == IF listed[d] = "planned" THEN "past" ELSE listed[d]
  IN /\ d \in DOMAIN listed
     /\ listed' = [e \in DOMAIN listed \ {d} |-> listed[e]]
     /\ \E next \in IF deliveries[d].next = "planned" THEN {listed[d], late} ELSE {late} :
          watchAlerts' =
            IF \/ StillRetrying([status |-> listing, next |-> next, age |-> deliveries[d].age])
               \/ deliveries[d].status = "settled"
               \/ AlreadyAlerted(d)
            THEN watchAlerts ELSE watchAlerts \cup {d}
     /\ UNCHANGED <<deliveries, listing, watchCuts>>

CutWatch ==
  /\ listing # "idle"
  /\ watchCuts < MaxWatchCuts
  /\ watchCuts' = watchCuts + 1
  /\ listing' = "idle" /\ listed' = NothingListed
  /\ UNCHANGED <<deliveries, watchAlerts>>

Reconcile == ListFailed \/ ListPending \/ EndPass \/ \E d \in Deliveries : CheckDelivery(d)

WatchNext ==
  \/ \E d \in Deliveries :
       SendDelivery(d) \/ AttemptFails(d) \/ AttemptArrives(d) \/ BillPaid(d)
       \/ MomentPasses(d) \/ DeliveryAges(d)
  \/ Reconcile \/ CutWatch

(* The scheduler calls the job and its calls come to an end. *)
WatchFairness == WF_watchVars(Reconcile)

WatchSpec == WatchInit /\ [][WatchNext]_watchVars /\ WatchFairness

---------------------------------------------------------------------------
(* Deliveries and the pass have their types. *)
WatchTypeOK ==
  /\ deliveries \in [Deliveries -> Delivery]
  /\ DOMAIN listed \subseteq Deliveries /\ \A d \in DOMAIN listed : listed[d] \in {"none", "planned", "past"}
  /\ listing \in {"idle", "failed", "pending"}
  /\ watchAlerts \subseteq Deliveries
  /\ watchCuts \in 0 .. MaxWatchCuts

(* A delivery the provider has given up is "never silently dropped": its branch is alerted, unless it is *)
(* tried again, arrives or is settled after all, or leaves the window of the lists before a pass saw it. *)
GivenUpIsAlerted ==
  \A d \in Deliveries :
    Underway(d) /\ ~StillRetrying(deliveries[d])
    ~> \/ d \in watchAlerts
       \/ deliveries[d].next = "planned" \/ deliveries[d].status \in {"arrived", "settled"}
       \/ deliveries[d].age = OutOfWindow

=============================================================================
