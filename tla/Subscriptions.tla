--------------------------- MODULE Subscriptions ---------------------------
(***************************************************************************)
(* The subscription of one branch (subscription.service.ts and its          *)
(* scheduler, the Paystack webhooks, subscription.guard.ts).  Every request *)
(* and the nightly job read the row, change it and save all of it; the      *)
(* provider delivers its events late, twice, or out of order, and an event  *)
(* is for the first branch that is found of the business with the payer's   *)
(* e-mail, whichever branch paid.  Days stand for dates; 0 is NULL.         *)
(***************************************************************************)
EXTENDS Naturals, FiniteSets

CONSTANTS
  Billers,          \* requests and webhooks in flight
  Trial, Period, Grace,   \* days given
  LastDay,          \* bound: days that pass
  MaxBillings       \* bound: requests and webhooks begun in a behaviour

ASSUME SubscriptionAssumption ==
  /\ Trial \in Nat \ {0} /\ Period \in Nat \ {0} /\ Grace \in Nat \ {0}
  /\ LastDay \in Nat \ {0} /\ MaxBillings \in Nat

VARIABLES
  sub,          \* the row of subscriptions
  today,
  billers,      \* what each request will save, and whether another save came between
  nightly,      \* the same for the job
  billingsBegun,
  paidUntil,    \* history: the end of the last period that this branch paid for or was granted
  spoilt        \* history: why the branch may be refused before that

subscriptionVars == <<sub, today, billers, nightly, billingsBegun, paidUntil, spoilt>>

SubStatus == {"none", "trialing", "active", "past_due", "canceled", "expired"}
LastDate == LastDay + Trial + Period + Grace
SubRow == [status: SubStatus, trial: 0 .. LastDate, period: 0 .. LastDate, grace: 0 .. LastDate, linked: BOOLEAN]
NoSub == [status |-> "none", trial |-> 0, period |-> 0, grace |-> 0, linked |-> FALSE]
OnTrial == [NoSub EXCEPT !.status = "trialing", !.trial = today + Trial]

IdleBiller == [does |-> "nothing", row |-> NoSub, until |-> 0, stale |-> FALSE]

SubscriptionInit ==
  /\ today = 1
  /\ sub \in {NoSub, OnTrial}
  /\ billers = [c \in Billers |-> IdleBiller]
  /\ nightly = IdleBiller
  /\ billingsBegun = 0
  /\ paidUntil = 0
  /\ spoilt = {}

Subscribed == sub.status # "none"

---------------------------------------------------------------------------
(* The guard of every request of the branch (evaluateSubscription).  Mutant: cancelling ends the access. *)
AdmittedUncancelled(row, day) ==
  \/ row.trial > day
  \/ row.grace > day
  \/ row.status = "active"
Admitted(row, day) ==
  \/ row.trial > day
  \/ row.grace > day
  \/ row.status = "canceled" /\ row.period > day
  \/ row.status = "active"

---------------------------------------------------------------------------
(* Requests: what they read decides what they will save. *)

BeginBilling(c, does, row, until) ==
  /\ billers[c] = IdleBiller
  /\ billingsBegun < MaxBillings
  /\ billingsBegun' = billingsBegun + 1
  /\ billers' = [billers EXCEPT ![c] = [does |-> does, row |-> row, until |-> until, stale |-> FALSE]]
  /\ UNCHANGED <<sub, today, nightly, paidUntil, spoilt>>

(* The owner starts a payment; the row waits for it as a trial, with the trial it had. *)
Initialize(c) ==
  BeginBilling(c, "initialize", IF Subscribed THEN [sub EXCEPT !.status = "trialing"] ELSE OnTrial, 0)

(* The provider takes a payment of this branch, from the owner's page or as a renewal. *)
TakePayment ==
  /\ Subscribed
  /\ paidUntil' = IF today + Period > paidUntil THEN today + Period ELSE paidUntil
  /\ spoilt' = spoilt \cup {"not credited"}
  /\ UNCHANGED <<sub, today, billers, nightly, billingsBegun>>

(* charge.success for a charge of today or of an earlier day, of this branch or of another branch of the *)
(* business, or the owner's return from the payment page, which makes the row if there is none: this     *)
(* branch is the one that is found.  The period ends when the provider says, or counts from today.       *)
Paid(end) == [sub EXCEPT !.status = "active", !.trial = 0, !.period = end, !.linked = TRUE]
ChargeSuccess(c) ==
  \E day \in 1 .. today, byOwner \in BOOLEAN :
    /\ Subscribed \/ byOwner
    /\ \E end \in {day + Period, today + Period} : BeginBilling(c, "charge", Paid(end), end)

(* Another branch of the business is found for this branch's payment, and the answer is as good. *)
CreditOtherBranch(c) ==
  /\ billers[c] = IdleBiller
  /\ "not credited" \in spoilt
  /\ billingsBegun < MaxBillings
  /\ billingsBegun' = billingsBegun + 1
  /\ UNCHANGED <<sub, today, billers, nightly, paidUntil, spoilt>>

SubscriptionCreate(c) == Subscribed /\ BeginBilling(c, "link", [sub EXCEPT !.linked = TRUE], 0)

(* Found by the e-mail as well: the invoice may be another branch's. *)
InvoicePaymentFailed(c) ==
  Subscribed /\ BeginBilling(c, "failed", [sub EXCEPT !.status = "past_due", !.grace = today + Grace], 0)

SubscriptionDisable(c) == sub.linked /\ BeginBilling(c, "cancel", [sub EXCEPT !.status = "canceled"], 0)

CancelSubscription(c) ==
  sub.status \in {"active", "past_due"} /\ BeginBilling(c, "cancel", [sub EXCEPT !.status = "canceled"], 0)

ExtendGracePeriod(c) ==
  /\ Subscribed
  /\ BeginBilling(c, "extend", [sub EXCEPT !.grace = today + Grace,
                                    !.status = IF @ = "expired" THEN "past_due" ELSE @], 0)

AdminGrant(c) ==
  BeginBilling(c, "grant", [sub EXCEPT !.status = "active", !.trial = 0, !.grace = 0, !.period = today + Period],
        today + Period)

---------------------------------------------------------------------------
(* A save makes every other request that is under way stale. *)
Aged(b) == [b EXCEPT !.stale = b # IdleBiller]

(* Why the paid time may be lost after this save; a charge or a grant that reaches as far as what was paid *)
(* makes good what was spoilt, and a payment that was not credited to this branch.                         *)
Reasons == {"overlap", "plan change", "payment failed", "late event", "not credited"}
Spoils(b) ==
  { why \in Reasons :
      \/ why = "overlap" /\ b.stale
      \/ why = "plan change" /\ b.does = "initialize"
      \/ why = "payment failed" /\ b.does = "failed"
      \/ why = "late event" /\ b.does \in {"charge", "grant"} /\ b.until < paidUntil }
SpoiltBy(b) == IF Spoils(b) = {} /\ b.does \in {"charge", "grant"} THEN {} ELSE spoilt \cup Spoils(b)

SaveSub(c) ==
  LET me == billers[c]
  IN /\ me # IdleBiller
     /\ sub' = me.row
     /\ billers' = [d \in Billers |-> IF d = c THEN IdleBiller ELSE Aged(billers[d])]
     /\ nightly' = Aged(nightly)
     /\ spoilt' = SpoiltBy(me)
     /\ paidUntil' = IF me.does = "grant" /\ me.until > paidUntil THEN me.until ELSE paidUntil
     /\ UNCHANGED <<today, billingsBegun>>

(* The request fails, at the provider or with the server. *)
DropRequest(c) ==
  /\ billers[c] # IdleBiller
  /\ billers' = [billers EXCEPT ![c] = IdleBiller]
  /\ UNCHANGED <<sub, today, nightly, billingsBegun, paidUntil, spoilt>>

---------------------------------------------------------------------------
(* The job at midnight, and time. *)

Ended(day) == day # 0 /\ day < today
Overdue == \/ sub.status = "trialing" /\ Ended(sub.trial)
           \/ sub.status = "past_due" /\ Ended(sub.grace)
           \/ sub.status = "canceled" /\ Ended(sub.period)

ReadOverdue ==
  /\ nightly = IdleBiller
  /\ Overdue
  /\ nightly' = [IdleBiller EXCEPT !.does = "expire", !.row = [sub EXCEPT !.status = "expired"]]
  /\ UNCHANGED <<sub, today, billers, billingsBegun, paidUntil, spoilt>>

SaveOverdue ==
  /\ nightly # IdleBiller
  /\ sub' = nightly.row
  /\ spoilt' = SpoiltBy(nightly)
  /\ nightly' = IdleBiller
  /\ billers' = [c \in Billers |-> Aged(billers[c])]
  /\ UNCHANGED <<today, billingsBegun, paidUntil>>

DayPasses ==
  /\ today < LastDay
  /\ today' = today + 1
  /\ UNCHANGED <<sub, billers, nightly, billingsBegun, paidUntil, spoilt>>

SubscriptionNext ==
  \/ \E c \in Billers :
       \/ Initialize(c) \/ ChargeSuccess(c) \/ SubscriptionCreate(c) \/ InvoicePaymentFailed(c)
       \/ SubscriptionDisable(c) \/ CancelSubscription(c) \/ ExtendGracePeriod(c) \/ AdminGrant(c)
       \/ CreditOtherBranch(c) \/ SaveSub(c) \/ DropRequest(c)
  \/ TakePayment \/ ReadOverdue \/ SaveOverdue \/ DayPasses

SubscriptionSpec == SubscriptionInit /\ [][SubscriptionNext]_subscriptionVars

---------------------------------------------------------------------------
(* The row, the requests and the histories have their types. *)
SubscriptionTypeOK ==
  /\ sub \in SubRow
  /\ today \in 1 .. LastDay
  /\ \A b \in { billers[c] : c \in Billers } \cup {nightly} :
       b.row \in SubRow /\ b.until \in 0 .. LastDate /\ b.stale \in BOOLEAN
  /\ billingsBegun \in 0 .. MaxBillings
  /\ paidUntil \in 0 .. LastDate
  /\ spoilt \subseteq Reasons

(* A branch is served until the end of what it paid for or was granted, cancelled or not, unless its last *)
(* payment has not been credited to it -- the event is late, or credited another branch --, the owner     *)
(* started another payment since, a payment failed, an old charge was delivered again, or one request or  *)
(* the job saved a row that another had changed.                                                          *)
PaidIsServed == today < paidUntil /\ spoilt = {} => Admitted(sub, today)

=============================================================================
