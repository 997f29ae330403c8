---------------------------- MODULE WebhookDoor ----------------------------
(***************************************************************************)
(* What happens to a deposit a payment provider reports, from its arrival   *)
(* to the answer (the three webhook endpoints of payment.controller.ts).    *)
(* They differ in the signature they ask for and in where the payload has   *)
(* its fields; the steps are the same.  A delivery that is not answered     *)
(* with a success is sent again by the provider, byte for byte.             *)
(*                                                                          *)
(* The settlement itself is one step here; module Settlement has its parts. *)
(* Notifications of anything but a successful payment are answered and      *)
(* dropped, and simulated ones, which production ignores, are left out.     *)
(***************************************************************************)
EXTENDS Naturals, FiniteSets

CONSTANTS
  Deposits,        \* what the guests paid, each one payload of a provider
  Anchored,        \* those whose payload names a terminal or an account of the branch
  Dated,           \* those whose signature covers a timestamp
  DepositAmount,   \* DepositAmount[d]: a sum, in kobo or naira alike
  DoorBills,       \* bills of the branch
  DoorCalls,       \* deliveries being handled at the same time
  MaxDoorCalls,    \* bound: deliveries that arrive in a behaviour
  Sums,            \* totals of bills
  NoDeposit, NoBill

ASSUME DoorAssumption ==
  /\ Anchored \subseteq Deposits /\ Dated \subseteq Deposits
  /\ DepositAmount \in [Deposits -> Sums]
  /\ NoDeposit \notin Deposits /\ NoBill \notin DoorBills
  /\ "desk" \notin Deposits \cup {NoDeposit}
  /\ MaxDoorCalls \in Nat

VARIABLES
  accounts,     \* the bills: total, reference given to the provider, who paid them
  provider,     \* the branch's settings for the provider
  aged,         \* the deliveries whose timestamp is no longer fresh
  ledger,       \* webhook_events of verified deliveries: [deposit, outcome]
  told,         \* history: deposits the staff were alerted about
  unheard,      \* history: deposits whose alert could not be written, which only the log knows
  accepted,     \* history: deposits whose delivery was answered with a success
  doors,        \* the deliveries being handled
  arrived       \* deliveries so far

doorVars == <<accounts, provider, aged, ledger, told, unheard, accepted, doors, arrived>>

(* Who paid a bill: nobody, the desk, or a deposit. *)
Payer == Deposits \cup {NoDeposit, "desk"}
Account == [total: Sums, reference: Deposits \cup {NoDeposit}, paidBy: Payer, voided: BOOLEAN]
WebhookOutcome == {"settled", "already_paid", "duplicate", "no_bill", "amount_mismatch", "error"}
IdleDoor == [at |-> "idle", deposit |-> NoDeposit, bill |-> NoBill]

DoorInit ==
  /\ accounts \in [DoorBills -> { a \in Account : a.paidBy = NoDeposit /\ ~a.voided }]
  /\ \A b, c \in DoorBills : b # c /\ accounts[b].reference # NoDeposit
                               => accounts[b].reference # accounts[c].reference
  /\ provider \in {"missing", "wrong", "right"}
  /\ aged = {}
  /\ ledger = {}
  /\ told = {}
  /\ unheard = {}
  /\ accepted = {}
  /\ doors = [c \in DoorCalls |-> IdleDoor]
  /\ arrived = 0

Unpaid(b) == accounts[b].paidBy = NoDeposit
ReferredBy(d) == { b \in DoorBills : accounts[b].reference = d }
Fits(d, b) == accounts[b].total = DepositAmount[d]

---------------------------------------------------------------------------
(* The ledger takes every outcome; a row that cannot be written is logged, and the answer goes out. *)
Reply(c, outcome, success) ==
  LET d == doors[c].deposit
  IN /\ ledger' \in {ledger, ledger \cup {[deposit |-> d, outcome |-> outcome]}}
     /\ accepted' = IF success THEN accepted \cup {d} ELSE accepted
     /\ doors' = [doors EXCEPT ![c] = IdleDoor]

(* A refusal (403) is recorded as unverified, which no look-up asks for. *)
Refuse(c) == doors' = [doors EXCEPT ![c] = IdleDoor] /\ UNCHANGED <<ledger, accepted>>

GoesOn(c, at, b) ==
  doors' = [doors EXCEPT ![c].at = at, ![c].bill = b] /\ UNCHANGED <<ledger, accepted>>

Before(c, at) == doors[c].at = at /\ UNCHANGED arrived
OutsideTheDesk == UNCHANGED <<provider, aged>>

(* The provider delivers what has not been accepted; once in a while what has, too. *)
Deliver(c) ==
  /\ doors[c].at = "idle"
  /\ arrived < MaxDoorCalls
  /\ arrived' = arrived + 1
  /\ \E d \in Deposits : doors' = [doors EXCEPT ![c] = [at |-> "verify", deposit |-> d, bill |-> NoBill]]
  /\ OutsideTheDesk /\ UNCHANGED <<accounts, ledger, told, unheard, accepted>>

(* The branch: by its terminal, its account or the bill of the reference. *)
BranchFound(d) == d \in Anchored \/ ReferredBy(d) # {}

(* Nothing is settled on a signature that was not asked for: a branch without a method or a secret refuses. *)
Signed == provider = "right"
Fresh(d) == d \notin aged
Genuine(d) == Signed /\ (d \in Dated => Fresh(d))

VerifyDelivery(c) ==
  LET d == doors[c].deposit
  IN /\ Before(c, "verify")
     /\ IF BranchFound(d) /\ Genuine(d) THEN GoesOn(c, "dedupe", NoBill) ELSE Refuse(c)
     /\ OutsideTheDesk /\ UNCHANGED <<accounts, told, unheard>>

(* Mutant: whatever was recorded of the bytes makes them a duplicate, errors as well. *)
SettledPayloadOfAny(d) == \E o \in WebhookOutcome : [deposit |-> d, outcome |-> o] \in ledger
HasSettledPayload(d) ==
  \E o \in {"settled", "already_paid", "duplicate"} : [deposit |-> d, outcome |-> o] \in ledger

(* The look-up fails open: a recorded delivery may pass. *)
Deduplicate(c) ==
  LET d == doors[c].deposit
  IN /\ Before(c, "dedupe")
     /\ \/ HasSettledPayload(d) /\ Reply(c, "duplicate", TRUE)
        \/ GoesOn(c, "reference", NoBill)
     /\ OutsideTheDesk /\ UNCHANGED <<accounts, told, unheard>>

---------------------------------------------------------------------------
(* alertPaymentReconciliation never throws: the staff are alerted, or the notification cannot be *)
(* written, which is logged, and the answer goes out all the same.                               *)
Alert(d) ==
  \/ told' = told \cup {d} /\ UNCHANGED unheard
  \/ unheard' = unheard \cup {d} /\ UNCHANGED told

(* resolveWebhookBill, and what is made of the bill it read. *)
Judge(c, b) ==
  LET d == doors[c].deposit
  IN \/ ~Unpaid(b) /\ Reply(c, "already_paid", TRUE) /\ UNCHANGED <<told, unheard>>
     \/ Unpaid(b) /\ ~Fits(d, b) /\ Alert(d) /\ Reply(c, "amount_mismatch", TRUE)
     \/ Unpaid(b) /\ Fits(d, b) /\ GoesOn(c, "settle", b) /\ UNCHANGED <<told, unheard>>

ResolveByReference(c) ==
  /\ Before(c, "reference")
  /\ \/ ReferredBy(doors[c].deposit) = {} /\ GoesOn(c, "match", NoBill) /\ UNCHANGED <<told, unheard>>
     \/ \E b \in ReferredBy(doors[c].deposit) : Judge(c, b)
  /\ OutsideTheDesk /\ UNCHANGED accounts

(* A transfer with a reference of the bank's: the only unpaid bill of that amount, or nobody knows. *)
ResolveByAmount(c) ==
  LET d == doors[c].deposit
      fitting == { b \in DoorBills : Unpaid(b) /\ ~accounts[b].voided /\ Fits(d, b) }
  IN /\ Before(c, "match")
     /\ IF Cardinality(fitting) = 1
        THEN (\E b \in fitting : GoesOn(c, "settle", b)) /\ UNCHANGED <<told, unheard>>
        ELSE Alert(d) /\ Reply(c, "no_bill", TRUE)
     /\ OutsideTheDesk /\ UNCHANGED accounts

(* processPayment: once per key, and then the claim, which a voided bill does not refuse and a paid *)
(* one answers as if this delivery had paid it.                                                    *)
Settle(c) ==
  LET d == doors[c].deposit
      b == doors[c].bill
      done == \E o \in DoorBills : accounts[o].paidBy = d
  IN /\ Before(c, "settle")
     /\ accounts' = IF done \/ ~Unpaid(b) THEN accounts
                    ELSE [accounts EXCEPT ![b].paidBy = d, ![b].reference = d]
     /\ GoesOn(c, "answer", b)
     /\ OutsideTheDesk /\ UNCHANGED <<told, unheard>>

AnswerSettled(c) ==
  Before(c, "answer") /\ Reply(c, "settled", TRUE) /\ OutsideTheDesk /\ UNCHANGED <<accounts, told, unheard>>

(* Orders are not served yet, or the transaction fails: 500, and the provider comes back. *)
SettlementFails(c) ==
  Before(c, "settle") /\ Reply(c, "error", FALSE) /\ OutsideTheDesk /\ UNCHANGED <<accounts, told, unheard>>

(* The server stops, or the provider stops waiting: no answer. *)
LoseDelivery(c) ==
  /\ doors[c].at # "idle"
  /\ doors' = [doors EXCEPT ![c] = IdleDoor]
  /\ OutsideTheDesk /\ UNCHANGED <<accounts, ledger, told, unheard, accepted, arrived>>

---------------------------------------------------------------------------
(* Around the door: the desk takes cash or bills anew, the branch edits its provider, timestamps age. *)
DeskPays(b) == Unpaid(b) /\ ~accounts[b].voided /\ accounts' = [accounts EXCEPT ![b].paidBy = "desk"]
DeskVoids(b) == Unpaid(b) /\ ~accounts[b].voided /\ accounts' = [accounts EXCEPT ![b].voided = TRUE]

AtTheDesk ==
  /\ \E b \in DoorBills : DeskPays(b) \/ DeskVoids(b)
  /\ OutsideTheDesk /\ UNCHANGED <<ledger, told, unheard, accepted, doors, arrived>>

Configure ==
  /\ provider # "right" /\ provider' = "right"
  /\ UNCHANGED <<accounts, aged, ledger, told, unheard, accepted, doors, arrived>>

Ages ==
  /\ \E d \in Dated \ aged : aged' = aged \cup {d}
  /\ UNCHANGED <<accounts, provider, ledger, told, unheard, accepted, doors, arrived>>

DoorNext ==
  \/ \E c \in DoorCalls :
       \/ Deliver(c) \/ VerifyDelivery(c) \/ Deduplicate(c) \/ ResolveByReference(c) \/ ResolveByAmount(c)
       \/ Settle(c) \/ AnswerSettled(c) \/ SettlementFails(c) \/ LoseDelivery(c)
  \/ AtTheDesk \/ Configure \/ Ages

DoorSpec == DoorInit /\ [][DoorNext]_doorVars

---------------------------------------------------------------------------
(* Bills, ledger, deliveries and histories have their types. *)
DoorTypeOK ==
  /\ accounts \in [DoorBills -> Account]
  /\ provider \in {"missing", "wrong", "right"}
  /\ aged \subseteq Dated
  /\ ledger \subseteq [deposit: Deposits, outcome: WebhookOutcome]
  /\ told \subseteq Deposits
  /\ unheard \subseteq Deposits
  /\ accepted \subseteq Deposits
  /\ doors \in [DoorCalls -> [at: {"idle", "verify", "dedupe", "reference", "match", "settle", "answer"},
                              deposit: Deposits \cup {NoDeposit}, bill: DoorBills \cup {NoBill}]]
  /\ arrived \in 0 .. MaxDoorCalls

PaysFor(d, b) == accounts[b].paidBy = d
PaidElsewhere(d, b) == ~Unpaid(b) /\ (Fits(d, b) \/ accounts[b].reference = d)

PaidFor(d) == \E b \in DoorBills : PaysFor(d, b) \/ PaidElsewhere(d, b)

(* Once the provider was told that all is well, which ends its retries, the deposit paid a bill, or a    *)
(* bill it could have been for was paid by something else, or an alert was raised: the staff got it, or  *)
(* it could not be written and only the log knows (so "never silently dropped", the comment above the    *)
(* payload's fields, is as much as the log says).  What the ledger calls settled or paid already, and    *)
(* what is dropped as a duplicate of that, did pay or met a paid bill: an alert is no excuse for it.     *)
(* And a deposit never pays two bills.                                                                   *)
AcceptedIsAccounted ==
  \A d \in Deposits :
    /\ Cardinality({ b \in DoorBills : PaysFor(d, b) }) <= 1
    /\ d \in accepted => PaidFor(d) \/ d \in told \/ d \in unheard
    /\ \A o \in {"settled", "already_paid", "duplicate"} :
         [deposit |-> d, outcome |-> o] \in ledger => PaidFor(d)

=============================================================================
