----------------------------- MODULE GuestBill -----------------------------
(***************************************************************************)
(* The amounts of one tab, or of one group of online orders: what its       *)
(* orders come to, the bills made of them at the desk, at the checkout and  *)
(* at a request to pay cash, and what the guest's page and the receipt show *)
(* (bill-totals.ts and everyone who calls it).  Kobo are integers; a        *)
(* percentage is in tenths, and rounds half up.                             *)
(*                                                                          *)
(* A handler is one step: module BillDesk has their interleavings, and      *)
(* takes any amount for a total.                                            *)
(***************************************************************************)
EXTENDS Integers, Sequences, FiniteSets, FiniteSetsExt

CONSTANTS
  Lines,         \* orders of the tab or group
  LinePrices,    \* what one order comes to: quantity * unit price + modifiers
  ServiceRates, TaxRates,   \* settings of the business, in tenths of a percent
  Fees,          \* delivery fees
  Discounts,     \* discounts in kobo
  DiscountRates, \* discounts in tenths of a percent
  MinOrder,      \* the subtotal from which the business allows a discount
  MaxSlips       \* bound: bills of the tab or group

ASSUME GuestBillAssumption ==
  /\ LinePrices \subseteq Nat /\ ServiceRates \subseteq Nat /\ TaxRates \subseteq Nat
  /\ Fees \subseteq Nat /\ Discounts \subseteq Nat /\ DiscountRates \subseteq Nat
  /\ MinOrder \in Nat /\ MaxSlips \in Nat /\ IsFiniteSet(Lines)

VARIABLES
  kind,      \* "dine_in", "takeaway" (tabs) or "group" (online orders without a tab)
  lines,     \* the orders, in no order: [status, subtotal]
  rates,     \* the business's service charge and tax
  fee,       \* the delivery fee of a group's first order; no tab is sent out for delivery
  progress,  \* status of the tab or group
  slips,     \* its bills, oldest first
  fresh      \* history: bills computed since the orders or the rates last changed

guestVars == <<kind, lines, rates, fee, progress, slips, fresh>>

LineStatus == {"none", "billable", "excluded"}
Rates == [service: ServiceRates, tax: TaxRates]
SlipStatus == {"pending", "pending_cash", "voided", "paid"}
Slip == [subtotal: Nat, service: Nat, tax: Nat, fee: Nat, discount: Nat, total: Nat,
         status: SlipStatus, paid: BOOLEAN, voided: BOOLEAN, reference: BOOLEAN]

GuestInit ==
  /\ kind \in {"dine_in", "takeaway", "group"}
  /\ lines = [o \in Lines |-> [status |-> "none", subtotal |-> 0]]
  /\ rates \in Rates
  /\ fee \in IF kind = "group" THEN Fees \cup {0} ELSE {0}
  /\ progress = "open"
  /\ slips = << >>
  /\ fresh = {}

---------------------------------------------------------------------------
(* Bill math. *)
HasTab == kind # "group"

AtLeastZero(n) == IF n < 0 THEN 0 ELSE n
Percent(amount, tenths) == (2 * amount * tenths + 1000) \div 2000

Billable == { o \in Lines : lines[o].status = "billable" }
Subtotal == MapThenSumSet(LAMBDA o : lines[o].subtotal, Billable)

(* Mutant: the tax is forgotten when a component changes. *)
RecomputedUntaxed(s) == AtLeastZero(s.subtotal + s.service + s.fee - s.discount)
Recomputed(s) == AtLeastZero(s.subtotal + s.service + s.tax + s.fee - s.discount)

Totals(r, discount) ==
  LET parts == [subtotal |-> Subtotal, service |-> Percent(Subtotal, r.service),
                tax |-> Percent(Subtotal, r.tax), fee |-> fee, discount |-> discount]
  IN [subtotal |-> parts.subtotal, service |-> parts.service, tax |-> parts.tax, fee |-> parts.fee,
      discount |-> discount,
      total |-> AtLeastZero(parts.subtotal + parts.service + parts.tax + parts.fee - discount)]

(* Mutant: the checkout charges no tax. *)
CheckoutTotalsUntaxed == Totals([rates EXCEPT !.tax = 0], 0)
CheckoutTotals == Totals(rates, 0)

(* What the guest's page shows: two handlers, one for a tab and one for a group. *)
TabPage == Totals(rates, 0)
GroupPage == Totals(rates, 0)
ShownTotal == IF HasTab THEN TabPage.total ELSE GroupPage.total

Issued(t, status, reference) ==
  [subtotal |-> t.subtotal, service |-> t.service, tax |-> t.tax, fee |-> t.fee,
   discount |-> t.discount, total |-> t.total,
   status |-> status, paid |-> FALSE, voided |-> FALSE, reference |-> reference]

Issue(s, r) ==
  /\ Len(slips) < MaxSlips
  /\ slips' = Append(slips, s)
  /\ fresh' = IF r = rates THEN fresh \cup {Len(slips) + 1} ELSE fresh

Slips == 1 .. Len(slips)
Live == { i \in Slips : ~slips[i].voided }
NewestOf(S) == { i \in S : \A j \in S : j <= i }

MayPay == HasTab => progress \in {"open", "billed"}
HasOrders == \E o \in Lines : lines[o].status # "none"

---------------------------------------------------------------------------
(* Orders.  A group takes more of them after it paid, too; a round of the staff reopens a billed tab. *)
NewLine(o) ==
  /\ lines[o].status = "none"
  /\ \E p \in LinePrices : lines' = [lines EXCEPT ![o] = [status |-> "billable", subtotal |-> p]]
  /\ fresh' = {}

GuestOrders(o) ==
  /\ HasTab => progress = "open"
  /\ NewLine(o)
  /\ UNCHANGED <<kind, rates, fee, progress, slips>>

StaffRound(o) ==
  /\ HasTab /\ progress \in {"open", "billed"}
  /\ NewLine(o)
  /\ progress' = "open"
  /\ UNCHANGED <<kind, rates, fee, slips>>

ChangeLine(o) ==
  /\ lines[o].status # "none"
  /\ \E p \in LinePrices \ {lines[o].subtotal} : lines' = [lines EXCEPT ![o].subtotal = p]
  /\ fresh' = {}
  /\ UNCHANGED <<kind, rates, fee, progress, slips>>

(* Declined or cancelled: the order stays, and counts no more. *)
ExcludeLine(o) ==
  /\ lines[o].status = "billable"
  /\ lines' = [lines EXCEPT ![o].status = "excluded"]
  /\ fresh' = {}
  /\ UNCHANGED <<kind, rates, fee, progress, slips>>

(* Only before a supervisor approved it. *)
RemoveLine(o) ==
  /\ lines[o].status = "billable"
  /\ lines' = [lines EXCEPT ![o] = [status |-> "none", subtotal |-> 0]]
  /\ fresh' = {}
  /\ UNCHANGED <<kind, rates, fee, progress, slips>>

ChangeRates ==
  /\ \E r \in Rates \ {rates} : rates' = r
  /\ fresh' = {}
  /\ UNCHANGED <<kind, lines, fee, progress, slips>>

---------------------------------------------------------------------------
(* The desk bills the tab: a live bill is recomputed and keeps its discount.  The cashier may give *)
(* other rates, and a discount for a new bill.                                                     *)
Rebilled(s, t) ==
  LET parts == [s EXCEPT !.subtotal = t.subtotal, !.service = t.service, !.tax = t.tax, !.fee = t.fee]
  IN [parts EXCEPT !.total = Recomputed(parts)]

Remade(i, r) == IF r = rates THEN fresh \cup {i} ELSE fresh \ {i}

GenerateBill(r, discount) ==
  /\ HasTab /\ progress # "paid"
  /\ \/ /\ Live = {}
        /\ Issue(Issued(Totals(r, discount), "pending", FALSE), r)
        /\ progress' = "billed"
     \/ \E i \in NewestOf(Live) :
          /\ ~slips[i].paid
          /\ slips' = [slips EXCEPT ![i] = Rebilled(slips[i], Totals(r, discount))]
          /\ fresh' = Remade(i, r)
          /\ UNCHANGED progress
  /\ UNCHANGED <<kind, lines, rates, fee>>

DeskBills == \E r \in Rates, discount \in Discounts \cup {0} : GenerateBill(r, discount)

(* Whichever bill of the tab the database returns first, voided or not. *)
ApplyDiscount ==
  /\ HasTab
  /\ \E i \in Slips :
       /\ ~slips[i].paid
       /\ slips[i].subtotal >= MinOrder
       /\ \E d \in Discounts \cup { Percent(slips[i].subtotal, p) : p \in DiscountRates } :
            LET s == [slips[i] EXCEPT !.discount = d]
            IN slips' = [slips EXCEPT ![i] = [s EXCEPT !.total = Recomputed(s)]]
  /\ UNCHANGED <<kind, lines, rates, fee, progress, fresh>>

---------------------------------------------------------------------------
(* The guest presses "pay": any pending bill is asked for as it stands, or a new one is made. *)
InitializePayment ==
  /\ MayPay /\ HasOrders
  /\ LET pending == { i \in Slips : slips[i].status = "pending" }
     IN \/ /\ pending = {}
           /\ Issue(Issued(CheckoutTotals, "pending", TRUE), rates)
        \/ \E i \in pending :
             /\ slips' = [slips EXCEPT ![i].reference = TRUE]
             /\ UNCHANGED fresh
  /\ UNCHANGED <<kind, lines, rates, fee, progress>>

(* The newest bill, voided or not, waits for cash with the fee of today. *)
SubmitCashIntent ==
  /\ kind = "dine_in" /\ MayPay /\ HasOrders
  /\ \/ /\ slips = << >>
        /\ Issue(Issued(CheckoutTotals, "pending_cash", TRUE), rates)
     \/ \E i \in NewestOf(Slips) :
          /\ ~slips[i].paid
          /\ ~(slips[i].status = "pending_cash" /\ ~slips[i].voided)
          /\ LET s == [slips[i] EXCEPT !.status = "pending_cash", !.fee = CheckoutTotals.fee]
             IN slips' = [slips EXCEPT ![i] = [s EXCEPT !.total = Recomputed(s)]]
          /\ UNCHANGED fresh
  /\ UNCHANGED <<kind, lines, rates, fee, progress>>

RemoveCashRequest ==
  /\ HasTab /\ progress # "paid"
  /\ \E i \in NewestOf(Live) :
       /\ ~slips[i].paid
       /\ slips' = [slips EXCEPT ![i].voided = TRUE, ![i].status = "voided"]
  /\ UNCHANGED <<kind, lines, rates, fee, progress, fresh>>

(* The desk settles the newest live bill, a webhook the one it refers to; the others are voided. *)
Pay ==
  /\ \E i \in (IF HasTab THEN NewestOf(Live) ELSE {}) \cup { j \in Slips : slips[j].reference } :
       /\ ~slips[i].paid
       /\ slips' = [j \in Slips |-> IF j = i THEN [slips[j] EXCEPT !.paid = TRUE, !.status = "paid"]
                                    ELSE [slips[j] EXCEPT !.voided = slips[j].voided \/ ~slips[j].paid]]
  /\ progress' = "paid"
  /\ UNCHANGED <<kind, lines, rates, fee, fresh>>

GuestNext ==
  \/ \E o \in Lines : GuestOrders(o) \/ StaffRound(o) \/ ChangeLine(o) \/ ExcludeLine(o) \/ RemoveLine(o)
  \/ ChangeRates
  \/ DeskBills \/ ApplyDiscount
  \/ InitializePayment \/ SubmitCashIntent \/ RemoveCashRequest \/ Pay

GuestSpec == GuestInit /\ [][GuestNext]_guestVars

---------------------------------------------------------------------------
(* The receipt's bill: the last paid live one, else the last live one, else the last. *)
(* Mutant: the last live one, paid or not. *)
ReceiptSlipLive == IF Live # {} THEN NewestOf(Live) ELSE NewestOf(Slips)
ReceiptSlip ==
  LET paid == { i \in Live : slips[i].paid }
  IN IF paid # {} THEN NewestOf(paid) ELSE IF Live # {} THEN NewestOf(Live) ELSE NewestOf(Slips)

(* Orders, rates, bills and histories have their types. *)
GuestTypeOK ==
  /\ kind \in {"dine_in", "takeaway", "group"}
  /\ lines \in [Lines -> [status: LineStatus, subtotal: LinePrices \cup {0}]]
  /\ rates \in Rates
  /\ fee \in Fees \cup {0}
  /\ progress \in {"open", "billed", "paid"}
  /\ slips \in Seq(Slip) /\ Len(slips) <= MaxSlips
  /\ fresh \subseteq Slips

(* A bill adds up, whoever changed it last: its total is the sum of its parts less the discount, never *)
(* below zero, and its charges are those of its own subtotal at rates of the business ("every           *)
(* percentage applies to the subtotal, never compounded").                                              *)
AddsUp(s) ==
  /\ s.total = AtLeastZero(s.subtotal + s.service + s.tax + s.fee - s.discount)
  /\ \E r \in Rates : s.service = Percent(s.subtotal, r.service) /\ s.tax = Percent(s.subtotal, r.tax)
BillAddsUp == \A i \in Slips : AddsUp(slips[i])

(* "customers saw one total and paid another" (bill-totals.ts): a bill made or remade since the orders *)
(* and the rates last changed comes to what the guest's page shows, less its discount.                 *)
FreshBillIsShown ==
  \A i \in fresh : slips[i].total = AtLeastZero(ShownTotal - slips[i].discount)

(* "so a settled tab shows the bill actually paid" (buildReceiptData): once the tab or group is paid the   *)
(* receipt shows a paid bill, whatever was billed, asked for and voided before and since, unless what came *)
(* late paid a bill that was voided already.                                                               *)
SettledShowsPayment ==
  progress = "paid" =>
    \/ \E i \in ReceiptSlip : slips[i].paid
    \/ \E i \in Slips : slips[i].paid /\ slips[i].voided

(* All three.  They say that a fresh bill asks what the page shows and that the receipt proves a payment,   *)
(* not that shown, asked and proved are always one amount: a pending bill that a checkout finds is asked    *)
(* for as it was made, though orders or rates changed since (customer.service.ts:757).                      *)
AmountsAgree == BillAddsUp /\ FreshBillIsShown /\ SettledShowsPayment

=============================================================================
