--------------------------- MODULE SettlementProofs ---------------------------
(***************************************************************************)
(* Proofs about module Settlement, for any number of scopes, bills,        *)
(* references and requests: its safety properties, that a settlement is    *)
(* all or nothing, and that the settlement path implements PaymentLedger.  *)
(***************************************************************************)
EXTENDS Settlement, TLAPS

-----------------------------------------------------------------------------
(* The inductive invariant.                                                  *)

(* What a request in flight knows of the bill it holds: the row it read may  *)
(* be stale, but its scope, its amount due and a payment on it cannot be.    *)
HoldsBill(q) ==
    /\ q.bill \in BillId /\ q.scope \in Scope /\ q.row \in Bill
    /\ Exists(q.bill)
    /\ q.row.scope = q.scope /\ bills[q.bill].scope = q.scope
    /\ q.row.total_kobo = bills[q.bill].total_kobo
    /\ Paid(q.row) \/ q.row.idempotency_key # NULL => Paid(bills[q.bill])

(* A delivery acts under its reference and on a bill of its own amount.      *)
IsDelivery(q) ==
    /\ q.key \in Ref
    /\ q.amount = RefAmount[q.key]
    /\ q.pc \in {"check", "fast", "settle", "receipt"} => q.row.total_kobo = q.amount

(* What RecordedDeliveryIsPaid asks for: a payment that answers delivery p.  *)
Delivered(p) ==
    \E b \in BillId :
        /\ Exists(b)
        /\ Paid(bills[b])
        /\ bills[b].payment_reference = p \/ bills[b].total_kobo = RefAmount[p]

RequestOK(q) ==
    /\ q.pc \in {"check", "fast", "settle", "receipt"} => HoldsBill(q)
    /\ q.pc = "confirm" => q.scope \in Scope /\ q.op # "webhook"
    /\ q.pc \in {"resolve", "record"} => q.op = "webhook"
    /\ q.pc \in {"check", "fast", "settle", "resolve", "confirm", "idle"} => q.outcome = "none"
    /\ q.op = "webhook" => IsDelivery(q)
    /\ q.op # "webhook" => q.key \notin Ref
    /\ q.outcome \in {"settled", "already", "existing", "already_paid"}
          => q.bill \in BillId /\ Exists(q.bill) /\ Paid(bills[q.bill])
    /\ q.pc = "receipt" => q.outcome = "settled" /\ q.row = bills[q.bill]
    /\ q.pc = "record" => /\ q.outcome \in {"settled", "already", "existing", "already_paid"}
                          /\ Delivered(q.key)

(* A key is on a bill only once it is paid, and a delivery's key is there    *)
(* together with its reference.                                              *)
BillOK(b) ==
    Exists(b) =>
        /\ bills[b].idempotency_key # NULL => Paid(bills[b])
        /\ bills[b].idempotency_key \in Ref
              => bills[b].payment_reference = bills[b].idempotency_key

Inv ==
    /\ TypeOK
    /\ \A r \in Request : RequestOK(requests[r])
    /\ \A b \in BillId : BillOK(b)
    /\ SettledOnce
    /\ RecordedDeliveryIsPaid

-----------------------------------------------------------------------------
(* The requests that change nothing but themselves.                          *)

LEMMA BecomeType ==
    ASSUME TypeOK, NEW r \in Request, NEW q \in RequestState, Become(r, q)
    PROVE  /\ requests' \in [Request -> RequestState]
           /\ requests'[r] = q
           /\ \A o \in Request : o # r => requests'[o] = requests[o]
  BY DEF TypeOK, Become

LEMMA AnswerType ==
    ASSUME NEW q \in RequestState, NEW o \in Outcome
    PROVE  Answer(q, o) \in RequestState /\ Finish(q, o) \in RequestState
  BY DEF Answer, Finish, RequestState, PC

LEMMA InitInv == Init => Inv
<1> SUFFICES ASSUME Init PROVE Inv
  OBVIOUS
<1> USE NullAssumption, RowAssumption, QuantityAssumption, AmountAssumption, ScopeAssumption
<1>1. bills \in [BillId -> Bill \cup {NULL}]
  <2>1. IssuedBill \subseteq Bill
    BY DEF IssuedBill, Bill, Key, Stamp
  <2> QED
    BY <2>1 DEF Init
<1>2. TypeOK
  BY <1>1 DEF Init, TypeOK, Orders, Status, StockRef, RequestState, IdleRequest, PC, Outcome, Key, IsTab
<1>3. \A r \in Request : RequestOK(requests[r])
  BY DEF Init, RequestOK, IdleRequest
<1>4. \A b \in BillId : BillOK(b)
  BY DEF Init, BillOK, IssuedBill, Exists
<1>5. SettledOnce
  BY DEF Init, SettledOnce, Settles, IdleRequest
<1>6. RecordedDeliveryIsPaid
  BY DEF Init, RecordedDeliveryIsPaid
<1> QED
  BY <1>2, <1>3, <1>4, <1>5, <1>6 DEF Inv

-----------------------------------------------------------------------------
(* Most steps change one request and leave the database alone.               *)
LEMMA BillsKept ==
    ASSUME Inv, TypeOK', NEW r \in Request, NEW q \in RequestState, Become(r, q),
           UNCHANGED bills, RequestOK(q), q.outcome = "settled" => Settles(r, q.bill),
           \A p \in webhookEvents' : p \in webhookEvents \/ Delivered(p)
    PROVE  Inv'
<1>1. /\ requests' \in [Request -> RequestState]
      /\ requests'[r] = q
      /\ \A o \in Request : o # r => requests'[o] = requests[o]
  BY BecomeType DEF Inv
<1>2. (\A o \in Request : RequestOK(requests[o]))'
  <2>1. ASSUME NEW o \in Request PROVE RequestOK(requests'[o])
    BY <1>1 DEF Inv
  <2> QED
    BY <2>1 DEF RequestOK, HoldsBill, IsDelivery, Exists, Delivered
<1>3. (\A b \in BillId : BillOK(b))'
  BY DEF Inv, BillOK, Exists
<1>4. SettledOnce'
  BY <1>1 DEF Inv, SettledOnce, Settles
<1>5. RecordedDeliveryIsPaid'
  BY DEF Inv, RecordedDeliveryIsPaid, Delivered, Exists
<1> QED
  BY <1>2, <1>3, <1>4, <1>5 DEF Inv

LEMMA RequestStep ==
    ASSUME Inv, NEW r \in Request, NEW q \in RequestState, Become(r, q),
           UNCHANGED Database, RequestOK(q), q.outcome = "settled" => Settles(r, q.bill)
    PROVE  Inv'
<1>1. TypeOK'
  BY BecomeType DEF Inv, TypeOK, Database
<1> QED
  BY <1>1, BillsKept DEF Database

(* A request that has read a bill now knows what HoldsBill says of it.       *)
LEMMA HoldKnows ==
    ASSUME Inv, NEW q \in RequestState, NEW b \in BillId, Exists(b), NEW pc \in PC
    PROVE  /\ Hold(q, b, pc) \in RequestState
           /\ HoldsBill(Hold(q, b, pc))
  BY NullAssumption DEF Inv, TypeOK, BillOK, HoldsBill, Hold, Exists, RequestState, Bill

LEMMA LoadStep ==
    ASSUME Inv, NEW r \in Request, NEW q \in RequestState,
           q.op # "webhook", q.key \notin Ref, q.outcome = "none", q.pc \in {"idle", "confirm"},
           LoadRunningBill(r, q), UNCHANGED Database
    PROVE  Inv'
<1>1. CASE Become(r, Answer(q, "no_bill"))
  <2>1. Answer(q, "no_bill") \in RequestState
    BY DEF Answer, RequestState, PC, Outcome
  <2>2. RequestOK(Answer(q, "no_bill"))
    BY DEF Answer, RequestOK, RequestState
  <2> QED
    BY <1>1, <2>1, <2>2, RequestStep DEF Answer, RequestState
<1>2. CASE \E b \in BillId : Newest(LiveBills(q.scope), b) /\ Become(r, Hold(q, b, "check"))
  <2>1. PICK b \in BillId : Newest(LiveBills(q.scope), b) /\ Become(r, Hold(q, b, "check"))
    BY <1>2
  <2>2. Exists(b)
    BY <2>1 DEF Newest, LiveBills, BillsOf
  <2>3. Hold(q, b, "check") \in RequestState /\ HoldsBill(Hold(q, b, "check"))
    BY <2>2, HoldKnows DEF PC
  <2>4. RequestOK(Hold(q, b, "check"))
    BY <2>3 DEF RequestOK, Hold, RequestState
  <2> QED
    BY <2>1, <2>3, <2>4, RequestStep DEF Hold, RequestState
<1> QED
  BY <1>1, <1>2 DEF LoadRunningBill

LEMMA BeginPayInv == ASSUME Inv, NEW r \in Request, BeginPay(r) PROVE Inv'
<1>1. PICK s \in Scope, k \in ClientKey \cup {NULL}, m \in {"cash", "transfer"}, a \in Amount :
         LoadRunningBill(r, [IdleRequest EXCEPT !.op = "pay", !.scope = s,
                                 !.key = k, !.method = m, !.amount = a])
  BY DEF BeginPay
<1> DEFINE q == [IdleRequest EXCEPT !.op = "pay", !.scope = s,
                                    !.key = k, !.method = m, !.amount = a]
<1>2. q \in RequestState
  BY AmountAssumption DEF IdleRequest, RequestState, PC, Outcome, Key
<1>3. q.op # "webhook" /\ q.key \notin Ref /\ q.outcome = "none" /\ q.pc = "idle"
  BY NullAssumption, KeyAssumption DEF IdleRequest
<1> QED
  BY <1>1, <1>2, <1>3, LoadStep DEF BeginPay

LEMMA BeginConfirmInv == ASSUME Inv, NEW r \in Request, BeginConfirm(r) PROVE Inv'
<1> DEFINE q(s) == [IdleRequest EXCEPT !.op = "confirm", !.scope = s, !.key = s,
                                       !.method = "cash"]
           p(s, b) == IF Paid(bills[b])
                      THEN Answer([q(s) EXCEPT !.bill = b], "already_paid")
                      ELSE [q(s) EXCEPT !.pc = "confirm", !.amount = bills[b].total_kobo]
<1>1. PICK s \in Scope :
         \/ Become(r, Answer(q(s), "no_bill"))
         \/ \E b \in BillId : Newest(BillsOf(s), b) /\ Become(r, p(s, b))
  BY DEF BeginConfirm
<1>2. CASE Become(r, Answer(q(s), "no_bill"))
  <2>1. Answer(q(s), "no_bill") \in RequestState
    BY DEF Answer, IdleRequest, RequestState, PC, Outcome, Key
  <2>2. RequestOK(Answer(q(s), "no_bill"))
    BY KeyAssumption DEF Answer, IdleRequest, RequestOK
  <2> QED
    BY <1>2, <2>1, <2>2, RequestStep DEF BeginConfirm, Answer, IdleRequest
<1>3. ASSUME NEW b \in BillId, Newest(BillsOf(s), b), Become(r, p(s, b))
      PROVE  Inv'
  <2>1. Exists(b) /\ bills[b] \in Bill
    BY <1>3 DEF Newest, BillsOf, Exists, Inv, TypeOK
  <2>2. p(s, b) \in RequestState
    BY <2>1 DEF Answer, IdleRequest, RequestState, PC, Outcome, Key, Bill
  <2>3. RequestOK(p(s, b))
    BY <2>1, KeyAssumption DEF Answer, IdleRequest, RequestOK
  <2>4. p(s, b).outcome # "settled"
    BY DEF Answer, IdleRequest
  <2> QED
    BY <1>3, <2>2, <2>3, <2>4, RequestStep DEF BeginConfirm
<1> QED
  BY <1>1, <1>2, <1>3

LEMMA ConfirmLoadsBillInv == ASSUME Inv, NEW r \in Request, ConfirmLoadsBill(r) PROVE Inv'
<1>1. requests[r] \in RequestState /\ RequestOK(requests[r])
  BY DEF Inv, TypeOK
<1> QED
  BY <1>1, LoadStep DEF ConfirmLoadsBill, RequestOK, IsDelivery

LEMMA BeginWebhookInv == ASSUME Inv, NEW r \in Request, BeginWebhook(r) PROVE Inv'
<1> DEFINE q(p) == [IdleRequest EXCEPT !.op = "webhook", !.key = p, !.amount = RefAmount[p]]
           refused(p) == Answer(q(p), "duplicate")
           accepted(p) == [q(p) EXCEPT !.pc = "resolve"]
<1>1. PICK p \in Ref : Become(r, refused(p)) \/ Become(r, accepted(p))
  BY DEF BeginWebhook
<1>2. refused(p) \in RequestState /\ accepted(p) \in RequestState
  BY AmountAssumption DEF Answer, IdleRequest, RequestState, PC, Outcome, Key
<1>3. RequestOK(refused(p)) /\ RequestOK(accepted(p))
  BY DEF Answer, IdleRequest, RequestOK, IsDelivery
<1>4. refused(p).outcome # "settled" /\ accepted(p).outcome # "settled"
  BY DEF Answer, IdleRequest
<1>5. UNCHANGED Database
  BY DEF BeginWebhook
<1> HIDE DEF refused, accepted
<1> QED
  BY <1>1, <1>2, <1>3, <1>4, <1>5, RequestStep

LEMMA ResolveWebhookBillInv ==
    ASSUME Inv, NEW r \in Request, ResolveWebhookBill(r) PROVE Inv'
<1> DEFINE q == requests[r]
           n(b) == IF Paid(bills[b]) THEN [Hold(q, b, "record") EXCEPT !.outcome = "already_paid"]
                   ELSE IF bills[b].total_kobo # q.amount THEN Answer(q, "rejected")
                   ELSE Hold(q, b, "check")
<1>1. q \in RequestState /\ RequestOK(q) /\ q.pc = "resolve" /\ q.op = "webhook"
  BY DEF Inv, TypeOK, ResolveWebhookBill, RequestOK
<1>2. q.outcome = "none" /\ IsDelivery(q)
  BY <1>1 DEF RequestOK
<1>3. CASE Become(r, Answer(q, "no_bill"))
  <2>1. Answer(q, "no_bill") \in RequestState /\ Answer(q, "no_bill").outcome # "settled"
    BY <1>1 DEF Answer, RequestState, PC, Outcome
  <2>2. RequestOK(Answer(q, "no_bill"))
    BY <1>1, <1>2 DEF Answer, RequestOK, RequestState, IsDelivery
  <2> QED
    BY <1>3, <2>1, <2>2, RequestStep DEF ResolveWebhookBill
<1>4. ASSUME NEW b \in Resolved(q.key), Become(r, n(b))
      PROVE  Inv'
  <2>1. b \in BillId /\ Exists(b) /\ bills[b] \in Bill
    BY <1>4 DEF Resolved, Referenced, Payable, Exists, Inv, TypeOK
  <2>2. /\ Hold(q, b, "record") \in RequestState
        /\ Hold(q, b, "check") \in RequestState /\ HoldsBill(Hold(q, b, "check"))
    BY <1>1, <2>1, HoldKnows DEF PC
  <2>3. n(b) \in RequestState
    <3>1. Answer(q, "rejected") \in RequestState
      BY <1>1, AnswerType DEF Outcome
    <3>2. [Hold(q, b, "record") EXCEPT !.outcome = "already_paid"] \in RequestState
      BY <2>2 DEF RequestState, Outcome
    <3> QED
      BY <2>2, <3>1, <3>2
  <2>4. CASE Paid(bills[b])
    <3>1. Delivered(q.key)
      BY <1>4, <2>1, <2>4 DEF Delivered, Resolved, Referenced, Payable
    <3>2. RequestOK([Hold(q, b, "record") EXCEPT !.outcome = "already_paid"])
      BY <1>1, <1>2, <2>1, <2>4, <3>1 DEF Hold, RequestOK, RequestState, IsDelivery
    <3> QED
      BY <1>4, <2>3, <2>4, <3>2, <1>1, RequestStep DEF ResolveWebhookBill, Hold, RequestState
  <2>5. CASE ~Paid(bills[b]) /\ bills[b].total_kobo # q.amount
    <3>1. RequestOK(Answer(q, "rejected"))
      BY <1>1, <1>2 DEF Answer, RequestOK, RequestState, IsDelivery
    <3> QED
      BY <1>4, <2>3, <2>5, <3>1, <1>1, RequestStep DEF ResolveWebhookBill, Answer, RequestState
  <2>6. CASE ~Paid(bills[b]) /\ bills[b].total_kobo = q.amount
    <3>1. RequestOK(Hold(q, b, "check"))
      BY <1>1, <1>2, <2>1, <2>2, <2>6 DEF Hold, RequestOK, RequestState, IsDelivery
    <3> QED
      BY <1>4, <1>2, <2>3, <2>6, <3>1, <1>1, RequestStep DEF ResolveWebhookBill, Hold, RequestState
  <2> QED
    BY <2>4, <2>5, <2>6
<1> QED
  BY <1>3, <1>4 DEF ResolveWebhookBill

LEMMA CheckPayableInv == ASSUME Inv, NEW r \in Request, CheckPayable(r) PROVE Inv'
<1> DEFINE q == requests[r]
           n == IF Refused(q) THEN Answer(q, "rejected") ELSE [q EXCEPT !.pc = "fast"]
<1>1. q \in RequestState /\ RequestOK(q) /\ q.pc = "check" /\ Become(r, n)
  BY DEF Inv, TypeOK, CheckPayable
<1>2. n \in RequestState
  BY <1>1 DEF Answer, RequestState, PC, Outcome
<1>3. RequestOK(n)
  BY <1>1 DEF Answer, RequestOK, RequestState, HoldsBill, IsDelivery
<1>4. n.outcome # "settled"
  BY <1>1 DEF RequestOK, Answer, RequestState
<1> QED
  BY <1>1, <1>2, <1>3, <1>4, RequestStep DEF CheckPayable

LEMMA IdempotencyFastPathInv ==
    ASSUME Inv, NEW r \in Request, IdempotencyFastPath(r) PROVE Inv'
<1> DEFINE q == requests[r]
<1>1. q \in RequestState /\ RequestOK(q) /\ q.pc = "fast"
  BY DEF Inv, TypeOK, IdempotencyFastPath
<1>2. CASE Become(r, [q EXCEPT !.pc = "settle"])
  <2>1. [q EXCEPT !.pc = "settle"] \in RequestState
    BY <1>1 DEF RequestState, PC
  <2>2. RequestOK([q EXCEPT !.pc = "settle"])
    BY <1>1 DEF RequestOK, RequestState, HoldsBill, IsDelivery
  <2> QED
    BY <1>1, <1>2, <2>1, <2>2, RequestStep DEF IdempotencyFastPath, RequestOK, RequestState
<1>3. ASSUME NEW b \in PaidWith(q.key),
             Become(r, Finish([q EXCEPT !.bill = b, !.row = bills[b]], "existing"))
      PROVE  Inv'
  <2> DEFINE p == [q EXCEPT !.bill = b, !.row = bills[b]]
             n == Finish(p, "existing")
  <2>1. b \in BillId /\ Exists(b) /\ bills[b] \in Bill /\ Paid(bills[b])
    BY DEF PaidWith, Exists, Inv, TypeOK
  <2>2. p \in RequestState
    BY <1>1, <2>1 DEF RequestState
  <2>3. n \in RequestState
    BY <2>2, AnswerType DEF Outcome
  <2>4. q.op = "webhook" => Delivered(q.key)
    BY <1>1, <2>1 DEF PaidWith, Delivered, RequestOK, IsDelivery, Inv, BillOK
  <2>5. RequestOK(n)
    BY <1>1, <2>1, <2>4 DEF Finish, RequestOK, RequestState, IsDelivery
  <2>6. n.outcome # "settled"
    BY <2>2 DEF Finish, RequestState
  <2> QED
    BY <1>3, <2>3, <2>5, <2>6, RequestStep DEF IdempotencyFastPath
<1> QED
  BY <1>2, <1>3 DEF IdempotencyFastPath

(* A delivery whose bill is paid, by it or by somebody else, is answered.    *)
LEMMA HeldBillDelivered ==
    ASSUME NEW q, HoldsBill(q), IsDelivery(q), q.pc \in {"settle", "receipt"},
           Paid(bills[q.bill])
    PROVE  Delivered(q.key)
  BY DEF HoldsBill, IsDelivery, Delivered

LEMMA SettleLosesClaimInv ==
    ASSUME Inv, NEW r \in Request, SettleLosesClaim(r) PROVE Inv'
<1> DEFINE q == requests[r]
           p == [q EXCEPT !.row = bills[q.bill]]
           n == Finish(p, "already")
<1>1. /\ q \in RequestState /\ RequestOK(q) /\ q.pc = "settle"
      /\ Become(r, n) /\ ~Claimable(bills[q.bill])
  BY DEF Inv, TypeOK, SettleLosesClaim
<1>2. HoldsBill(q)
  BY <1>1 DEF RequestOK
<1>3. q.bill \in BillId /\ Exists(q.bill) /\ Paid(bills[q.bill])
  BY <1>1, <1>2 DEF HoldsBill, Claimable, Inv, BillOK
<1>4. p \in RequestState
  BY <1>1, <1>3 DEF RequestState, Inv, TypeOK
<1>5. n \in RequestState
  BY <1>4, AnswerType DEF Outcome
<1>6. q.op = "webhook" => Delivered(q.key)
  BY <1>1, <1>2, <1>3, HeldBillDelivered DEF RequestOK
<1>7. RequestOK(n)
  BY <1>1, <1>3, <1>6 DEF Finish, RequestOK, RequestState, IsDelivery
<1>8. n.outcome # "settled"
  BY <1>4 DEF Finish, RequestState
<1> QED
  BY <1>1, <1>5, <1>7, <1>8, RequestStep DEF SettleLosesClaim

(* An answer that claims no new settlement, to a request that may give it.   *)
LEMMA AnswerStep ==
    ASSUME Inv, NEW r \in Request, NEW o \in Outcome,
           Become(r, Answer(requests[r], o)), UNCHANGED Database,
           o \in {"rejected", "failed", requests[r].outcome}
    PROVE  Inv'
<1> DEFINE q == requests[r]
<1>1. q \in RequestState /\ RequestOK(q)
  BY DEF Inv, TypeOK
<1>2. Answer(q, o) \in RequestState
  BY <1>1, AnswerType
<1>3. RequestOK(Answer(q, o))
  BY <1>1 DEF Answer, RequestOK, RequestState, IsDelivery
<1>4. Answer(q, o).outcome = "settled" => Settles(r, Answer(q, o).bill)
  BY <1>1 DEF Answer, RequestState, Settles
<1> QED
  BY <1>2, <1>3, <1>4, RequestStep

LEMMA SettleRollsBackInv ==
    ASSUME Inv, NEW r \in Request, SettleRollsBack(r) PROVE Inv'
  BY AnswerStep DEF SettleRollsBack, Outcome

LEMMA AbortInv == ASSUME Inv, NEW r \in Request, Abort(r) PROVE Inv'
<1>1. requests[r].outcome \in Outcome
  BY DEF Inv, TypeOK, RequestState
<1> QED
  BY <1>1, AnswerStep DEF Abort, Outcome

LEMMA SkipReceiptInv == ASSUME Inv, NEW r \in Request, SkipReceipt(r) PROVE Inv'
<1> DEFINE q == requests[r]
           n == Finish(q, q.outcome)
<1>1. q \in RequestState /\ RequestOK(q) /\ q.pc = "receipt" /\ Become(r, n)
  BY DEF Inv, TypeOK, SkipReceipt
<1>2. n \in RequestState
  BY <1>1, AnswerType DEF RequestState
<1>3. q.op = "webhook" => Delivered(q.key)
  BY <1>1, HeldBillDelivered DEF RequestOK
<1>4. RequestOK(n)
  BY <1>1, <1>3 DEF Finish, RequestOK, RequestState, IsDelivery
<1>5. n.outcome = "settled" => Settles(r, n.bill)
  BY <1>1 DEF Finish, RequestState, Settles
<1> QED
  BY <1>1, <1>2, <1>4, <1>5, RequestStep DEF SkipReceipt

LEMMA UploadReceiptInv == ASSUME Inv, NEW r \in Request, UploadReceipt(r) PROVE Inv'
<1> DEFINE q == requests[r]
           n == Finish(q, q.outcome)
<1>1. q \in RequestState /\ RequestOK(q) /\ q.pc = "receipt" /\ Become(r, n)
  BY DEF Inv, TypeOK, UploadReceipt
<1>2. UNCHANGED Database
  <2>1. q.row = bills[q.bill] /\ q.bill \in BillId
    BY <1>1 DEF RequestOK, HoldsBill
  <2> QED
    BY <2>1 DEF UploadReceipt, Database, Inv, TypeOK
<1>3. n \in RequestState
  BY <1>1, AnswerType DEF RequestState
<1>4. q.op = "webhook" => Delivered(q.key)
  BY <1>1, HeldBillDelivered DEF RequestOK
<1>5. RequestOK(n)
  BY <1>1, <1>4 DEF Finish, RequestOK, RequestState, IsDelivery
<1>6. n.outcome = "settled" => Settles(r, n.bill)
  BY <1>1 DEF Finish, RequestState, Settles
<1> QED
  BY <1>1, <1>2, <1>3, <1>5, <1>6, RequestStep

LEMMA RecordWebhookEventInv ==
    ASSUME Inv, NEW r \in Request, RecordWebhookEvent(r) PROVE Inv'
<1> DEFINE q == requests[r]
           n == Answer(q, q.outcome)
<1>1. q \in RequestState /\ RequestOK(q) /\ q.pc = "record" /\ Become(r, n)
  BY DEF Inv, TypeOK, RecordWebhookEvent
<1>2. q.key \in Ref /\ Delivered(q.key)
  BY <1>1 DEF RequestOK, IsDelivery
<1>3. n \in RequestState
  BY <1>1, AnswerType DEF RequestState
<1>4. RequestOK(n)
  BY <1>1 DEF Answer, RequestOK, RequestState, IsDelivery
<1>5. n.outcome = "settled" => Settles(r, n.bill)
  BY <1>1 DEF Answer, RequestState, Settles
<1>6. TypeOK'
  BY <1>1, <1>2, <1>3, BecomeType DEF RecordWebhookEvent, Inv, TypeOK
<1> QED
  BY <1>1, <1>2, <1>3, <1>4, <1>5, <1>6, BillsKept DEF RecordWebhookEvent

LEMMA ServeOrdersInv == ASSUME Inv, NEW s \in Scope, ServeOrders(s) PROVE Inv'
<1>1. TypeOK'
  BY DEF ServeOrders, Inv, TypeOK, Orders
<1>2. (\A r \in Request : RequestOK(requests[r]))'
  BY DEF ServeOrders, Inv, RequestOK, HoldsBill, IsDelivery, Exists, Delivered
<1>3. (\A b \in BillId : BillOK(b))' /\ SettledOnce' /\ RecordedDeliveryIsPaid'
  BY DEF ServeOrders, Inv, BillOK, Exists, SettledOnce, Settles, RecordedDeliveryIsPaid
<1> QED
  BY <1>1, <1>2, <1>3 DEF Inv

-----------------------------------------------------------------------------
(* The step that settles.                                                    *)
LEMMA SettledRowType ==
    ASSUME NEW q \in RequestState, HoldsBill(q), q.op = "webhook" => q.key \in Ref
    PROVE  SettledRow(q) \in Bill
<1> DEFINE k == IF q.key = NULL THEN q.row.idempotency_key ELSE q.key
           p == IF q.op = "webhook" THEN q.key ELSE q.row.payment_reference
<1>1. k \in Key /\ p \in Ref \cup {NULL} /\ q.amount \in Nat /\ q.row \in Bill
  BY DEF HoldsBill, RequestState, Bill
<1>2. SettledRow(q) = [q.row EXCEPT !.payment_status = "paid", !.paid_at = "set",
                                    !.idempotency_key = k, !.payment_reference = p,
                                    !.payment_amount_kobo = q.amount]
  BY <1>1 DEF SettledRow, Bill
<1> QED
  BY <1>1, <1>2 DEF Bill, Stamp

(* What the settling request finds and what it does to the bills table.      *)
LEMMA SettleEffect ==
    ASSUME Inv, NEW r \in Request, SettleCommits(r)
    PROVE  /\ HoldsBill(requests[r]) /\ RequestOK(requests[r])
           /\ requests[r] \in RequestState
           /\ requests[r].row.idempotency_key = NULL
           /\ ~Paid(bills[requests[r].bill])
           /\ bills' \in [BillId -> Bill \cup {NULL}]
           /\ SettledRow(requests[r]) \in Bill
           /\ bills'[requests[r].bill] = SettledRow(requests[r])
           /\ SettledRow(requests[r]) # NULL
           /\ \A b \in BillId \ {requests[r].bill} :
                 /\ Exists(b)' <=> Exists(b)
                 /\ Exists(b) =>
                       /\ bills'[b].scope = bills[b].scope
                       /\ bills'[b].paid_at = bills[b].paid_at
                       /\ bills'[b].total_kobo = bills[b].total_kobo
                       /\ bills'[b].idempotency_key = bills[b].idempotency_key
                       /\ bills'[b].payment_reference = bills[b].payment_reference
                 /\ Exists(b) /\ Paid(bills[b]) => bills'[b] = bills[b]
<1> DEFINE q == requests[r]
<1>1. q \in RequestState /\ RequestOK(q) /\ q.pc = "settle" /\ Claimable(bills[q.bill])
  BY DEF Inv, TypeOK, SettleCommits
<1>2. HoldsBill(q) /\ (q.op = "webhook" => q.key \in Ref)
  BY <1>1 DEF RequestOK, IsDelivery
<1>3. q.bill \in BillId /\ ~Paid(bills[q.bill]) /\ q.row.idempotency_key = NULL
  BY <1>1, <1>2 DEF HoldsBill, Claimable
<1>4. SettledRow(q) \in Bill /\ SettledRow(q) # NULL
  BY <1>1, <1>2, SettledRowType, RowAssumption
<1> DEFINE v(b) == [bills[b] EXCEPT !.voided_at = "set"]
           n(b) == IF b = q.bill THEN SettledRow(q)
                   ELSE IF Superseded(b, q.scope) THEN v(b) ELSE bills[b]
<1>5. bills' = [b \in BillId |-> n(b)]
  BY DEF SettleCommits
<1>6. ASSUME NEW b \in BillId, Superseded(b, q.scope)
      PROVE  /\ Exists(b) /\ v(b) \in Bill /\ v(b) # NULL /\ ~Paid(bills[b])
             /\ v(b).scope = bills[b].scope /\ v(b).paid_at = bills[b].paid_at
             /\ v(b).total_kobo = bills[b].total_kobo
             /\ v(b).idempotency_key = bills[b].idempotency_key
             /\ v(b).payment_reference = bills[b].payment_reference
  <2>1. Exists(b) /\ bills[b] \in Bill /\ ~Paid(bills[b])
    BY <1>6 DEF Superseded, LiveBills, BillsOf, Exists, Inv, TypeOK
  <2>2. v(b) \in Bill
    BY <2>1 DEF Bill, Stamp
  <2> QED
    BY <2>1, <2>2, RowAssumption DEF Bill
<1>7. \A b \in BillId : n(b) \in Bill \cup {NULL}
  BY <1>4, <1>6 DEF Inv, TypeOK
<1>8. \A b \in BillId \ {q.bill} :
         /\ n(b) # NULL <=> Exists(b)
         /\ Exists(b) =>
               /\ n(b).scope = bills[b].scope
               /\ n(b).paid_at = bills[b].paid_at
               /\ n(b).total_kobo = bills[b].total_kobo
               /\ n(b).idempotency_key = bills[b].idempotency_key
               /\ n(b).payment_reference = bills[b].payment_reference
         /\ Exists(b) /\ Paid(bills[b]) => n(b) = bills[b]
  BY <1>6 DEF Exists
<1> HIDE DEF n, v
<1>9. \A b \in BillId : bills'[b] = n(b)
  BY <1>5
<1>10. n(q.bill) = SettledRow(q)
  BY DEF n
<1>11. bills' \in [BillId -> Bill \cup {NULL}]
  BY <1>5, <1>7
<1>12. bills'[q.bill] = SettledRow(q)
  BY <1>3, <1>9, <1>10
<1>13. \A b \in BillId \ {q.bill} :
          /\ Exists(b)' <=> Exists(b)
          /\ Exists(b) =>
                /\ bills'[b].scope = bills[b].scope
                /\ bills'[b].paid_at = bills[b].paid_at
                /\ bills'[b].total_kobo = bills[b].total_kobo
                /\ bills'[b].idempotency_key = bills[b].idempotency_key
                /\ bills'[b].payment_reference = bills[b].payment_reference
          /\ Exists(b) /\ Paid(bills[b]) => bills'[b] = bills[b]
  <2> TAKE b \in BillId \ {q.bill}
  <2>1. bills'[b] = n(b)
    BY <1>9
  <2>2. Exists(b)' <=> n(b) # NULL
    BY <2>1 DEF Exists
  <2> QED
    BY <1>8, <2>1, <2>2
<1> QED
  BY <1>1, <1>2, <1>3, <1>4, <1>11, <1>12, <1>13

LEMMA SettleCommitsInv == ASSUME Inv, NEW r \in Request, SettleCommits(r) PROVE Inv'
<1> DEFINE q == requests[r]
           n == [q EXCEPT !.pc = "receipt", !.row = SettledRow(q), !.outcome = "settled"]
           w == SettledRow(q)
<1>1. /\ HoldsBill(q) /\ RequestOK(q) /\ q \in RequestState
      /\ w \in Bill /\ w # NULL
      /\ q.bill \in BillId /\ q.row \in Bill /\ q.row.idempotency_key = NULL
  BY SettleEffect DEF HoldsBill
<1>2. Become(r, n) /\ bills'[q.bill] = w /\ ~Paid(bills[q.bill]) /\ q.pc = "settle"
  BY SettleEffect DEF SettleCommits
<1>3. /\ w.scope = q.row.scope /\ w.total_kobo = q.row.total_kobo /\ Paid(w)
      /\ w.idempotency_key = q.key
      /\ q.op = "webhook" => w.payment_reference = q.key
  BY <1>1 DEF SettledRow, Bill, Paid
<1>4. n \in RequestState
  BY <1>1 DEF RequestState, PC, Outcome
<1>5. /\ requests' \in [Request -> RequestState] /\ requests'[r] = n
      /\ \A o \in Request : o # r => requests'[o] = requests[o]
  BY <1>2, <1>4, BecomeType DEF Inv
<1>6. TypeOK'
  <2>1. consumption' \in [StockRef -> Nat]
    <3>1. Consumed(q) \in Nat
      BY <1>1 DEF Consumed, Reference, Inv, TypeOK, Orders, StockRef, HoldsBill
    <3> QED
      BY <3>1 DEF SettleCommits, Inv, TypeOK
  <2>2. orders' \in [Scope -> Orders]
    <3>1. Released(orders[q.scope]) \in Orders
      BY <1>1 DEF Released, Orders, Inv, TypeOK, HoldsBill
    <3> QED
      BY <3>1 DEF SettleCommits, Inv, TypeOK
  <2>3. scopeStatus' \in [Scope -> Status] /\ tableStatus' \in [Table -> {"available", "occupied"}]
    BY DEF SettleCommits, Inv, TypeOK, Status
  <2> QED
    BY <1>5, <2>1, <2>2, <2>3, SettleEffect DEF SettleCommits, Inv, TypeOK
<1>7. (\A o \in Request : RequestOK(requests[o]))'
  <2>1. ASSUME NEW o \in Request PROVE RequestOK(requests[o])'
    <3>1. CASE o = r
      <4>1. /\ n.bill = q.bill /\ n.scope = q.scope /\ n.row = w /\ n.pc = "receipt"
            /\ n.outcome = "settled" /\ n.op = q.op /\ n.key = q.key /\ n.amount = q.amount
        BY <1>1 DEF RequestState
      <4>2. HoldsBill(requests[r])'
        BY <1>1, <1>2, <1>3, <1>5, <4>1 DEF HoldsBill, Exists
      <4>3. IsDelivery(q) => IsDelivery(requests[r])'
        BY <1>2, <1>3, <1>5, <4>1 DEF IsDelivery
      <4>4. q.op = "webhook" => IsDelivery(q)
        BY <1>1 DEF RequestOK
      <4>5. q.op # "webhook" => q.key \notin Ref
        BY <1>1 DEF RequestOK
      <4> HIDE DEF n, w
      <4>6. RequestOK(requests[r])'
        BY <1>1, <1>2, <1>3, <1>5, <4>1, <4>2, <4>3, <4>4, <4>5 DEF RequestOK, Exists
      <4> QED
        BY <3>1, <4>6
    <3>2. CASE o # r
      <4> DEFINE p == requests[o]
      <4>1. requests'[o] = p /\ RequestOK(p) /\ p \in RequestState
        BY <1>5, <3>2 DEF Inv, TypeOK
      <4>2. \A b \in BillId : Exists(b) =>
               /\ bills'[b] # NULL /\ bills'[b].scope = bills[b].scope
               /\ bills'[b].total_kobo = bills[b].total_kobo
               /\ Paid(bills[b]) => bills'[b] = bills[b]
        BY <1>1, <1>2, <1>3, SettleEffect DEF Exists, HoldsBill
      <4>3. HoldsBill(p) => HoldsBill(requests[o])'
        BY <4>1, <4>2 DEF HoldsBill, Exists
      <4>4. IsDelivery(p) => IsDelivery(requests[o])'
        BY <4>1 DEF IsDelivery
      <4>5. Delivered(p.key) => Delivered(requests[o].key)'
        BY <4>1, <4>2 DEF Delivered, Exists
      <4> QED
        BY <4>1, <4>2, <4>3, <4>4, <4>5 DEF RequestOK, Exists, HoldsBill
    <3> QED
      BY <3>1, <3>2
  <2> QED
    BY <2>1
<1>8. (\A b \in BillId : BillOK(b))'
  <2> SUFFICES ASSUME NEW b \in BillId PROVE BillOK(b)'
    OBVIOUS
  <2>1. CASE b = q.bill
    BY <1>1, <1>2, <1>3, <2>1, NullAssumption DEF BillOK, RequestOK, IsDelivery
  <2>2. CASE b # q.bill
    BY <2>2, SettleEffect DEF BillOK, Inv, Paid
  <2> QED
    BY <2>1, <2>2
<1>9. SettledOnce'
  <2>1. \A o \in Request : ~Settles(o, q.bill)
    BY <1>2 DEF Inv, RequestOK, Settles
  <2>2. n.bill = q.bill
    BY <1>1 DEF RequestState
  <2>3. \A b \in BillId : Settles(r, b)' => b = q.bill
    BY <1>5, <2>2 DEF Settles
  <2>4. \A o \in Request \ {r}, b \in BillId : Settles(o, b)' => Settles(o, b)
    BY <1>5 DEF Settles
  <2> QED
    BY <2>1, <2>3, <2>4 DEF SettledOnce, Inv
<1>10. RecordedDeliveryIsPaid'
  <2>1. \A b \in BillId : Exists(b) /\ Paid(bills[b]) => bills'[b] = bills[b]
    BY <1>2, SettleEffect
  <2>2. webhookEvents' = webhookEvents
    BY DEF SettleCommits
  <2> QED
    BY <2>1, <2>2 DEF RecordedDeliveryIsPaid, Inv, Exists
<1> QED
  BY <1>6, <1>7, <1>8, <1>9, <1>10 DEF Inv

LEMMA StepInv == ASSUME Inv, [Next]_vars PROVE Inv'
<1>1. CASE UNCHANGED vars
  BY <1>1 DEF vars, Inv, TypeOK, RequestOK, HoldsBill, IsDelivery, BillOK, Exists,
              SettledOnce, Settles, Delivered, RecordedDeliveryIsPaid
<1>2. ASSUME NEW r \in Request, Step(r) PROVE Inv'
  BY <1>2, BeginPayInv, BeginConfirmInv, ConfirmLoadsBillInv, BeginWebhookInv,
     ResolveWebhookBillInv, CheckPayableInv, IdempotencyFastPathInv, SettleCommitsInv,
     SettleLosesClaimInv, SettleRollsBackInv, UploadReceiptInv, SkipReceiptInv,
     RecordWebhookEventInv, AbortInv DEF Step
<1>3. ASSUME NEW s \in Scope, ServeOrders(s) PROVE Inv'
  BY <1>3, ServeOrdersInv
<1> QED
  BY <1>1, <1>2, <1>3 DEF Next

THEOREM SpecInv == Spec => []Inv
  BY InitInv, StepInv, PTL DEF Spec

(* Every variable keeps its type.                                            *)
THEOREM TypeCorrect == Spec => []TypeOK
<1>1. Inv => TypeOK
  BY DEF Inv
<1> QED
  BY <1>1, SpecInv, PTL

(* One bill is settled by at most one request, whatever races for it.        *)
THEOREM SettledOnceAlways == Spec => []SettledOnce
<1>1. Inv => SettledOnce
  BY DEF Inv
<1> QED
  BY <1>1, SpecInv, PTL

(* Nobody is told "paid" about a bill that is not.                           *)
THEOREM AnsweredPaidIsPaidAlways == Spec => []AnsweredPaidIsPaid
<1>1. Inv => AnsweredPaidIsPaid
  BY DEF Inv, AnsweredPaidIsPaid, RequestOK
<1> QED
  BY <1>1, SpecInv, PTL

-----------------------------------------------------------------------------
(* Consequences of the inductive invariant for single steps.                 *)

(* Only the settling step touches what the settlement is about: the receipt *)
(* saved afterwards writes back the row as it is.                            *)
LEMMA OnlySettlingWrites ==
    ASSUME Inv, NEW r \in Request, Step(r), ~SettleCommits(r)
    PROVE  UNCHANGED <<bills, orders, scopeStatus, consumption>>
<1>1. CASE UploadReceipt(r)
  <2>1. RequestOK(requests[r]) /\ requests[r].pc = "receipt"
    BY <1>1 DEF Inv, UploadReceipt
  <2>2. requests[r].row = bills[requests[r].bill]
    BY <2>1 DEF RequestOK
  <2> QED
    BY <1>1, <2>2 DEF UploadReceipt, Inv, TypeOK
<1>2. CASE ~UploadReceipt(r)
  BY <1>2 DEF Step, Database, BeginPay, BeginConfirm, ConfirmLoadsBill, BeginWebhook,
              ResolveWebhookBill, CheckPayable, IdempotencyFastPath, SettleLosesClaim,
              SettleRollsBack, SkipReceipt, RecordWebhookEvent, Abort
<1> QED
  BY <1>1, <1>2

(* A paid row is never written again.                                        *)
LEMMA PaidRowKept ==
    ASSUME Inv, [Next]_vars, NEW b \in BillId, Exists(b), Paid(bills[b])
    PROVE  bills'[b] = bills[b]
<1>1. ASSUME NEW r \in Request, SettleCommits(r) PROVE bills'[b] = bills[b]
  BY <1>1, SettleEffect
<1>2. ASSUME NEW r \in Request, Step(r), ~SettleCommits(r) PROVE bills'[b] = bills[b]
  BY <1>2, OnlySettlingWrites
<1> QED
  BY <1>1, <1>2 DEF Next, ServeOrders, vars

(* A payment on the books stays there, with its key and its amount.          *)
THEOREM SettledStaysSettledAlways == Spec => SettledStaysSettled
<1>1. ASSUME Inv, [Next]_vars
      PROVE  [\A b \in BillId : Exists(b) /\ Paid(bills[b]) =>
                 /\ bills'[b] # NULL
                 /\ Paid(bills'[b])
                 /\ bills'[b].idempotency_key = bills[b].idempotency_key
                 /\ bills'[b].payment_amount_kobo = bills[b].payment_amount_kobo]_vars
  BY <1>1, PaidRowKept DEF Exists
<1> QED
  BY <1>1, SpecInv, PTL DEF Spec, SettledStaysSettled

-----------------------------------------------------------------------------
(* A step of one request leaves the others as they were.                     *)
LEMMA OneRequestMoves ==
    ASSUME Inv, NEW r \in Request, Step(r), NEW o \in Request \ {r}
    PROVE  requests'[o] = requests[o]
<1>1. \A n : Become(r, n) => requests'[o] = requests[o]
  BY DEF Become, Inv, TypeOK
<1>2. CASE BeginPay(r)
  BY <1>1, <1>2, Zenon DEF BeginPay, LoadRunningBill
<1>3. CASE BeginConfirm(r)
  BY <1>1, <1>3, Zenon DEF BeginConfirm
<1>4. CASE ConfirmLoadsBill(r)
  BY <1>1, <1>4, Zenon DEF ConfirmLoadsBill, LoadRunningBill
<1>5. CASE BeginWebhook(r)
  BY <1>1, <1>5, Zenon DEF BeginWebhook
<1>6. CASE ResolveWebhookBill(r)
  BY <1>1, <1>6, Zenon DEF ResolveWebhookBill
<1>7. CASE CheckPayable(r) \/ IdempotencyFastPath(r)
  BY <1>1, <1>7, Zenon DEF CheckPayable, IdempotencyFastPath
<1>8. CASE SettleCommits(r) \/ SettleLosesClaim(r) \/ SettleRollsBack(r)
  BY <1>1, <1>8, Zenon DEF SettleCommits, SettleLosesClaim, SettleRollsBack
<1>9. CASE UploadReceipt(r) \/ SkipReceipt(r) \/ RecordWebhookEvent(r) \/ Abort(r)
  BY <1>1, <1>9, Zenon DEF UploadReceipt, SkipReceipt, RecordWebhookEvent, Abort
<1> QED
  BY <1>2, <1>3, <1>4, <1>5, <1>6, <1>7, <1>8, <1>9 DEF Step

(* A delivery recorded as settled has a payment that answers it.             *)
THEOREM RecordedDeliveryIsPaidAlways == Spec => []RecordedDeliveryIsPaid
<1>1. Inv => RecordedDeliveryIsPaid
  BY DEF Inv
<1> QED
  BY <1>1, SpecInv, PTL

-----------------------------------------------------------------------------
(* All or nothing: a tab never has more stock taken than it ordered.         *)
StockInv ==
    /\ \A s \in Scope : /\ orders[s].quantity > 0
                        /\ IsTab(s) => consumption[s] <= orders[s].quantity
    /\ SettlementIsAtomic

LEMMA InitStock == Init => StockInv
<1> SUFFICES ASSUME Init PROVE StockInv
  OBVIOUS
<1> USE QuantityAssumption
<1>1. \A s \in Scope : /\ orders[s].quantity > 0 /\ scopeStatus[s] # "paid"
                       /\ IsTab(s) => consumption[s] <= orders[s].quantity
  BY DEF Init
<1>2. \A b \in BillId : consumption[b] = 0 /\ (Exists(b) => ~Paid(bills[b]))
  BY DEF Init, IssuedBill, Exists, Paid
<1> QED
  BY <1>1, <1>2 DEF StockInv, SettlementIsAtomic

LEMMA SettleStock ==
    ASSUME Inv, StockInv, NEW r \in Request, SettleCommits(r) PROVE StockInv'
<1> DEFINE q == requests[r]
           w == SettledRow(q)
           k == Reference(q)
<1>1. /\ q.bill \in BillId /\ q.scope \in Scope /\ Exists(q.bill) /\ q.row \in Bill
      /\ q.row.scope = q.scope /\ bills[q.bill].scope = q.scope /\ ~Paid(bills[q.bill])
      /\ bills'[q.bill] = w /\ w # NULL
  BY SettleEffect DEF HoldsBill
<1>2. w.scope = q.scope /\ Paid(w)
  BY <1>1 DEF SettledRow, Bill, Paid
<1>3. k = (IF IsTab(q.scope) THEN q.scope ELSE q.bill) /\ k \in StockRef
  BY <1>1 DEF Reference, StockRef
<1>4. \A s \in Scope : orders[s] \in Orders /\ orders[s].quantity \in Nat
  BY DEF Inv, TypeOK, Orders
<1>5. \A s \in StockRef : consumption[s] \in Nat
  BY DEF Inv, TypeOK
<1>6. Consumed(q) = orders[q.scope].quantity
  <2>1. consumption[k] = 0 \/ consumption[k] >= orders[q.scope].quantity
    BY <1>1, <1>3, <1>4, <1>5 DEF SettleCommits, StockConflict
  <2>2. consumption[k] <= orders[q.scope].quantity
    BY <1>1, <1>3, <1>4, <1>5 DEF StockInv, SettlementIsAtomic
  <2> QED
    BY <1>1, <1>3, <1>4, <1>5, <2>1, <2>2 DEF Consumed
<1>7. /\ consumption' = [consumption EXCEPT ![k] = Consumed(q)]
      /\ orders' = [orders EXCEPT ![q.scope] = Released(@)]
      /\ scopeStatus' = [scopeStatus EXCEPT ![q.scope] = "paid"]
  BY DEF SettleCommits
<1>8. \A s \in StockRef : consumption'[s] = IF s = k THEN orders[q.scope].quantity
                                            ELSE consumption[s]
  BY <1>3, <1>6, <1>7 DEF Inv, TypeOK
<1>9. \A s \in Scope : /\ orders'[s].quantity = orders[s].quantity
                       /\ s # q.scope => orders'[s] = orders[s]
  BY <1>4, <1>7 DEF Released, Orders, Inv, TypeOK
<1>10. orders'[q.scope].approval = "none"
  BY <1>1, <1>4, <1>7 DEF Released, Orders, Inv, TypeOK
<1>11. (\A s \in Scope : /\ orders[s].quantity > 0
                         /\ IsTab(s) => consumption[s] <= orders[s].quantity)'
  BY <1>1, <1>3, <1>4, <1>8, <1>9, BillIdAssumption DEF StockInv, StockRef, IsTab
<1>12. ASSUME NEW s \in Scope, scopeStatus'[s] = "paid"
       PROVE  /\ (\E b \in BillsOf(s) : Paid(bills[b]))'
              /\ orders'[s].approval = "none"
              /\ IsTab(s) => consumption'[s] = orders'[s].quantity
  <2>1. CASE s = q.scope
    <3>1. q.bill \in BillsOf(s)'
      BY <1>1, <1>2, <2>1 DEF BillsOf, Exists
    <3>2. (\E b \in BillsOf(s) : Paid(bills[b]))'
      BY <1>1, <1>2, <3>1
    <3> QED
      BY <1>1, <1>3, <1>8, <1>9, <1>10, <2>1, <3>2
  <2>2. CASE s # q.scope
    <3>1. scopeStatus[s] = "paid"
      BY <1>7, <1>12, <2>2 DEF Inv, TypeOK
    <3>2. PICK b \in BillsOf(s) : Paid(bills[b])
      BY <3>1 DEF StockInv, SettlementIsAtomic
    <3>3. b \in BillsOf(s)' /\ Paid(bills[b])'
      BY <1>1, <3>2, SettleEffect DEF BillsOf, Exists
    <3>4. k # s
      BY <1>1, <1>3, <2>2, BillIdAssumption
    <3> QED
      BY <1>8, <1>9, <2>2, <3>1, <3>3, <3>4 DEF StockInv, SettlementIsAtomic, StockRef
  <2> QED
    BY <2>1, <2>2
<1>13. ASSUME NEW b \in BillId
       PROVE  (consumption[b] > 0 <=> Exists(b) /\ ~IsTab(bills[b].scope) /\ Paid(bills[b]))'
  <2>1. CASE b = q.bill
    <3>1. consumption[b] = 0
      BY <1>1, <1>5, <2>1 DEF StockInv, SettlementIsAtomic, StockRef
    <3>2. consumption'[b] > 0 <=> ~IsTab(q.scope)
      BY <1>1, <1>3, <1>4, <1>8, <2>1, <3>1, BillIdAssumption DEF StockInv, StockRef
    <3> QED
      BY <1>1, <1>2, <2>1, <3>2 DEF Exists, IsTab
  <2>2. CASE b # q.bill
    <3>1. consumption'[b] = consumption[b]
      BY <1>1, <1>3, <1>8, <2>2, BillIdAssumption DEF StockRef
    <3> QED
      BY <2>2, <3>1, SettleEffect DEF StockInv, SettlementIsAtomic, Paid, IsTab
  <2> QED
    BY <2>1, <2>2
<1> QED
  BY <1>11, <1>12, <1>13 DEF StockInv, SettlementIsAtomic

LEMMA StockStep == ASSUME Inv, StockInv, [Next]_vars PROVE StockInv'
<1>1. CASE UNCHANGED <<bills, orders, scopeStatus, consumption>>
  BY <1>1 DEF StockInv, SettlementIsAtomic, BillsOf, Exists
<1>2. ASSUME NEW s \in Scope, ServeOrders(s) PROVE StockInv'
  <2>1. \A o \in Scope : /\ orders'[o].quantity = orders[o].quantity
                         /\ orders'[o].approval = orders[o].approval
    BY <1>2 DEF ServeOrders, Inv, TypeOK, Orders
  <2> QED
    BY <1>2, <2>1 DEF ServeOrders, StockInv, SettlementIsAtomic, BillsOf, Exists
<1>3. ASSUME NEW r \in Request, Step(r) PROVE StockInv'
  BY <1>1, <1>3, OnlySettlingWrites, SettleStock
<1> QED
  BY <1>1, <1>2, <1>3 DEF Next, vars

(* A closed scope is paid for, released and taken from the stock, at once.   *)
THEOREM SettlementIsAtomicAlways == Spec => []SettlementIsAtomic
<1>1. StockInv => SettlementIsAtomic
  BY DEF StockInv
<1>2. Spec => []StockInv
  BY SpecInv, InitStock, StockStep, PTL DEF Spec
<1> QED
  BY <1>1, <1>2, PTL

-----------------------------------------------------------------------------
(* Refinement.  A paid bill was settled by somebody: the payments in the     *)
(* table are those the requests made.                                        *)
PaidHasSettler ==
    \A b \in BillId : Exists(b) /\ Paid(bills[b]) => \E r \in Request : Settles(r, b)

Told == {"settled", "already", "existing", "already_paid"}

LEMMA FieldsKept ==
    ASSUME NEW q \in RequestState, NEW o, NEW b, NEW pc
    PROVE  /\ Answer(q, o).outcome = o /\ Answer(q, o).bill = q.bill
           /\ Finish(q, o).outcome = o /\ Finish(q, o).bill = q.bill
           /\ Hold(q, b, pc).outcome = q.outcome
  BY DEF Answer, Finish, Hold, RequestState

(* An outcome is written once, and "settled" by the settling step only.      *)
LEMMA OutcomeWrittenOnce ==
    ASSUME Inv, NEW r \in Request, Step(r), ~SettleCommits(r)
    PROVE  \/ /\ requests'[r].outcome = requests[r].outcome
              /\ requests'[r].bill = requests[r].bill
           \/ requests[r].outcome = "none" /\ requests'[r].outcome # "settled"
<1> DEFINE q == requests[r]
           n == requests'[r]
<1>1. q \in RequestState /\ RequestOK(q)
  BY DEF Inv, TypeOK
<1>2. \A x : Become(r, x) => n = x
  BY DEF Become, Inv, TypeOK
<1>3. ASSUME NEW x \in RequestState, x.outcome = "none", LoadRunningBill(r, x)
      PROVE  n.outcome # "settled"
  BY <1>2, <1>3, FieldsKept DEF LoadRunningBill
<1>4. CASE BeginPay(r)
  <2>1. PICK s \in Scope, k \in ClientKey \cup {NULL}, m \in {"cash", "transfer"}, a \in Amount :
           LoadRunningBill(r, [IdleRequest EXCEPT !.op = "pay", !.scope = s,
                                   !.key = k, !.method = m, !.amount = a])
    BY <1>4 DEF BeginPay
  <2> DEFINE x == [IdleRequest EXCEPT !.op = "pay", !.scope = s,
                                      !.key = k, !.method = m, !.amount = a]
  <2>2. x \in RequestState /\ x.outcome = "none"
    BY AmountAssumption DEF IdleRequest, RequestState, PC, Outcome, Key
  <2> QED
    BY <1>1, <1>3, <1>4, <2>1, <2>2 DEF BeginPay, RequestOK
<1>5. CASE BeginConfirm(r)
  <2>1. n.outcome \in {"none", "no_bill", "already_paid"}
    BY <1>2, <1>5 DEF BeginConfirm, Answer, IdleRequest
  <2> QED
    BY <1>1, <1>5, <2>1 DEF BeginConfirm, RequestOK
<1>6. CASE ConfirmLoadsBill(r)
  BY <1>1, <1>3, <1>6 DEF ConfirmLoadsBill, RequestOK
<1>7. CASE BeginWebhook(r)
  <2>1. n.outcome \in {"none", "duplicate"}
    BY <1>2, <1>7 DEF BeginWebhook, Answer, IdleRequest
  <2>2. q.pc = "idle"
    BY <1>7 DEF BeginWebhook
  <2> QED
    BY <1>1, <2>1, <2>2 DEF RequestOK
<1>8. CASE ResolveWebhookBill(r)
  <2>1. q.outcome = "none"
    BY <1>1, <1>8 DEF ResolveWebhookBill, RequestOK
  <2>2. ASSUME NEW b PROVE [Hold(q, b, "record") EXCEPT !.outcome = "already_paid"].outcome = "already_paid"
    BY <1>1 DEF Hold, RequestState
  <2>3. \/ n = Answer(q, "no_bill") \/ n = Answer(q, "rejected")
        \/ \E b : n = [Hold(q, b, "record") EXCEPT !.outcome = "already_paid"]
        \/ \E b : n = Hold(q, b, "check")
    BY <1>2, <1>8, Zenon DEF ResolveWebhookBill
  <2>4. CASE n = Answer(q, "no_bill") \/ n = Answer(q, "rejected")
    BY <1>1, <2>1, <2>4, FieldsKept
  <2>5. CASE \E b : n = [Hold(q, b, "record") EXCEPT !.outcome = "already_paid"]
    <3>1. n.outcome = "already_paid"
      BY <2>2, <2>5, Zenon
    <3> QED
      BY <2>1, <3>1
  <2>6. CASE \E b : n = Hold(q, b, "check")
    BY <1>1, <2>1, <2>6, FieldsKept
  <2> QED
    BY <2>3, <2>4, <2>5, <2>6
<1>9. CASE CheckPayable(r)
  <2>1. [q EXCEPT !.pc = "fast"].outcome = q.outcome
    BY <1>1 DEF RequestState
  <2>2. q.outcome = "none"
    BY <1>1, <1>9 DEF CheckPayable, RequestOK
  <2>3. n = Answer(q, "rejected") \/ n = [q EXCEPT !.pc = "fast"]
    BY <1>2, <1>9, Zenon DEF CheckPayable
  <2>4. CASE n = Answer(q, "rejected")
    <3>1. n.outcome = "rejected"
      BY <1>1, <2>4, FieldsKept
    <3> QED
      BY <2>2, <3>1
  <2>5. CASE n = [q EXCEPT !.pc = "fast"]
    <3>1. n.outcome = "none"
      BY <2>1, <2>2, <2>5
    <3> QED
      BY <2>2, <3>1
  <2> QED
    BY <2>3, <2>4, <2>5
<1>10. CASE IdempotencyFastPath(r)
  <2>1. [q EXCEPT !.pc = "settle"].outcome = q.outcome
    BY <1>1 DEF RequestState
  <2>2. ASSUME NEW b PROVE Finish([q EXCEPT !.bill = b, !.row = bills[b]], "existing").outcome = "existing"
    BY <1>1 DEF Finish, RequestState
  <2>3. n.outcome \in {q.outcome, "existing"} /\ q.outcome = "none"
    BY <1>1, <1>2, <1>10, <2>1, <2>2 DEF IdempotencyFastPath, RequestOK
  <2> QED
    BY <2>3
<1>11. CASE SettleLosesClaim(r)
  <2>1. Finish([q EXCEPT !.row = bills[q.bill]], "already").outcome = "already"
    BY <1>1 DEF Finish, RequestState
  <2> QED
    BY <1>1, <1>2, <1>11, <2>1 DEF SettleLosesClaim, RequestOK
<1>12. CASE SettleRollsBack(r)
  BY <1>1, <1>2, <1>12, FieldsKept DEF SettleRollsBack, RequestOK
<1>13. CASE UploadReceipt(r) \/ SkipReceipt(r)
  BY <1>1, <1>2, <1>13, FieldsKept DEF UploadReceipt, SkipReceipt
<1>14. CASE RecordWebhookEvent(r)
  BY <1>1, <1>2, <1>14, FieldsKept DEF RecordWebhookEvent
<1>15. CASE Abort(r)
  BY <1>1, <1>2, <1>15, FieldsKept DEF Abort
<1> QED
  BY <1>4, <1>5, <1>6, <1>7, <1>8, <1>9, <1>10, <1>11, <1>12, <1>13, <1>14, <1>15 DEF Step

LEMMA SettlerStep ==
    ASSUME Inv, PaidHasSettler, [Next]_vars PROVE PaidHasSettler'
<1>1. CASE UNCHANGED <<bills, requests>>
  BY <1>1 DEF PaidHasSettler, Settles, Exists
<1>2. ASSUME NEW r \in Request, SettleCommits(r) PROVE PaidHasSettler'
  <2> DEFINE q == requests[r]
             n == [q EXCEPT !.pc = "receipt", !.row = SettledRow(q), !.outcome = "settled"]
  <2>1. q \in RequestState /\ Become(r, n)
    BY <1>2, SettleEffect DEF SettleCommits
  <2>2. n.outcome = "settled" /\ n.bill = q.bill
    BY <2>1 DEF RequestState
  <2>3. requests'[r] = n /\ \A o \in Request \ {r} : requests'[o] = requests[o]
    BY <2>1 DEF Become, Inv, TypeOK
  <2>4. \A b \in BillId \ {q.bill} : (Exists(b) /\ Paid(bills[b]))' => Exists(b) /\ Paid(bills[b])
    BY <1>2, SettleEffect DEF Paid
  <2>5. ~ \E b \in BillId : Settles(r, b)
    <3>1. RequestOK(q) /\ q.pc = "settle"
      BY <1>2 DEF Inv, SettleCommits
    <3> QED
      BY <3>1 DEF RequestOK, Settles
  <2>6. ASSUME NEW b \in BillId, (Exists(b) /\ Paid(bills[b]))'
        PROVE  (\E o \in Request : Settles(o, b))'
    <3>1. CASE b = q.bill
      BY <2>2, <2>3, <3>1 DEF Settles
    <3>2. CASE b # q.bill
      <4>1. PICK o \in Request : Settles(o, b)
        BY <2>4, <2>6, <3>2 DEF PaidHasSettler
      <4> QED
        BY <2>3, <2>5, <4>1 DEF Settles
    <3> QED
      BY <3>1, <3>2
  <2> QED
    BY <2>6 DEF PaidHasSettler
<1>3. ASSUME NEW r \in Request, Step(r), ~SettleCommits(r) PROVE PaidHasSettler'
  <2>1. UNCHANGED bills
    BY <1>3, OnlySettlingWrites
  <2>2. \A o \in Request, b \in BillId : Settles(o, b) => Settles(o, b)'
    BY <1>3, OneRequestMoves, OutcomeWrittenOnce DEF Settles
  <2> QED
    BY <2>1, <2>2 DEF PaidHasSettler, Exists
<1> QED
  BY <1>1, <1>2, <1>3 DEF Next, ServeOrders, vars

LEMMA InitLedger == Init => Ledger!Init /\ PaidHasSettler
<1> SUFFICES ASSUME Init PROVE Ledger!Init /\ PaidHasSettler
  OBVIOUS
<1>1. \A r \in Request : requests[r].outcome = "none"
  BY DEF Init, IdleRequest
<1>2. SettledBy = [b \in BillId |-> {}]
  BY <1>1 DEF SettledBy, Settles
<1>3. Closed = {}
  BY DEF Init, Closed
<1>4. ToldPaid = [r \in Request |-> NULL]
  BY <1>1 DEF ToldPaid
<1>5. \A b \in BillId : Exists(b) => ~Paid(bills[b])
  BY DEF Init, IssuedBill, Exists, Paid
<1> QED
  BY <1>2, <1>3, <1>4, <1>5 DEF Ledger!Init, PaidHasSettler

LEMMA SettleIsLedgerSettle ==
    ASSUME Inv, NEW r \in Request, SettleCommits(r)
    PROVE  Ledger!Settle(requests[r].bill, r, requests[r].scope)
<1> DEFINE q == requests[r]
           n == [q EXCEPT !.pc = "receipt", !.row = SettledRow(q), !.outcome = "settled"]
<1>1. /\ q \in RequestState /\ RequestOK(q) /\ q.pc = "settle" /\ Become(r, n)
      /\ q.bill \in BillId /\ q.scope \in Scope /\ ~Paid(bills[q.bill])
  BY SettleEffect DEF SettleCommits, HoldsBill
<1>2. q.outcome = "none"
  BY <1>1 DEF RequestOK
<1>3. n.outcome = "settled" /\ n.bill = q.bill
  BY <1>1 DEF RequestState
<1>4. requests'[r] = n /\ \A o \in Request \ {r} : requests'[o] = requests[o]
  BY <1>1 DEF Become, Inv, TypeOK
<1>5. \A o \in Request : ~Settles(o, q.bill)
  BY <1>1 DEF Inv, RequestOK, Settles
<1>6. SettledBy' = [SettledBy EXCEPT ![q.bill] = {r}]
  <2>1. \A o \in Request, b \in {q.bill} : Settles(o, b)' <=> o = r
    BY <1>3, <1>4, <1>5 DEF Settles
  <2>2. \A o \in Request, b \in BillId \ {q.bill} : Settles(o, b)' <=> Settles(o, b)
    BY <1>2, <1>3, <1>4 DEF Settles
  <2>3. SettledBy'[q.bill] = {r}
    BY <1>1, <2>1 DEF SettledBy
  <2>4. \A b \in BillId \ {q.bill} : SettledBy'[b] = SettledBy[b]
    BY <2>2 DEF SettledBy
  <2> QED
    BY <2>3, <2>4 DEF SettledBy
<1>7. Closed' = Closed \cup {q.scope}
  BY <1>1 DEF SettleCommits, Closed, Inv, TypeOK
<1>8. ToldPaid' = [ToldPaid EXCEPT ![r] = q.bill]
  BY <1>3, <1>4 DEF ToldPaid
<1>9. SettledBy[q.bill] = {} /\ ToldPaid[r] = NULL
  BY <1>1, <1>2, <1>5 DEF SettledBy, ToldPaid
<1> QED
  BY <1>6, <1>7, <1>8, <1>9 DEF Ledger!Settle

LEMMA OtherStepTells ==
    ASSUME Inv, PaidHasSettler, NEW r \in Request, Step(r), ~SettleCommits(r)
    PROVE  [Ledger!Next]_(Ledger!ledger)
<1>1. /\ UNCHANGED <<bills, scopeStatus>>
      /\ \A o \in Request \ {r} : requests'[o] = requests[o]
  BY OnlySettlingWrites, OneRequestMoves
<1>2. Closed' = Closed
  BY <1>1 DEF Closed
<1>3. \A o \in Request, b \in BillId : Settles(o, b)' <=> Settles(o, b)
  BY <1>1, OutcomeWrittenOnce DEF Settles
<1>4. SettledBy' = SettledBy
  BY <1>3 DEF SettledBy
<1>5. CASE requests'[r].outcome = requests[r].outcome /\ requests'[r].bill = requests[r].bill
  <2>1. ToldPaid' = ToldPaid
    BY <1>1, <1>5 DEF ToldPaid
  <2> QED
    BY <1>2, <1>4, <2>1 DEF Ledger!ledger
<1>6. CASE requests[r].outcome = "none" /\ requests'[r].outcome \notin Told
  <2>1. ToldPaid' = ToldPaid
    BY <1>1, <1>6 DEF ToldPaid, Told
  <2> QED
    BY <1>2, <1>4, <2>1 DEF Ledger!ledger
<1>7. CASE requests[r].outcome = "none" /\ requests'[r].outcome \in Told
  <2> DEFINE b == requests'[r].bill
  <2>1. Inv'
    BY StepInv DEF Next
  <2>2. b \in BillId /\ Exists(b) /\ Paid(bills[b])
    BY <1>1, <1>7, <2>1 DEF Inv, RequestOK, Told, Exists
  <2>3. SettledBy[b] # {}
    BY <2>2 DEF PaidHasSettler, SettledBy
  <2>4. ToldPaid[r] = NULL /\ ToldPaid' = [ToldPaid EXCEPT ![r] = b]
    BY <1>1, <1>7 DEF ToldPaid, Told
  <2>5. Ledger!TellPaid(b, r)
    BY <1>2, <1>4, <2>3, <2>4 DEF Ledger!TellPaid
  <2> QED
    BY <2>2, <2>5 DEF Ledger!Next
<1> QED
  BY <1>5, <1>6, <1>7, OutcomeWrittenOnce

LEMMA LedgerStep ==
    ASSUME Inv, PaidHasSettler, [Next]_vars PROVE [Ledger!Next]_(Ledger!ledger)
<1>1. CASE UNCHANGED <<requests, scopeStatus>>
  BY <1>1 DEF Ledger!ledger, SettledBy, Closed, ToldPaid, Settles
<1>2. ASSUME NEW r \in Request, SettleCommits(r) PROVE Ledger!Next
  <2>1. requests[r].bill \in BillId /\ requests[r].scope \in Scope
    BY <1>2, SettleEffect DEF HoldsBill
  <2> QED
    BY <1>2, <2>1, SettleIsLedgerSettle DEF Ledger!Next
<1> QED
  BY <1>1, <1>2, OtherStepTells DEF Next, ServeOrders, vars

(* The requests together behave like the ledger, whatever the interleaving.  *)
THEOREM LedgerImplemented == Spec => ImplementsLedger
<1>1. Spec => []PaidHasSettler
  BY SpecInv, InitLedger, SettlerStep, PTL DEF Spec
<1> QED
  BY <1>1, SpecInv, InitLedger, LedgerStep, PTL DEF Spec, ImplementsLedger, Ledger!Spec

=============================================================================
