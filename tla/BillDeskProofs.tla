---------------------------- MODULE BillDeskProofs ----------------------------
(***************************************************************************)
(* The bills of the desk, proved for any number of scopes, bills,          *)
(* references, requests, editors, orders and rates: what payments and      *)
(* billing endpoints do to each other's bills, tabs and stock records      *)
(* (module BillDesk), and what a bill comes to (module GuestBill).         *)
(***************************************************************************)
EXTENDS BillDesk, GuestBill, SequenceTheorems, SumProofs, TLAPS

-----------------------------------------------------------------------------
(* The inductive invariant.                                                  *)

(* A copied bill belongs to the tab its holder works on, and so does the row *)
(* it was copied from, whoever wrote that row since.                         *)
HoldsRow(x) ==
    /\ x.bill \in BillId /\ x.scope \in Scope /\ x.row \in Bill
    /\ Exists(x.bill)
    /\ x.row.scope = x.scope /\ bills[x.bill].scope = x.scope

Covered(row) ==
    /\ row.payment_status = "paid"
    /\ row.payment_amount_kobo >= row.total_kobo

HasSettled(s) == \E r \in Request, b \in BillsOf(s) : Settles(r, b)

RequestSound(q) ==
    /\ q.pc \in {"check", "fast", "settle", "receipt"} => HoldsRow(q)
    /\ q.pc \in {"fast", "settle"} => q.row.total_kobo <= q.amount
    /\ q.pc = "receipt" => q.outcome = "settled" /\ Paid(q.row) /\ Covered(q.row)
    /\ q.pc = "confirm" => q.scope \in Scope /\ q.op # "webhook"
    /\ q.pc \in {"resolve", "record"} => q.op = "webhook"
    /\ q.op = "webhook" => q.key \in Ref
    /\ q.outcome = "settled" => /\ q.pc \in {"receipt", "record", "done"}
                                /\ q.bill \in BillId /\ Exists(q.bill)

(* An endpoint never has a paid bill in hand, and closes a tab only after it *)
(* saw a payment of it.                                                      *)
EditSound(d) ==
    /\ d.pc \notin {"idle", "done"} => d.scope \in Scope
    /\ d.pc = "save" => HoldsRow(d) /\ ~Paid(d.row)
    /\ d.pc = "close" => HasSettled(d.scope)

BillSound(b) ==
    Exists(b) /\ Paid(bills[b]) =>
        /\ Covered(bills[b])
        /\ \E r \in Request : Settles(r, b)

DeskInv ==
    /\ DeskTypeOK
    /\ \A r \in Request : RequestSound(requests[r])
    /\ \A e \in Editor : EditSound(edits[e])
    /\ \A b \in BillId : BillSound(b)
    /\ ClosedOnlyWhenSettled
    /\ StockTakenOnce

-----------------------------------------------------------------------------
(* No bill disappears or moves to another tab, and no settlement is undone.  *)
BillsStay ==
    \A b \in BillId : Exists(b) => bills'[b] # NULL /\ bills'[b].scope = bills[b].scope

SettlesStay ==
    \A r \in Request, b \in BillId : Settles(r, b) => Settles(r, b)'

(* A tab that was paid for once stays so.                                    *)
LEMMA HasSettledStays ==
    ASSUME BillsStay, SettlesStay, NEW s \in Scope, HasSettled(s)
    PROVE  HasSettled(s)'
<1>1. PICK r \in Request, b \in BillsOf(s) : Settles(r, b)
  BY DEF HasSettled
<1>2. b \in BillId /\ Exists(b) /\ bills[b].scope = s
  BY DEF BillsOf
<1>3. (b \in BillsOf(s))'
  BY <1>2 DEF BillsStay, BillsOf, Exists
<1>4. Settles(r, b)'
  BY <1>1, <1>2 DEF SettlesStay
<1> QED
  BY <1>3, <1>4 DEF HasSettled

(* What is left to show of a step: the parts of the state it changed.        *)
LEMMA Preserved ==
    ASSUME DeskInv, DeskTypeOK', BillsStay, SettlesStay,
           \A o \in Request : requests'[o] = requests[o] \/ RequestSound(requests[o])',
           \A e \in Editor : edits'[e] = edits[e] \/ EditSound(edits[e])',
           \A b \in BillId : bills'[b] = bills[b] \/ BillSound(b)',
           \A s \in Scope : scopeStatus'[s] = "paid" =>
                               scopeStatus[s] = "paid" \/ HasSettled(s)',
           StockTakenOnce'
    PROVE  DeskInv'
<1>1. ASSUME NEW x, HoldsRow(x) PROVE HoldsRow(x)'
  BY <1>1 DEF HoldsRow, BillsStay, Exists
<1>2. ASSUME NEW o \in Request PROVE RequestSound(requests[o])'
  <2>1. CASE requests'[o] = requests[o]
    <3> DEFINE q == requests[o]
    <3>1. RequestSound(q)
      BY DEF DeskInv
    <3>2. HoldsRow(q) => HoldsRow(requests[o])'
      BY <1>1, <2>1 DEF HoldsRow
    <3>3. q.bill \in BillId /\ Exists(q.bill) => (Exists(requests[o].bill))'
      BY <2>1 DEF BillsStay, Exists
    <3> QED
      BY <2>1, <3>1, <3>2, <3>3 DEF RequestSound
  <2> QED
    BY <2>1
<1>3. ASSUME NEW e \in Editor PROVE EditSound(edits[e])'
  <2>1. CASE edits'[e] = edits[e]
    <3> DEFINE d == edits[e]
    <3>1. EditSound(d)
      BY DEF DeskInv
    <3>2. HoldsRow(d) => HoldsRow(edits[e])'
      BY <1>1, <2>1 DEF HoldsRow
    <3>3. d.scope \in Scope /\ HasSettled(d.scope) => HasSettled(edits[e].scope)'
      <4> SUFFICES ASSUME d.scope \in Scope, HasSettled(d.scope)
                   PROVE  HasSettled(edits[e].scope)'
        OBVIOUS
      <4>1. PICK s \in Scope : s = d.scope
        OBVIOUS
      <4>2. HasSettled(s)'
        BY <4>1, HasSettledStays
      <4> QED
        BY <2>1, <4>1, <4>2
    <3> QED
      BY <2>1, <3>1, <3>2, <3>3 DEF EditSound
  <2> QED
    BY <2>1
<1>4. ASSUME NEW b \in BillId PROVE BillSound(b)'
  BY DEF DeskInv, BillSound, SettlesStay, Exists
<1>5. ClosedOnlyWhenSettled'
  <2>1. ASSUME NEW s \in Scope, scopeStatus'[s] = "paid" PROVE HasSettled(s)'
    BY <2>1, HasSettledStays DEF DeskInv, ClosedOnlyWhenSettled, HasSettled
  <2> QED
    BY <2>1 DEF ClosedOnlyWhenSettled, HasSettled
<1> QED
  BY <1>2, <1>3, <1>4, <1>5 DEF DeskInv

-----------------------------------------------------------------------------
(* The requests that change nothing but themselves.                          *)

LEMMA DeskBecomes ==
    ASSUME DeskTypeOK, NEW r \in Request, NEW q \in RequestState, Become(r, q)
    PROVE  /\ requests' \in [Request -> RequestState]
           /\ requests'[r] = q
           /\ \A o \in Request : o # r => requests'[o] = requests[o]
  BY DEF DeskTypeOK, TypeOK, Become

LEMMA DeskAnswers ==
    ASSUME NEW q \in RequestState, NEW o \in Outcome
    PROVE  Answer(q, o) \in RequestState /\ Finish(q, o) \in RequestState
  BY DEF Answer, Finish, RequestState, PC

LEMMA RequestMoves ==
    ASSUME DeskInv, NEW r \in Request, NEW q \in RequestState, Become(r, q),
           UNCHANGED <<bills, orders, scopeStatus, tableStatus, consumption, edits>>,
           webhookEvents' \subseteq Ref, RequestSound(q),
           requests[r].outcome = "settled" => q.outcome = "settled" /\ q.bill = requests[r].bill
    PROVE  DeskInv'
<1>1. /\ requests' \in [Request -> RequestState] /\ requests'[r] = q
      /\ \A o \in Request : o # r => requests'[o] = requests[o]
  BY DeskBecomes DEF DeskInv
<1>2. DeskTypeOK'
  BY <1>1 DEF DeskInv, DeskTypeOK, TypeOK
<1>3. BillsStay
  BY DEF BillsStay, Exists
<1>4. SettlesStay
  BY <1>1 DEF SettlesStay, Settles
<1>5. RequestSound(requests[r])'
  BY <1>1 DEF RequestSound, HoldsRow, Exists
<1>6. StockTakenOnce'
  BY DEF DeskInv, StockTakenOnce
<1> QED
  BY <1>1, <1>2, <1>3, <1>4, <1>5, <1>6, Preserved

(* The same, for a request that is not settled and says so.                  *)
LEMMA QuietRequest ==
    ASSUME DeskInv, NEW r \in Request, NEW q \in RequestState, Become(r, q),
           UNCHANGED Database, UNCHANGED edits, RequestSound(q),
           requests[r].pc \notin {"receipt", "record", "done"}
    PROVE  DeskInv'
<1>1. requests[r].outcome # "settled"
  BY DEF DeskInv, RequestSound
<1>2. webhookEvents' \subseteq Ref
  BY DEF DeskInv, DeskTypeOK, TypeOK, Database
<1> QED
  BY <1>1, <1>2, RequestMoves DEF Database

LEMMA HoldTakesRow ==
    ASSUME DeskInv, NEW q \in RequestState, NEW b \in BillId, Exists(b), NEW pc \in PC
    PROVE  /\ Hold(q, b, pc) \in RequestState
           /\ HoldsRow(Hold(q, b, pc))
           /\ Hold(q, b, pc).pc = pc /\ Hold(q, b, pc).op = q.op
           /\ Hold(q, b, pc).key = q.key /\ Hold(q, b, pc).outcome = q.outcome
  BY NullAssumption DEF DeskInv, DeskTypeOK, TypeOK, HoldsRow, Hold, Exists, RequestState, Bill

(* An answer that claims no settlement is sound whoever gives it.            *)
LEMMA AnswerSound ==
    ASSUME NEW q \in RequestState, q.op = "webhook" => q.key \in Ref,
           NEW o \in Outcome \ {"settled"}
    PROVE  RequestSound(Answer(q, o)) /\ RequestSound(Finish(q, o))
  BY DEF Answer, Finish, RequestSound, RequestState

LEMMA DeskLoads ==
    ASSUME DeskInv, NEW r \in Request, NEW q \in RequestState,
           q.op # "webhook", q.outcome # "settled",
           requests[r].pc \in {"idle", "confirm"},
           LoadRunningBill(r, q), UNCHANGED Database, UNCHANGED edits
    PROVE  DeskInv'
<1>1. CASE Become(r, Answer(q, "no_bill"))
  <2>1. Answer(q, "no_bill") \in RequestState /\ RequestSound(Answer(q, "no_bill"))
    BY DeskAnswers, AnswerSound DEF Outcome
  <2> QED
    BY <1>1, <2>1, QuietRequest
<1>2. ASSUME NEW b \in BillId, Newest(LiveBills(q.scope), b), Become(r, Hold(q, b, "check"))
      PROVE  DeskInv'
  <2>1. Exists(b)
    BY <1>2 DEF Newest, LiveBills, BillsOf
  <2> DEFINE h == Hold(q, b, "check")
  <2>2. /\ h \in RequestState /\ HoldsRow(h)
        /\ h.pc = "check" /\ h.op = q.op /\ h.key = q.key /\ h.outcome = q.outcome
    BY <2>1, HoldTakesRow DEF PC
  <2> HIDE DEF h
  <2>3. RequestSound(h)
    BY <2>2 DEF RequestSound
  <2> QED
    BY <1>2, <2>2, <2>3, QuietRequest DEF h
<1> QED
  BY <1>1, <1>2 DEF LoadRunningBill

LEMMA PayDesk ==
    ASSUME DeskInv, NEW r \in Request, BeginPay(r), UNCHANGED edits PROVE DeskInv'
<1>1. PICK s \in Scope, k \in ClientKey \cup {NULL}, m \in {"cash", "transfer"}, a \in Amount :
         LoadRunningBill(r, [IdleRequest EXCEPT !.op = "pay", !.scope = s,
                                 !.key = k, !.method = m, !.amount = a])
  BY DEF BeginPay
<1> DEFINE q == [IdleRequest EXCEPT !.op = "pay", !.scope = s,
                                    !.key = k, !.method = m, !.amount = a]
<1>2. q \in RequestState
  BY AmountAssumption DEF IdleRequest, RequestState, PC, Outcome, Key
<1>3. q.op # "webhook" /\ q.outcome = "none"
  BY DEF IdleRequest
<1> HIDE DEF q
<1> QED
  BY <1>1, <1>2, <1>3, DeskLoads DEF BeginPay, q

LEMMA ConfirmDesk ==
    ASSUME DeskInv, NEW r \in Request, BeginConfirm(r), UNCHANGED edits PROVE DeskInv'
<1> DEFINE q(s) == [IdleRequest EXCEPT !.op = "confirm", !.scope = s, !.key = s,
                                       !.method = "cash"]
           p(s, b) == IF Paid(bills[b])
                      THEN Answer([q(s) EXCEPT !.bill = b], "already_paid")
                      ELSE [q(s) EXCEPT !.pc = "confirm", !.amount = bills[b].total_kobo]
<1>1. PICK s \in Scope :
         \/ Become(r, Answer(q(s), "no_bill"))
         \/ \E b \in BillId : Newest(BillsOf(s), b) /\ Become(r, p(s, b))
  BY DEF BeginConfirm
<1>2. CASE Become(r, Answer(q(s), "no_bill"))
  <2>1. q(s) \in RequestState /\ q(s).op = "confirm"
    BY DEF IdleRequest, RequestState, PC, Outcome, Key
  <2>2. Answer(q(s), "no_bill") \in RequestState /\ RequestSound(Answer(q(s), "no_bill"))
    BY <2>1, DeskAnswers, AnswerSound DEF Outcome
  <2> QED
    BY <1>2, <2>2, QuietRequest DEF BeginConfirm
<1>3. ASSUME NEW b \in BillId, Newest(BillsOf(s), b), Become(r, p(s, b))
      PROVE  DeskInv'
  <2>1. Exists(b) /\ bills[b] \in Bill
    BY <1>3 DEF Newest, BillsOf, Exists, DeskInv, DeskTypeOK, TypeOK
  <2>2. p(s, b) \in RequestState
    BY <2>1 DEF Answer, IdleRequest, RequestState, PC, Outcome, Key, Bill
  <2>3. RequestSound(p(s, b))
    BY <2>1 DEF Answer, IdleRequest, RequestSound
  <2> HIDE DEF p
  <2> QED
    BY <1>3, <2>2, <2>3, QuietRequest DEF BeginConfirm
<1> QED
  BY <1>1, <1>2, <1>3

LEMMA ConfirmLoadsDesk ==
    ASSUME DeskInv, NEW r \in Request, ConfirmLoadsBill(r), UNCHANGED edits PROVE DeskInv'
<1>1. requests[r] \in RequestState /\ RequestSound(requests[r])
  BY DEF DeskInv, DeskTypeOK, TypeOK
<1> QED
  BY <1>1, DeskLoads DEF ConfirmLoadsBill, RequestSound

LEMMA WebhookDesk ==
    ASSUME DeskInv, NEW r \in Request, BeginWebhook(r), UNCHANGED edits PROVE DeskInv'
<1> DEFINE q(p) == [IdleRequest EXCEPT !.op = "webhook", !.key = p, !.amount = RefAmount[p]]
           refused(p) == Answer(q(p), "duplicate")
           accepted(p) == [q(p) EXCEPT !.pc = "resolve"]
<1>1. PICK p \in Ref : Become(r, refused(p)) \/ Become(r, accepted(p))
  BY DEF BeginWebhook
<1>2. refused(p) \in RequestState /\ accepted(p) \in RequestState
  BY AmountAssumption DEF Answer, IdleRequest, RequestState, PC, Outcome, Key
<1>3. RequestSound(refused(p)) /\ RequestSound(accepted(p))
  BY DEF Answer, IdleRequest, RequestSound
<1> HIDE DEF refused, accepted
<1> QED
  BY <1>1, <1>2, <1>3, QuietRequest DEF BeginWebhook

LEMMA ResolveDesk ==
    ASSUME DeskInv, NEW r \in Request, ResolveWebhookBill(r), UNCHANGED edits PROVE DeskInv'
<1> DEFINE q == requests[r]
           n(b) == IF Paid(bills[b]) THEN [Hold(q, b, "record") EXCEPT !.outcome = "already_paid"]
                   ELSE IF bills[b].total_kobo # q.amount THEN Answer(q, "rejected")
                   ELSE Hold(q, b, "check")
<1>1. /\ q \in RequestState /\ RequestSound(q) /\ q.pc = "resolve"
      /\ UNCHANGED Database
  BY DEF DeskInv, DeskTypeOK, TypeOK, ResolveWebhookBill
<1>2. q.op = "webhook" /\ q.key \in Ref /\ q.outcome # "settled"
  BY <1>1 DEF RequestSound
<1>3. CASE Become(r, Answer(q, "no_bill"))
  <2>1. Answer(q, "no_bill") \in RequestState /\ RequestSound(Answer(q, "no_bill"))
    BY <1>1, <1>2, DeskAnswers, AnswerSound DEF Outcome
  <2> QED
    BY <1>1, <1>3, <2>1, QuietRequest
<1>4. ASSUME NEW b \in Resolved(q.key), Become(r, n(b))
      PROVE  DeskInv'
  <2>1. b \in BillId /\ Exists(b)
    BY <1>4 DEF Resolved, Referenced, Payable
  <2> DEFINE k == Hold(q, b, "check")
             t == Hold(q, b, "record")
             a == [t EXCEPT !.outcome = "already_paid"]
  <2> "check" \in PC /\ "record" \in PC
    BY DEF PC
  <2>2. /\ k \in RequestState /\ HoldsRow(k)
        /\ k.pc = "check" /\ k.op = q.op /\ k.key = q.key /\ k.outcome = q.outcome
    BY <1>1, <2>1, HoldTakesRow
  <2>3. /\ t \in RequestState /\ t.pc = "record" /\ t.op = q.op /\ t.key = q.key
    BY <1>1, <2>1, HoldTakesRow
  <2>4. Answer(q, "rejected") \in RequestState /\ RequestSound(Answer(q, "rejected"))
    BY <1>1, <1>2, DeskAnswers, AnswerSound DEF Outcome
  <2> HIDE DEF k, t
  <2>5. RequestSound(k)
    BY <1>2, <2>2 DEF RequestSound
  <2>6. a \in RequestState /\ RequestSound(a)
    BY <1>2, <2>3 DEF RequestSound, RequestState, Outcome
  <2>7. n(b) \in {a, Answer(q, "rejected"), k}
    BY DEF k, t
  <2> HIDE DEF a, n
  <2> QED
    BY <1>1, <1>4, <2>2, <2>4, <2>5, <2>6, <2>7, QuietRequest
<1> QED
  BY <1>3, <1>4 DEF ResolveWebhookBill

LEMMA CheckDesk ==
    ASSUME DeskInv, NEW r \in Request, CheckPayable(r), UNCHANGED edits PROVE DeskInv'
<1> DEFINE q == requests[r]
           f == [q EXCEPT !.pc = "fast"]
<1>1. /\ q \in RequestState /\ RequestSound(q) /\ q.pc = "check"
      /\ UNCHANGED Database
  BY DEF DeskInv, DeskTypeOK, TypeOK, CheckPayable
<1>2. CASE Become(r, Answer(q, "rejected"))
  <2>1. Answer(q, "rejected") \in RequestState /\ RequestSound(Answer(q, "rejected"))
    BY <1>1, DeskAnswers, AnswerSound DEF Outcome, RequestSound
  <2> QED
    BY <1>1, <1>2, <2>1, QuietRequest
<1>3. CASE Become(r, f) /\ ~Refused(q)
  <2>1. q.row.total_kobo <= q.amount
    BY <1>1, <1>3 DEF Refused, RequestSound, HoldsRow, RequestState, Bill
  <2>2. f \in RequestState
    BY <1>1 DEF RequestState, PC
  <2>3. RequestSound(f)
    BY <1>1, <2>1 DEF RequestSound, RequestState, HoldsRow
  <2> HIDE DEF f
  <2> QED
    BY <1>1, <1>3, <2>2, <2>3, QuietRequest
<1> QED
  BY <1>2, <1>3 DEF CheckPayable

LEMMA FastPathDesk ==
    ASSUME DeskInv, NEW r \in Request, IdempotencyFastPath(r), UNCHANGED edits PROVE DeskInv'
<1> DEFINE q == requests[r]
<1>1. /\ q \in RequestState /\ RequestSound(q) /\ q.pc = "fast"
      /\ UNCHANGED Database
  BY DEF DeskInv, DeskTypeOK, TypeOK, IdempotencyFastPath
<1>2. CASE Become(r, [q EXCEPT !.pc = "settle"])
  <2>1. [q EXCEPT !.pc = "settle"] \in RequestState
    BY <1>1 DEF RequestState, PC
  <2>2. RequestSound([q EXCEPT !.pc = "settle"])
    BY <1>1 DEF RequestSound, RequestState, HoldsRow
  <2> QED
    BY <1>1, <1>2, <2>1, <2>2, QuietRequest
<1>3. ASSUME NEW b \in PaidWith(q.key),
             Become(r, Finish([q EXCEPT !.bill = b, !.row = bills[b]], "existing"))
      PROVE  DeskInv'
  <2> DEFINE p == [q EXCEPT !.bill = b, !.row = bills[b]]
  <2>1. b \in BillId /\ bills[b] \in Bill
    BY DEF PaidWith, Exists, DeskInv, DeskTypeOK, TypeOK
  <2>2. p \in RequestState /\ p.op = q.op /\ p.key = q.key
    BY <1>1, <2>1 DEF RequestState
  <2> HIDE DEF p
  <2>3. Finish(p, "existing") \in RequestState /\ RequestSound(Finish(p, "existing"))
    BY <1>1, <2>2, DeskAnswers, AnswerSound DEF Outcome, RequestSound
  <2> QED
    BY <1>1, <1>3, <2>3, QuietRequest DEF p
<1> QED
  BY <1>2, <1>3 DEF IdempotencyFastPath

LEMMA LosesDesk ==
    ASSUME DeskInv, NEW r \in Request, SettleLosesClaim(r), UNCHANGED edits PROVE DeskInv'
<1> DEFINE q == requests[r]
           p == [q EXCEPT !.row = bills[q.bill]]
<1>1. /\ q \in RequestState /\ RequestSound(q) /\ q.pc = "settle"
      /\ UNCHANGED Database /\ Become(r, Finish(p, "already"))
  BY DEF DeskInv, DeskTypeOK, TypeOK, SettleLosesClaim
<1>2. bills[q.bill] \in Bill
  BY <1>1 DEF RequestSound, HoldsRow, Exists, DeskInv, DeskTypeOK, TypeOK
<1>3. p \in RequestState /\ p.op = q.op /\ p.key = q.key
  BY <1>1, <1>2 DEF RequestState
<1> HIDE DEF p
<1>4. Finish(p, "already") \in RequestState /\ RequestSound(Finish(p, "already"))
  BY <1>1, <1>3, DeskAnswers, AnswerSound DEF Outcome, RequestSound
<1> QED
  BY <1>1, <1>4, QuietRequest

LEMMA RollsBackDesk ==
    ASSUME DeskInv, NEW r \in Request, SettleRollsBack(r), UNCHANGED edits PROVE DeskInv'
<1> DEFINE q == requests[r]
<1>1. /\ q \in RequestState /\ RequestSound(q) /\ q.pc = "settle"
      /\ UNCHANGED Database /\ Become(r, Answer(q, "rejected"))
  BY DEF DeskInv, DeskTypeOK, TypeOK, SettleRollsBack
<1>2. Answer(q, "rejected") \in RequestState /\ RequestSound(Answer(q, "rejected"))
  BY <1>1, DeskAnswers, AnswerSound DEF Outcome, RequestSound
<1> QED
  BY <1>1, <1>2, QuietRequest

(* A request that ends, or goes on to the ledger, keeps what it settled.     *)
LEMMA EndsDesk ==
    ASSUME DeskInv, NEW r \in Request, NEW n, NEW o \in Outcome,
           n = Answer(requests[r], o) \/ n = Finish(requests[r], o),
           o = requests[r].outcome \/ (requests[r].outcome = "none" /\ o = "failed"),
           Become(r, n),
           UNCHANGED <<bills, orders, scopeStatus, tableStatus, consumption, edits>>,
           webhookEvents' \subseteq Ref
    PROVE  DeskInv'
<1> DEFINE q == requests[r]
<1>1. q \in RequestState /\ RequestSound(q)
  BY DEF DeskInv, DeskTypeOK, TypeOK
<1>2. n \in RequestState
  BY <1>1, DeskAnswers
<1>3. /\ n.outcome = o /\ n.bill = q.bill /\ n.op = q.op /\ n.key = q.key
      /\ n.pc = "done" \/ (n.pc = "record" /\ q.op = "webhook")
  BY <1>1 DEF Answer, Finish, RequestState
<1>4. RequestSound(n)
  BY <1>1, <1>3 DEF RequestSound
<1>5. q.outcome = "settled" => n.outcome = "settled" /\ n.bill = q.bill
  BY <1>3
<1> QED
  BY <1>2, <1>4, <1>5, RequestMoves

LEMMA SkipDesk ==
    ASSUME DeskInv, NEW r \in Request, SkipReceipt(r), UNCHANGED edits PROVE DeskInv'
<1>1. requests[r].outcome \in Outcome /\ webhookEvents \subseteq Ref
  BY DEF DeskInv, DeskTypeOK, TypeOK, RequestState
<1> QED
  BY <1>1, EndsDesk DEF SkipReceipt, Database

LEMMA RecordDesk ==
    ASSUME DeskInv, NEW r \in Request, RecordWebhookEvent(r), UNCHANGED edits PROVE DeskInv'
<1>1. /\ requests[r].outcome \in Outcome /\ webhookEvents \subseteq Ref
      /\ RequestSound(requests[r])
  BY DEF DeskInv, DeskTypeOK, TypeOK, RequestState
<1>2. webhookEvents' \subseteq Ref
  BY <1>1 DEF RecordWebhookEvent, RequestSound
<1> QED
  BY <1>1, <1>2, EndsDesk DEF RecordWebhookEvent

LEMMA AbortDesk ==
    ASSUME DeskInv, NEW r \in Request, Abort(r), UNCHANGED edits PROVE DeskInv'
<1>1. requests[r].outcome \in Outcome /\ "failed" \in Outcome /\ webhookEvents \subseteq Ref
  BY DEF DeskInv, DeskTypeOK, TypeOK, RequestState, Outcome
<1>2. CASE requests[r].outcome = "none"
  BY <1>1, <1>2, EndsDesk DEF Abort, Database
<1>3. CASE requests[r].outcome # "none"
  BY <1>1, <1>3, EndsDesk DEF Abort, Database
<1> QED
  BY <1>2, <1>3

-----------------------------------------------------------------------------
(* The requests that write the bills table.                                  *)

LEMMA UploadDesk ==
    ASSUME DeskInv, NEW r \in Request, UploadReceipt(r), UNCHANGED edits PROVE DeskInv'
<1> DEFINE q == requests[r]
           n == Finish(q, q.outcome)
<1>1. q \in RequestState /\ RequestSound(q) /\ q.pc = "receipt" /\ Become(r, n)
  BY DEF DeskInv, DeskTypeOK, TypeOK, UploadReceipt
<1>2. HoldsRow(q) /\ q.outcome = "settled" /\ Paid(q.row) /\ Covered(q.row)
  BY <1>1 DEF RequestSound
<1>3. n \in RequestState
  BY <1>1, DeskAnswers DEF RequestState
<1>4. /\ n.outcome = "settled" /\ n.bill = q.bill /\ n.op = q.op /\ n.key = q.key
      /\ n.pc = "done" \/ (n.pc = "record" /\ q.op = "webhook")
  BY <1>1, <1>2 DEF Finish, RequestState
<1> HIDE DEF n
<1>5. /\ requests' \in [Request -> RequestState] /\ requests'[r] = n
      /\ \A o \in Request : o # r => requests'[o] = requests[o]
  BY <1>1, <1>3, DeskBecomes DEF DeskInv
<1>6. /\ bills' \in [BillId -> Bill \cup {NULL}]
      /\ bills'[q.bill] \in {bills[q.bill], q.row}
      /\ \A b \in BillId : b # q.bill => bills'[b] = bills[b]
  BY <1>2 DEF UploadReceipt, HoldsRow, DeskInv, DeskTypeOK, TypeOK
<1>7. DeskTypeOK'
  BY <1>5, <1>6 DEF UploadReceipt, DeskInv, DeskTypeOK, TypeOK
<1>8. BillsStay
  BY <1>2, <1>6, RowAssumption DEF BillsStay, HoldsRow, Exists
<1>9. SettlesStay
  BY <1>4, <1>5 DEF SettlesStay, Settles
<1>10. RequestSound(requests[r])'
  <2>1. bills'[q.bill] # NULL /\ q.bill \in BillId
    BY <1>2, <1>8 DEF BillsStay, HoldsRow
  <2> QED
    BY <1>1, <1>4, <1>5, <2>1 DEF RequestSound, Exists
<1>11. ASSUME NEW b \in BillId, bills'[b] # bills[b] PROVE BillSound(b)'
  <2>1. b = q.bill /\ bills'[b] = q.row
    BY <1>6, <1>11
  <2>2. Settles(r, b)'
    BY <1>4, <1>5, <2>1 DEF Settles
  <2> QED
    BY <1>2, <2>1, <2>2 DEF BillSound, Covered
<1>12. UNCHANGED <<scopeStatus, consumption, orders>>
  BY DEF UploadReceipt
<1>13. StockTakenOnce'
  BY <1>12 DEF DeskInv, StockTakenOnce
<1> QED
  BY <1>5, <1>7, <1>8, <1>9, <1>10, <1>11, <1>12, <1>13, Preserved

LEMMA SettledRowSound ==
    ASSUME NEW q \in RequestState, q.row \in Bill, q.op = "webhook" => q.key \in Ref,
           q.row.total_kobo <= q.amount
    PROVE  /\ SettledRow(q) \in Bill /\ SettledRow(q).scope = q.row.scope
           /\ Paid(SettledRow(q)) /\ Covered(SettledRow(q))
<1> DEFINE k == IF q.key = NULL THEN q.row.idempotency_key ELSE q.key
           p == IF q.op = "webhook" THEN q.key ELSE q.row.payment_reference
<1>1. k \in Key /\ p \in Ref \cup {NULL} /\ q.amount \in Nat /\ q.row \in Bill
  BY DEF RequestState, Bill
<1>2. SettledRow(q) = [q.row EXCEPT !.payment_status = "paid", !.paid_at = "set",
                                    !.idempotency_key = k, !.payment_reference = p,
                                    !.payment_amount_kobo = q.amount]
  BY <1>1 DEF SettledRow, Bill
<1> HIDE DEF k, p
<1> QED
  BY <1>1, <1>2 DEF Bill, Stamp, Paid, Covered

(* What the settling request does to the bills table.                        *)
LEMMA SettleWrites ==
    ASSUME DeskInv, NEW r \in Request, SettleCommits(r)
    PROVE  LET q == requests[r]
           IN  /\ q \in RequestState /\ RequestSound(q) /\ HoldsRow(q)
               /\ q.outcome # "settled"
               /\ SettledRow(q) \in Bill /\ SettledRow(q).scope = q.scope
               /\ Paid(SettledRow(q)) /\ Covered(SettledRow(q))
               /\ bills' \in [BillId -> Bill \cup {NULL}]
               /\ bills'[q.bill] = SettledRow(q)
               /\ \A b \in BillId \ {q.bill} :
                     /\ bills[b] = NULL => bills'[b] = NULL
                     /\ Exists(b) =>
                           /\ bills'[b] # NULL
                           /\ bills'[b].scope = bills[b].scope
                           /\ bills'[b].paid_at = bills[b].paid_at
                     /\ Exists(b) /\ Paid(bills[b]) => bills'[b] = bills[b]
<1> DEFINE q == requests[r]
           w == SettledRow(q)
<1>1. q \in RequestState /\ RequestSound(q) /\ q.pc = "settle"
  BY DEF DeskInv, DeskTypeOK, TypeOK, SettleCommits
<1>2. /\ HoldsRow(q) /\ q.outcome # "settled" /\ q.row.total_kobo <= q.amount
      /\ q.op = "webhook" => q.key \in Ref
  BY <1>1 DEF RequestSound
<1>3. q.row \in Bill /\ q.bill \in BillId /\ q.row.scope = q.scope
  BY <1>2 DEF HoldsRow
<1>4. w \in Bill /\ w.scope = q.scope /\ Paid(w) /\ Covered(w)
  BY <1>1, <1>2, <1>3, SettledRowSound
<1> HIDE DEF w
<1> DEFINE v(b) == [bills[b] EXCEPT !.voided_at = "set"]
           n(b) == IF b = q.bill THEN w
                   ELSE IF Superseded(b, q.scope) THEN v(b) ELSE bills[b]
<1>5. bills' = [b \in BillId |-> n(b)]
  BY DEF SettleCommits, w
<1>6. ASSUME NEW b \in BillId, Superseded(b, q.scope)
      PROVE  /\ Exists(b) /\ v(b) \in Bill /\ v(b) # NULL /\ ~Paid(bills[b])
             /\ v(b).scope = bills[b].scope /\ v(b).paid_at = bills[b].paid_at
  <2>1. Exists(b) /\ bills[b] \in Bill /\ ~Paid(bills[b])
    BY <1>6 DEF Superseded, LiveBills, BillsOf, Exists, DeskInv, DeskTypeOK, TypeOK
  <2>2. v(b) \in Bill
    BY <2>1 DEF Bill, Stamp
  <2> QED
    BY <2>1, <2>2, RowAssumption DEF Bill
<1>7. \A b \in BillId : n(b) \in Bill \cup {NULL}
  BY <1>4, <1>6 DEF DeskInv, DeskTypeOK, TypeOK
<1>8. \A b \in BillId \ {q.bill} :
         /\ bills[b] = NULL => n(b) = NULL
         /\ Exists(b) =>
               /\ n(b) # NULL
               /\ n(b).scope = bills[b].scope
               /\ n(b).paid_at = bills[b].paid_at
         /\ Exists(b) /\ Paid(bills[b]) => n(b) = bills[b]
  BY <1>6 DEF Exists
<1>9. n(q.bill) = w
  OBVIOUS
<1> HIDE DEF n, v
<1>10. \A b \in BillId : bills'[b] = n(b)
  BY <1>5
<1>11. bills' \in [BillId -> Bill \cup {NULL}]
  BY <1>5, <1>7
<1> QED
  BY <1>1, <1>2, <1>3, <1>4, <1>8, <1>9, <1>10, <1>11 DEF w

LEMMA SettleDesk ==
    ASSUME DeskInv, NEW r \in Request, SettleCommits(r), UNCHANGED edits PROVE DeskInv'
<1> DEFINE q == requests[r]
           w == SettledRow(q)
           n == [q EXCEPT !.pc = "receipt", !.row = w, !.outcome = "settled"]
<1>1. /\ q \in RequestState /\ RequestSound(q) /\ HoldsRow(q) /\ q.outcome # "settled"
      /\ w \in Bill /\ w.scope = q.scope /\ Paid(w) /\ Covered(w)
      /\ bills' \in [BillId -> Bill \cup {NULL}] /\ bills'[q.bill] = w
  BY SettleWrites
<1>2. \A b \in BillId \ {q.bill} :
         /\ bills[b] = NULL => bills'[b] = NULL
         /\ Exists(b) =>
               /\ bills'[b] # NULL
               /\ bills'[b].scope = bills[b].scope
               /\ bills'[b].paid_at = bills[b].paid_at
         /\ Exists(b) /\ Paid(bills[b]) => bills'[b] = bills[b]
  BY SettleWrites
<1>3. /\ q.bill \in BillId /\ q.scope \in Scope /\ bills[q.bill].scope = q.scope
      /\ Exists(q.bill) /\ w # NULL
  BY <1>1, RowAssumption DEF HoldsRow
<1>4. Become(r, n)
  BY DEF SettleCommits
<1>5. n \in RequestState
  BY <1>1 DEF RequestState, PC, Outcome
<1>6. /\ n.pc = "receipt" /\ n.row = w /\ n.outcome = "settled" /\ n.bill = q.bill
      /\ n.scope = q.scope /\ n.op = q.op /\ n.key = q.key
  BY <1>1 DEF RequestState
<1> HIDE DEF n, w
<1>7. /\ requests' \in [Request -> RequestState] /\ requests'[r] = n
      /\ \A o \in Request : o # r => requests'[o] = requests[o]
  BY <1>4, <1>5, DeskBecomes DEF DeskInv
<1>8. DeskTypeOK'
  <2>1. consumption' \in [StockRef -> Nat]
    <3>1. Consumed(q) \in Nat
      BY <1>3 DEF Consumed, Reference, DeskInv, DeskTypeOK, TypeOK, Orders, StockRef
    <3> QED
      BY <3>1 DEF SettleCommits, DeskInv, DeskTypeOK, TypeOK
  <2>2. orders' \in [Scope -> Orders]
    <3>1. Released(orders[q.scope]) \in Orders
      BY <1>3 DEF Released, Orders, DeskInv, DeskTypeOK, TypeOK
    <3> QED
      BY <3>1 DEF SettleCommits, DeskInv, DeskTypeOK, TypeOK
  <2>3. scopeStatus' \in [Scope -> Status] /\ tableStatus' \in [Table -> {"available", "occupied"}]
    BY DEF SettleCommits, DeskInv, DeskTypeOK, TypeOK, Status
  <2>4. webhookEvents' \subseteq Ref
    BY DEF SettleCommits, DeskInv, DeskTypeOK, TypeOK
  <2> QED
    BY <1>1, <1>7, <2>1, <2>2, <2>3, <2>4 DEF DeskInv, DeskTypeOK, TypeOK
<1>9. BillsStay
  BY <1>1, <1>2, <1>3 DEF BillsStay
<1>10. SettlesStay
  BY <1>1, <1>7 DEF SettlesStay, Settles
<1>11. \A b \in BillId : b = q.bill => Settles(r, b)'
  BY <1>6, <1>7 DEF Settles
<1>12. RequestSound(requests[r])'
  <2>1. HoldsRow(requests[r])'
    BY <1>1, <1>3, <1>6, <1>7 DEF HoldsRow, Exists
  <2>2. bills'[q.bill] # NULL
    BY <1>1, <1>3
  <2>3. q.op = "webhook" => q.key \in Ref
    BY <1>1 DEF RequestSound
  <2> QED
    BY <1>1, <1>3, <1>6, <1>7, <2>1, <2>2, <2>3 DEF RequestSound, Exists
<1>13. ASSUME NEW b \in BillId, bills'[b] # bills[b] PROVE BillSound(b)'
  <2>1. CASE b = q.bill
    BY <1>1, <1>11, <2>1 DEF BillSound, Covered
  <2>2. CASE b # q.bill
    BY <1>2, <1>13, <2>2 DEF BillSound, Paid, Exists
  <2> QED
    BY <2>1, <2>2
<1>14. ASSUME NEW s \in Scope, scopeStatus'[s] = "paid", scopeStatus[s] # "paid"
       PROVE  HasSettled(s)'
  <2>1. s = q.scope
    BY <1>14 DEF SettleCommits, DeskInv, DeskTypeOK, TypeOK
  <2>2. \A b \in BillId : b = q.bill => (b \in BillsOf(s))'
    BY <1>1, <1>3, <2>1 DEF BillsOf, Exists
  <2> QED
    BY <1>3, <1>11, <2>2 DEF HasSettled
<1>15. StockTakenOnce'
  <2> SUFFICES ASSUME NEW s \in Scope, IsTab(s)
               PROVE  consumption'[s] <= orders'[s].quantity
    BY DEF StockTakenOnce
  <2>1. /\ consumption[s] <= orders[s].quantity /\ s \in StockRef
        /\ consumption[s] \in Nat /\ orders[s].quantity \in Nat /\ orders[s] \in Orders
    BY DEF DeskInv, StockTakenOnce, StockRef, DeskTypeOK, TypeOK, Orders
  <2>2. orders'[s].quantity = orders[s].quantity
    BY <2>1 DEF SettleCommits, Released, Orders, DeskInv, DeskTypeOK, TypeOK
  <2>3. CASE s = q.scope
    <3>1. Reference(q) = s
      BY <2>3 DEF Reference
    <3>2. consumption'[s] = Consumed(q)
      BY <2>1, <3>1 DEF SettleCommits, DeskInv, DeskTypeOK, TypeOK
    <3> QED
      BY <2>1, <2>2, <2>3, <3>1, <3>2 DEF Consumed
  <2>4. CASE s # q.scope
    <3>1. Reference(q) # s
      BY <1>3, <2>4, BillIdAssumption DEF Reference
    <3>2. consumption'[s] = consumption[s]
      BY <2>1, <3>1 DEF SettleCommits, DeskInv, DeskTypeOK, TypeOK
    <3> QED
      BY <2>1, <2>2, <3>2
  <2> QED
    BY <2>3, <2>4
<1> QED
  BY <1>7, <1>8, <1>9, <1>10, <1>12, <1>13, <1>14, <1>15, Preserved

LEMMA ServeDesk ==
    ASSUME DeskInv, NEW s \in Scope, ServeOrders(s), UNCHANGED edits PROVE DeskInv'
<1>1. DeskTypeOK'
  BY DEF ServeOrders, DeskInv, DeskTypeOK, TypeOK, Orders
<1>2. \A x \in Scope : orders'[x].quantity = orders[x].quantity
  BY DEF ServeOrders, DeskInv, DeskTypeOK, TypeOK, Orders
<1>3. BillsStay /\ SettlesStay
  BY DEF ServeOrders, BillsStay, SettlesStay, Settles, Exists
<1>4. StockTakenOnce'
  BY <1>2 DEF ServeOrders, DeskInv, StockTakenOnce
<1> QED
  BY <1>1, <1>3, <1>4, Preserved DEF ServeOrders

-----------------------------------------------------------------------------
(* The billing endpoints.                                                    *)

LEMMA EditBecomes ==
    ASSUME DeskTypeOK, NEW e \in Editor, NEW d \in EditState, BecomeEdit(e, d)
    PROVE  /\ edits' \in [Editor -> EditState]
           /\ edits'[e] = d
           /\ \A o \in Editor : o # e => edits'[o] = edits[o]
  BY DEF DeskTypeOK, BecomeEdit

(* A step of an endpoint that leaves the bills alone.                        *)
LEMMA EditMoves ==
    ASSUME DeskInv, NEW e \in Editor, NEW d \in EditState, BecomeEdit(e, d),
           EditSound(d), UNCHANGED <<bills, requests>>, TypeOK',
           \A s \in Scope : scopeStatus'[s] = "paid" =>
                               scopeStatus[s] = "paid" \/ HasSettled(s),
           StockTakenOnce'
    PROVE  DeskInv'
<1>1. /\ edits' \in [Editor -> EditState] /\ edits'[e] = d
      /\ \A o \in Editor : o # e => edits'[o] = edits[o]
  BY EditBecomes DEF DeskInv
<1>2. DeskTypeOK' /\ BillsStay /\ SettlesStay
  BY <1>1 DEF DeskTypeOK, BillsStay, SettlesStay, Settles, Exists
<1>3. EditSound(edits[e])'
  <2>1. d.pc = "save" => HoldsRow(edits[e])'
    BY <1>1 DEF EditSound, HoldsRow, Exists
  <2>2. d.scope \in Scope /\ HasSettled(d.scope) => HasSettled(edits[e].scope)'
    BY <1>1 DEF HasSettled, Settles, BillsOf, Exists
  <2> QED
    BY <1>1, <2>1, <2>2 DEF EditSound
<1>4. ASSUME NEW s \in Scope, scopeStatus'[s] = "paid", scopeStatus[s] # "paid"
      PROVE  HasSettled(s)'
  BY <1>2, <1>4, HasSettledStays
<1> QED
  BY <1>1, <1>2, <1>3, <1>4, Preserved

(* An endpoint that has only read.                                           *)
LEMMA EditReads ==
    ASSUME DeskInv, NEW e \in Editor, NEW d \in EditState, BecomeEdit(e, d),
           EditSound(d), UNCHANGED vars
    PROVE  DeskInv'
<1>1. TypeOK' /\ StockTakenOnce' /\ UNCHANGED <<bills, requests, scopeStatus>>
  BY DEF vars, DeskInv, DeskTypeOK, TypeOK, StockTakenOnce
<1> QED
  BY <1>1, EditMoves

(* A call that goes on with nothing in hand but its tab.                     *)
LEMMA EditCalls ==
    ASSUME DeskInv, NEW e \in Editor, NEW s \in Scope, NEW op \in EditOp,
           NEW pc \in {"insert", "round", "reopen", "close"},
           Starts(e, Then(Call(op, s), pc)), pc = "close" => HasSettled(s)
    PROVE  DeskInv'
<1> DEFINE d == Then(Call(op, s), pc)
<1>1. d \in EditState /\ d.pc = pc /\ d.scope = s
  BY NullAssumption DEF Then, Call, IdleEdit, EditState
<1> HIDE DEF d
<1>2. EditSound(d)
  BY <1>1 DEF EditSound
<1> QED
  BY <1>1, <1>2, EditReads DEF Starts, d

(* A call that read a bill of its tab, unpaid, and edited its copy.          *)
LEMMA EditCopies ==
    ASSUME DeskInv, NEW e \in Editor, NEW s \in Scope, NEW op \in EditOp,
           NEW b \in BillsOf(s), NEW row \in Bill, row.scope = s, ~Paid(row),
           Starts(e, Edited(Call(op, s), b, row))
    PROVE  DeskInv'
<1> DEFINE d == Edited(Call(op, s), b, row)
<1>1. b \in BillId /\ Exists(b) /\ bills[b].scope = s
  BY DEF BillsOf
<1>2. d \in EditState /\ d.pc = "save" /\ d.scope = s /\ d.bill = b /\ d.row = row
  BY <1>1 DEF Edited, Call, IdleEdit, EditState
<1> HIDE DEF d
<1>3. EditSound(d)
  BY <1>1, <1>2 DEF EditSound, HoldsRow
<1> QED
  BY <1>2, <1>3, EditReads DEF Starts, d

LEMMA BillOfTab ==
    ASSUME DeskInv, NEW s, NEW b \in BillsOf(s)
    PROVE  b \in BillId /\ bills[b] \in Bill /\ bills[b].scope = s
  BY DEF DeskInv, DeskTypeOK, TypeOK, BillsOf, Exists

LEMMA BeginGenerateDesk ==
    ASSUME DeskInv, NEW e \in Editor, BeginGenerate(e) PROVE DeskInv'
<1>1. PICK s \in Scope :
         \/ Starts(e, Then(Call("generate", s), "insert"))
         \/ \E b \in BillId, a \in Amount :
               /\ Newest(LiveBills(s), b)
               /\ ~Paid(bills[b])
               /\ Starts(e, Edited(Call("generate", s), b, [bills[b] EXCEPT !.total_kobo = a]))
  BY DEF BeginGenerate
<1>2. CASE Starts(e, Then(Call("generate", s), "insert"))
  BY <1>2, EditCalls DEF EditOp
<1>3. ASSUME NEW b \in BillId, NEW a \in Amount, Newest(LiveBills(s), b), ~Paid(bills[b]),
             Starts(e, Edited(Call("generate", s), b, [bills[b] EXCEPT !.total_kobo = a]))
      PROVE  DeskInv'
  <2> DEFINE row == [bills[b] EXCEPT !.total_kobo = a]
  <2>1. b \in BillsOf(s)
    BY <1>3 DEF Newest, LiveBills
  <2>2. row \in Bill /\ row.scope = s /\ ~Paid(row)
    BY <1>3, <2>1, BillOfTab, AmountAssumption DEF Bill, Paid
  <2> HIDE DEF row
  <2> QED
    BY <1>3, <2>1, <2>2, EditCopies DEF EditOp, row
<1> QED
  BY <1>1, <1>2, <1>3

LEMMA BeginDiscountDesk ==
    ASSUME DeskInv, NEW e \in Editor, BeginDiscount(e) PROVE DeskInv'
<1>1. PICK s \in Scope, a \in Amount, b \in BillId :
         /\ b \in BillsOf(s)
         /\ ~Paid(bills[b])
         /\ Starts(e, Edited(Call("discount", s), b, [bills[b] EXCEPT !.total_kobo = a]))
  BY DEF BeginDiscount, BillsOf
<1> DEFINE row == [bills[b] EXCEPT !.total_kobo = a]
<1>2. row \in Bill /\ row.scope = s /\ ~Paid(row)
  BY <1>1, BillOfTab, AmountAssumption DEF Bill, Paid
<1> HIDE DEF row
<1> QED
  BY <1>1, <1>2, EditCopies DEF EditOp, row

(* A bill that waits for its payment is not paid.                            *)
LEMMA BeginInitializeDesk ==
    ASSUME DeskInv, NEW e \in Editor, BeginInitialize(e) PROVE DeskInv'
<1>1. PICK s \in Scope :
         \/ Starts(e, Then(Call("initialize", s), "insert"))
         \/ \E b \in PendingBills(s), p \in Ref :
               Starts(e, Edited(Call("initialize", s), b,
                                [bills[b] EXCEPT !.payment_reference = p]))
  BY DEF BeginInitialize
<1>2. CASE Starts(e, Then(Call("initialize", s), "insert"))
  BY <1>2, EditCalls DEF EditOp
<1>3. ASSUME NEW b \in PendingBills(s), NEW p \in Ref,
             Starts(e, Edited(Call("initialize", s), b,
                              [bills[b] EXCEPT !.payment_reference = p]))
      PROVE  DeskInv'
  <2> DEFINE row == [bills[b] EXCEPT !.payment_reference = p]
  <2>1. b \in BillsOf(s) /\ bills[b].payment_status = "pending"
    BY DEF PendingBills
  <2>2. ~Paid(bills[b])
    BY <2>1 DEF DeskInv, BillSound, Covered, BillsOf
  <2>3. row \in Bill /\ row.scope = s /\ ~Paid(row)
    BY <2>1, <2>2, BillOfTab DEF Bill, Paid
  <2> HIDE DEF row
  <2> QED
    BY <1>3, <2>1, <2>3, EditCopies DEF EditOp, row
<1> QED
  BY <1>1, <1>2, <1>3

LEMMA BeginCashIntentDesk ==
    ASSUME DeskInv, NEW e \in Editor, BeginCashIntent(e) PROVE DeskInv'
<1> DEFINE row(b, a) == [bills[b] EXCEPT !.payment_status = "pending_cash", !.total_kobo = a]
<1>1. PICK s \in Scope :
         \/ Starts(e, Then(Call("cash", s), "insert"))
         \/ \E b \in BillId, a \in Amount :
               /\ Newest(BillsOf(s), b)
               /\ ~Paid(bills[b])
               /\ Starts(e, Edited(Call("cash", s), b, row(b, a)))
  BY DEF BeginCashIntent
<1>2. CASE Starts(e, Then(Call("cash", s), "insert"))
  BY <1>2, EditCalls DEF EditOp
<1>3. ASSUME NEW b \in BillId, NEW a \in Amount, Newest(BillsOf(s), b), ~Paid(bills[b]),
             Starts(e, Edited(Call("cash", s), b, row(b, a)))
      PROVE  DeskInv'
  <2>1. b \in BillsOf(s)
    BY <1>3 DEF Newest
  <2>2. bills[b] \in Bill /\ bills[b].scope = s /\ a \in Nat
    BY <2>1, BillOfTab, AmountAssumption
  <2>3. row(b, a) \in Bill /\ row(b, a).scope = s /\ ~Paid(row(b, a))
    BY <1>3, <2>2 DEF Bill, Paid
  <2> HIDE DEF row
  <2> QED
    BY <1>3, <2>1, <2>3, EditCopies DEF EditOp
<1> QED
  BY <1>1, <1>2, <1>3

LEMMA BeginRemoveDesk ==
    ASSUME DeskInv, NEW e \in Editor, BeginRemove(e) PROVE DeskInv'
<1> DEFINE row(b) == [bills[b] EXCEPT !.voided_at = "set", !.payment_status = "voided"]
<1>1. PICK s \in Scope, b \in BillId :
         /\ Newest(LiveBills(s), b)
         /\ ~Paid(bills[b])
         /\ Starts(e, Edited(Call("remove", s), b, row(b)))
  BY DEF BeginRemove
<1>2. b \in BillsOf(s)
  BY <1>1 DEF Newest, LiveBills
<1>3. bills[b] \in Bill /\ bills[b].scope = s
  BY <1>2, BillOfTab
<1>4. row(b) \in Bill /\ row(b).scope = s /\ ~Paid(row(b))
  BY <1>1, <1>3 DEF Bill, Paid, Stamp
<1> HIDE DEF row
<1> QED
  BY <1>1, <1>2, <1>4, EditCopies DEF EditOp

LEMMA BeginRoundDesk ==
    ASSUME DeskInv, NEW e \in Editor, BeginRound(e) PROVE DeskInv'
  BY EditCalls DEF BeginRound, EditOp

LEMMA BeginCloseDesk ==
    ASSUME DeskInv, NEW e \in Editor, BeginClose(e) PROVE DeskInv'
<1>1. PICK s \in Scope, b \in BillId :
         /\ b \in BillsOf(s) /\ Paid(bills[b])
         /\ Starts(e, Then(Call("close", s), "close"))
  BY DEF BeginClose, BillsOf
<1>2. HasSettled(s)
  BY <1>1 DEF DeskInv, BillSound, BillsOf, HasSettled
<1> QED
  BY <1>1, <1>2, EditCalls DEF EditOp

-----------------------------------------------------------------------------
(* The endpoints that write the bills table.                                 *)

(* A step of an endpoint that leaves everything but one bill, unpaid as it   *)
(* then is, alone.                                                           *)
LEMMA EditWrites ==
    ASSUME DeskInv, NEW e \in Editor, NEW pc \in {"mark", "hold", "done"},
           edits[e].scope \in Scope, BecomeEdit(e, Then(edits[e], pc)),
           NEW b \in BillId, NEW row \in Bill, ~Paid(row),
           Exists(b) => row.scope = bills[b].scope,
           bills' = [bills EXCEPT ![b] = row],
           UNCHANGED <<orders, scopeStatus, tableStatus, consumption, webhookEvents, requests>>
    PROVE  DeskInv'
<1> DEFINE d == Then(edits[e], pc)
<1>1. d \in EditState /\ d.pc = pc /\ d.scope = edits[e].scope
  BY DEF Then, EditState, DeskInv, DeskTypeOK
<1> HIDE DEF d
<1>2. /\ edits' \in [Editor -> EditState] /\ edits'[e] = d
      /\ \A o \in Editor : o # e => edits'[o] = edits[o]
  BY <1>1, EditBecomes DEF DeskInv, d
<1>3. /\ bills' \in [BillId -> Bill \cup {NULL}] /\ bills'[b] = row /\ row # NULL
      /\ \A o \in BillId : o # b => bills'[o] = bills[o]
  BY RowAssumption DEF DeskInv, DeskTypeOK, TypeOK
<1>4. DeskTypeOK'
  BY <1>2, <1>3 DEF DeskInv, DeskTypeOK, TypeOK
<1>5. BillsStay /\ SettlesStay
  BY <1>3 DEF BillsStay, SettlesStay, Settles, Exists
<1>6. EditSound(edits[e])'
  BY <1>1, <1>2 DEF EditSound
<1>7. BillSound(b)'
  BY <1>3 DEF BillSound
<1>8. StockTakenOnce'
  BY DEF DeskInv, StockTakenOnce
<1> QED
  BY <1>2, <1>3, <1>4, <1>5, <1>6, <1>7, <1>8, Preserved

LEMMA InsertBillDesk ==
    ASSUME DeskInv, NEW e \in Editor, InsertBill(e) PROVE DeskInv'
<1> DEFINE d == edits[e]
<1>1. d.pc = "insert" /\ d.scope \in Scope
  BY DEF InsertBill, DeskInv, EditSound
<1>2. PICK b \in BillId, a \in Amount, p \in Ref \cup {NULL} :
         ~Exists(b) /\ bills' = [bills EXCEPT ![b] = NewBill(d, p, a)]
  BY Zenon DEF InsertBill
<1>3. NewBill(d, p, a) \in Bill /\ ~Paid(NewBill(d, p, a))
  BY <1>1, AmountAssumption DEF NewBill, Bill, Paid, Stamp, Key
<1>4. AfterWrite(d) \in {"mark", "hold", "done"}
  BY DEF AfterWrite
<1> QED
  BY <1>1, <1>2, <1>3, <1>4, EditWrites DEF InsertBill

LEMMA SaveBillDesk ==
    ASSUME DeskInv, NEW e \in Editor, SaveBill(e) PROVE DeskInv'
<1> DEFINE d == edits[e]
<1>1. d.pc = "save" /\ d.scope \in Scope /\ HoldsRow(d) /\ ~Paid(d.row)
  BY DEF SaveBill, DeskInv, EditSound
<1>2. d.bill \in BillId /\ d.row \in Bill /\ d.row.scope = bills[d.bill].scope
  BY <1>1 DEF HoldsRow
<1>3. AfterWrite(d) \in {"mark", "hold", "done"}
  BY DEF AfterWrite
<1> QED
  BY <1>1, <1>2, <1>3, EditWrites DEF SaveBill

-----------------------------------------------------------------------------
(* The endpoints' other writes.                                              *)
LEMMA ThenMoves ==
    ASSUME DeskInv, NEW e \in Editor, edits[e].scope \in Scope, edits[e].pc # "idle",
           NEW pc \in {"round", "done"},
           BecomeEdit(e, Then(edits[e], pc)), UNCHANGED <<bills, requests>>, TypeOK',
           \A s \in Scope : scopeStatus'[s] = "paid" =>
                               scopeStatus[s] = "paid" \/ HasSettled(s),
           StockTakenOnce'
    PROVE  DeskInv'
<1> DEFINE d == Then(edits[e], pc)
<1>1. d \in EditState /\ d.pc = pc /\ d.scope = edits[e].scope
  BY DEF Then, EditState, DeskInv, DeskTypeOK
<1> HIDE DEF d
<1>2. EditSound(d)
  BY <1>1 DEF EditSound
<1> QED
  BY <1>1, <1>2, EditMoves DEF d

LEMMA ActiveScope ==
    ASSUME DeskInv, NEW e \in Editor, edits[e].pc \notin {"idle", "done"}
    PROVE  edits[e].scope \in Scope
  BY DEF DeskInv, EditSound

LEMMA MarkBilledDesk ==
    ASSUME DeskInv, NEW e \in Editor, MarkBilled(e) PROVE DeskInv'
<1>1. edits[e].scope \in Scope /\ edits[e].pc = "mark"
  BY ActiveScope DEF MarkBilled
<1>2. /\ scopeStatus' \in [Scope -> Status]
      /\ \A s \in Scope : scopeStatus'[s] = "paid" => scopeStatus[s] = "paid"
  BY <1>1 DEF MarkBilled, DeskInv, DeskTypeOK, TypeOK, Status
<1>3. TypeOK' /\ StockTakenOnce'
  BY <1>2 DEF MarkBilled, DeskInv, DeskTypeOK, TypeOK, StockTakenOnce
<1> QED
  BY <1>1, <1>2, <1>3, ThenMoves DEF MarkBilled

LEMMA ReopenTabDesk ==
    ASSUME DeskInv, NEW e \in Editor, ReopenTab(e) PROVE DeskInv'
<1>1. edits[e].scope \in Scope /\ edits[e].pc = "reopen"
  BY ActiveScope DEF ReopenTab
<1>2. /\ scopeStatus' \in [Scope -> Status]
      /\ \A s \in Scope : scopeStatus'[s] = "paid" => scopeStatus[s] = "paid"
  BY <1>1 DEF ReopenTab, DeskInv, DeskTypeOK, TypeOK, Status
<1>3. TypeOK' /\ StockTakenOnce'
  BY <1>2 DEF ReopenTab, DeskInv, DeskTypeOK, TypeOK, StockTakenOnce
<1> QED
  BY <1>1, <1>2, <1>3, ThenMoves DEF ReopenTab

(* Orders come and are held; nothing is taken from the stock for them here.  *)
LEMMA HoldOrdersDesk ==
    ASSUME DeskInv, NEW e \in Editor, HoldOrders(e) PROVE DeskInv'
<1>1. edits[e].scope \in Scope /\ edits[e].pc = "hold"
  BY ActiveScope DEF HoldOrders
<1>2. /\ orders' \in [Scope -> Orders]
      /\ \A s \in Scope : orders'[s].quantity = orders[s].quantity
  <2>1. CASE UNCHANGED orders
    BY <2>1 DEF DeskInv, DeskTypeOK, TypeOK
  <2>2. CASE \E k \in {"busy", "clear"} :
                orders' = [orders EXCEPT ![edits[e].scope].approval = "held",
                                         ![edits[e].scope].kitchen = k]
    BY <1>1, <2>2 DEF DeskInv, DeskTypeOK, TypeOK, Orders
  <2> QED
    BY <2>1, <2>2 DEF HoldOrders
<1>3. TypeOK' /\ StockTakenOnce'
  BY <1>2 DEF HoldOrders, DeskInv, DeskTypeOK, TypeOK, StockTakenOnce
<1> QED
  BY <1>1, <1>3, ThenMoves DEF HoldOrders

(* A round records at most the units it adds, and only where nothing is      *)
(* recorded yet.                                                             *)
LEMMA InsertRoundDesk ==
    ASSUME DeskInv, NEW e \in Editor, InsertRound(e) PROVE DeskInv'
<1> DEFINE s == edits[e].scope
<1>1. s \in Scope /\ edits[e].pc = "round"
  BY ActiveScope DEF InsertRound
<1>2. PICK n \in 0 .. MaxRound :
         \/ UNCHANGED <<orders, consumption>>
         \/ /\ orders' = [orders EXCEPT ![s].quantity = @ + n, ![s].kitchen = "busy"]
            /\ consumption' = [consumption EXCEPT ![s] = RoundConsumed(@, n)]
  BY Zenon DEF InsertRound
<1>3. n \in Nat
  BY RoundAssumption
<1>4. orders' \in [Scope -> Orders] /\ consumption' \in [StockRef -> Nat]
  <2>1. orders \in [Scope -> Orders] /\ consumption \in [StockRef -> Nat] /\ s \in StockRef
    BY <1>1 DEF DeskInv, DeskTypeOK, TypeOK, StockRef
  <2>2. consumption[s] \in Nat /\ RoundConsumed(consumption[s], n) \in Nat
    BY <1>3, <2>1 DEF RoundConsumed
  <2>3. consumption' \in [StockRef -> Nat]
    <3>1. PICK k \in Nat : k = RoundConsumed(consumption[s], n)
      BY <2>2
    <3>2. consumption' = consumption \/ consumption' = [consumption EXCEPT ![s] = k]
      BY <1>2, <3>1
    <3> QED
      BY <2>1, <3>1, <3>2
  <2>4. PICK o : o = [orders[s] EXCEPT !.quantity = @ + n, !.kitchen = "busy"]
    OBVIOUS
  <2>5. o \in Orders
    <3>1. PICK r \in Orders : r = orders[s]
      BY <1>1, <2>1
    <3>2. PICK m \in Nat : m = r.quantity + n
      BY <1>3, <3>1 DEF Orders
    <3>3. o = [r EXCEPT !.quantity = m, !.kitchen = "busy"]
      BY <2>4, <3>1, <3>2
    <3> QED
      BY <3>1, <3>2, <3>3 DEF Orders
  <2>6. orders' \in [Scope -> Orders]
    <3>1. orders' = orders \/ orders' = [orders EXCEPT ![s] = o]
      BY <1>2, <2>4
    <3> QED
      BY <2>1, <2>5, <3>1
  <2> QED
    BY <2>3, <2>6
<1>5. TypeOK'
  BY <1>4 DEF InsertRound, DeskInv, DeskTypeOK, TypeOK
<1>6. StockTakenOnce'
  <2> SUFFICES ASSUME NEW x \in Scope, IsTab(x)
               PROVE  consumption'[x] <= orders'[x].quantity
    BY DEF StockTakenOnce
  <2>1. /\ consumption[x] <= orders[x].quantity /\ x \in StockRef
        /\ consumption[x] \in Nat /\ orders[x].quantity \in Nat /\ orders[x] \in Orders
    BY DEF DeskInv, StockTakenOnce, StockRef, DeskTypeOK, TypeOK, Orders
  <2>2. CASE UNCHANGED <<orders, consumption>>
    BY <2>1, <2>2
  <2>3. CASE /\ orders' = [orders EXCEPT ![s].quantity = @ + n, ![s].kitchen = "busy"]
             /\ consumption' = [consumption EXCEPT ![s] = RoundConsumed(@, n)]
    <3>1. orders'[x].quantity = IF x = s THEN orders[x].quantity + n ELSE orders[x].quantity
      BY <2>1, <2>3 DEF DeskInv, DeskTypeOK, TypeOK, Orders
    <3>2. consumption'[x] = IF x = s THEN RoundConsumed(consumption[x], n) ELSE consumption[x]
      BY <2>1, <2>3 DEF DeskInv, DeskTypeOK, TypeOK
    <3> QED
      BY <1>3, <2>1, <3>1, <3>2 DEF RoundConsumed
  <2> QED
    BY <1>2, <2>2, <2>3
<1> QED
  BY <1>1, <1>5, <1>6, ThenMoves DEF InsertRound

LEMMA CloseTabDesk ==
    ASSUME DeskInv, NEW e \in Editor, CloseTab(e) PROVE DeskInv'
<1> DEFINE s == edits[e].scope
<1>1. s \in Scope /\ edits[e].pc = "close" /\ HasSettled(s)
  BY ActiveScope DEF CloseTab, DeskInv, EditSound
<1>2. /\ scopeStatus' \in [Scope -> Status]
      /\ \A x \in Scope : scopeStatus'[x] = "paid" => scopeStatus[x] = "paid" \/ x = s
  BY <1>1 DEF CloseTab, DeskInv, DeskTypeOK, TypeOK, Status
<1>3. tableStatus' \in [Table -> {"available", "occupied"}]
  BY DEF CloseTab, DeskInv, DeskTypeOK, TypeOK
<1>4. TypeOK' /\ StockTakenOnce'
  BY <1>2, <1>3 DEF CloseTab, DeskInv, DeskTypeOK, TypeOK, StockTakenOnce
<1> QED
  BY <1>1, <1>2, <1>4, ThenMoves DEF CloseTab

LEMMA EditAbortsDesk ==
    ASSUME DeskInv, NEW e \in Editor, EditAborts(e) PROVE DeskInv'
<1>1. edits[e].scope \in Scope /\ edits[e].pc # "idle"
  BY ActiveScope DEF EditAborts
<1>2. TypeOK' /\ StockTakenOnce' /\ UNCHANGED <<bills, requests, scopeStatus>>
  BY DEF EditAborts, vars, DeskInv, DeskTypeOK, TypeOK, StockTakenOnce
<1> QED
  BY <1>1, <1>2, ThenMoves DEF EditAborts

-----------------------------------------------------------------------------
LEMMA DeskInitInv == DeskInit => DeskInv
<1> SUFFICES ASSUME DeskInit PROVE DeskInv
  OBVIOUS
<1> USE NullAssumption, RowAssumption
<1>1. IdleRequest \in RequestState /\ IdleEdit \in EditState
  BY DEF IdleRequest, RequestState, PC, Outcome, Key, IdleEdit, EditState, EditOp
<1>2. consumption \in [StockRef -> Nat] /\ orders \in [Scope -> Orders]
  BY DEF DeskInit, Orders
<1>3. DeskTypeOK
  BY <1>1, <1>2 DEF DeskInit, DeskTypeOK, TypeOK, Status
<1>4. \A r \in Request : RequestSound(requests[r])
  BY DEF DeskInit, RequestSound, IdleRequest
<1>5. \A e \in Editor : EditSound(edits[e])
  BY DEF DeskInit, EditSound, IdleEdit
<1>6. (\A b \in BillId : BillSound(b)) /\ ClosedOnlyWhenSettled
  BY DEF DeskInit, BillSound, Exists, ClosedOnlyWhenSettled
<1>7. StockTakenOnce
  BY DEF DeskInit, StockTakenOnce, StockRef
<1> QED
  BY <1>3, <1>4, <1>5, <1>6, <1>7 DEF DeskInv

LEMMA RequestDesk ==
    ASSUME DeskInv, NEW r \in Request, Step(r), UNCHANGED edits PROVE DeskInv'
  BY PayDesk, ConfirmDesk, ConfirmLoadsDesk, WebhookDesk, ResolveDesk, CheckDesk,
     FastPathDesk, SettleDesk, LosesDesk, RollsBackDesk, UploadDesk, SkipDesk,
     RecordDesk, AbortDesk DEF Step

LEMMA EditDesk ==
    ASSUME DeskInv, NEW e \in Editor, Edit(e) PROVE DeskInv'
  BY BeginGenerateDesk, BeginDiscountDesk, BeginInitializeDesk, BeginCashIntentDesk,
     BeginRemoveDesk, BeginRoundDesk, BeginCloseDesk, InsertBillDesk, SaveBillDesk,
     MarkBilledDesk, HoldOrdersDesk, ReopenTabDesk, InsertRoundDesk, CloseTabDesk,
     EditAbortsDesk DEF Edit

LEMMA DeskStep == ASSUME DeskInv, [DeskNext]_deskVars PROVE DeskInv'
<1>1. CASE UNCHANGED deskVars
  <2>1. DeskTypeOK' /\ BillsStay /\ SettlesStay /\ StockTakenOnce'
    BY <1>1 DEF deskVars, vars, DeskInv, DeskTypeOK, TypeOK, BillsStay, SettlesStay,
                Settles, Exists, StockTakenOnce
  <2> QED
    BY <1>1, <2>1, Preserved DEF deskVars, vars
<1>2. CASE Next /\ UNCHANGED edits
  BY <1>2, RequestDesk, ServeDesk DEF Next
<1>3. CASE \E e \in Editor : Edit(e)
  BY <1>3, EditDesk
<1> QED
  BY <1>1, <1>2, <1>3 DEF DeskNext

(* What holds of every state of the billing desk: copies belong to the tab   *)
(* they are worked on, no endpoint saves a paid copy, and whatever says that *)
(* something was paid can name the request that paid it.                     *)
THEOREM DeskInvariant == DeskSpec => []DeskInv
  BY DeskInitInv, DeskStep, PTL DEF DeskSpec

(* Every variable keeps its type.                                            *)
THEOREM DeskTypeCorrect == DeskSpec => []DeskTypeOK
<1>1. DeskInv => DeskTypeOK
  BY DEF DeskInv
<1> QED
  BY <1>1, DeskInvariant, PTL

(* A bill that is marked paid was paid at least its total, whoever edited,   *)
(* discounted or reissued it between the read and the payment.               *)
THEOREM PaidIsCoveredAlways == DeskSpec => []PaidIsCovered
<1>1. DeskInv => PaidIsCovered
  BY DEF DeskInv, PaidIsCovered, BillSound, Covered
<1> QED
  BY <1>1, DeskInvariant, PTL

(* No tab is closed, by payment or by hand, that nobody settled.             *)
THEOREM ClosedOnlyWhenSettledAlways == DeskSpec => []ClosedOnlyWhenSettled
<1>1. DeskInv => ClosedOnlyWhenSettled
  BY DEF DeskInv
<1> QED
  BY <1>1, DeskInvariant, PTL

(* Rounds and settlements together never take a tab's units twice.           *)
THEOREM StockTakenOnceAlways == DeskSpec => []StockTakenOnce
<1>1. DeskInv => StockTakenOnce
  BY DEF DeskInv
<1> QED
  BY <1>1, DeskInvariant, PTL

-----------------------------------------------------------------------------
(* A step of a request never takes a payment off a bill.                     *)
LEMMA RequestsKeepPaid ==
    ASSUME DeskInv, NEW r \in Request, Step(r), NEW b \in BillId,
           Exists(b), Paid(bills[b])
    PROVE  Paid(bills'[b])
<1>1. CASE SettleCommits(r)
  <2>1. CASE b = requests[r].bill
    BY <1>1, <2>1, SettleWrites
  <2>2. CASE b # requests[r].bill
    BY <1>1, <2>2, SettleWrites
  <2> QED
    BY <2>1, <2>2
<1>2. CASE UploadReceipt(r)
  <2>1. RequestSound(requests[r]) /\ requests[r].pc = "receipt"
    BY <1>2 DEF UploadReceipt, DeskInv
  <2>2. Paid(requests[r].row)
    BY <2>1 DEF RequestSound
  <2> QED
    BY <1>2, <2>2 DEF UploadReceipt, DeskInv, DeskTypeOK, TypeOK
<1>3. CASE ~SettleCommits(r) /\ ~UploadReceipt(r)
  <2>1. bills' = bills
    BY <1>3 DEF Step, Database, BeginPay, BeginConfirm, ConfirmLoadsBill, BeginWebhook,
                ResolveWebhookBill, CheckPayable, IdempotencyFastPath, SettleLosesClaim,
                SettleRollsBack, SkipReceipt, RecordWebhookEvent, Abort
  <2> QED
    BY <2>1
<1> QED
  BY <1>1, <1>2, <1>3

(* Of the endpoints, only the save of a whole row can.                       *)
LEMMA EditsKeepPaid ==
    ASSUME DeskInv, NEW e \in Editor, Edit(e), NEW b \in BillId,
           Exists(b), Paid(bills[b]), ~Paid(bills'[b])
    PROVE  edits[e].pc = "save" /\ edits[e].bill = b /\ edits'[e].pc # "save"
<1>1. CASE SaveBill(e)
  <2>1. edits[e].bill = b
    BY <1>1 DEF SaveBill, DeskInv, DeskTypeOK, TypeOK
  <2>2. edits[e] \in EditState /\ AfterWrite(edits[e]) # "save"
    BY DEF AfterWrite, DeskInv, DeskTypeOK
  <2>3. Then(edits[e], AfterWrite(edits[e])).pc # "save"
    BY <2>2 DEF Then, EditState
  <2>4. edits'[e] = Then(edits[e], AfterWrite(edits[e]))
    BY <1>1 DEF SaveBill, BecomeEdit, DeskInv, DeskTypeOK
  <2> QED
    BY <1>1, <2>1, <2>3, <2>4 DEF SaveBill
<1>2. CASE InsertBill(e)
  BY <1>2 DEF InsertBill, DeskInv, DeskTypeOK, TypeOK
<1>3. CASE ~SaveBill(e) /\ ~InsertBill(e)
  <2>1. bills' = bills
    BY <1>3 DEF Edit, BeginGenerate, BeginDiscount, BeginInitialize, BeginCashIntent,
                BeginRemove, BeginRound, BeginClose, Starts, MarkBilled, HoldOrders,
                ReopenTab, InsertRound, CloseTab, EditAborts, vars
  <2> QED
    BY <2>1
<1> QED
  BY <1>1, <1>2, <1>3

(* A payment leaves a bill only when an endpoint saves the copy it read      *)
(* before the payment.                                                       *)
THEOREM UnpaidOnlyByStaleSaveAlways == DeskSpec => UnpaidOnlyByStaleSave
<1>1. ASSUME DeskInv, [DeskNext]_deskVars
      PROVE  [\A b \in BillId : Exists(b) /\ Paid(bills[b]) /\ ~Paid(bills'[b]) =>
                \E e \in Editor :
                    /\ edits[e].pc = "save"
                    /\ edits[e].bill = b
                    /\ edits'[e].pc # "save"]_deskVars
  <2>1. ASSUME NEW b \in BillId, Exists(b), Paid(bills[b]), ~Paid(bills'[b]), DeskNext
        PROVE  \E e \in Editor :
                   /\ edits[e].pc = "save"
                   /\ edits[e].bill = b
                   /\ edits'[e].pc # "save"
    <3>1. ~Next
      BY <1>1, <2>1, RequestsKeepPaid DEF Next, ServeOrders
    <3>2. PICK e \in Editor : Edit(e)
      BY <2>1, <3>1 DEF DeskNext
    <3> QED
      BY <1>1, <2>1, <3>2, EditsKeepPaid
  <2> QED
    BY <1>1, <2>1
<1> QED
  BY <1>1, DeskInvariant, PTL DEF DeskSpec, UnpaidOnlyByStaleSave

---------------------------------------------------------------------------
(***************************************************************************)
(* Amounts.  A bill adds up whoever issued, remade, discounted or asked for *)
(* it; one made since the orders and the rates last changed has the charges *)
(* the guest's page shows; and what is paid has a paid bill, which the      *)
(* receipt finds unless it was voided before.                               *)
(***************************************************************************)

(* A slip with the charges of this subtotal, at these rates and this fee. *)
Charges(s, subtotal, r, f) ==
  /\ s.subtotal = subtotal /\ s.fee = f
  /\ s.service = Percent(subtotal, r.service) /\ s.tax = Percent(subtotal, r.tax)

(* A bill made since the orders or the rates last changed has the charges of today. *)
FreshIsToday == \A i \in fresh : Charges(slips[i], Subtotal, rates, fee)

(* Whatever is paid has a bill that is. *)
PaidHasBill == progress = "paid" => \E i \in Slips : slips[i].paid

GuestInv == GuestTypeOK /\ BillAddsUp /\ FreshIsToday /\ PaidHasBill

-----------------------------------------------------------------------------
(* Charges are natural numbers. *)
LEMMA PercentNat ==
  ASSUME NEW a \in Nat, NEW t \in Nat
  PROVE  Percent(a, t) \in Nat
<1>1. PICK m : m = a * t
  OBVIOUS
<1>2. m \in Nat
  BY <1>1
<1>3. 2 * a * t = 2 * m
  BY <1>1
<1>4. Percent(a, t) = (2 * m + 1000) \div 2000
  BY <1>3 DEF Percent
<1> QED
  BY <1>2, <1>4

LEMMA AtLeastZeroNat ==
  ASSUME NEW n \in Int
  PROVE  AtLeastZero(n) \in Nat /\ (n \in Nat => AtLeastZero(n) = n)
BY DEF AtLeastZero

LEMMA RatesNat ==
  ASSUME NEW r \in Rates
  PROVE  r.service \in Nat /\ r.tax \in Nat
BY GuestBillAssumption DEF Rates

(* The subtotal is the sum over the orders that count. *)
LEMMA SubtotalIsSum == Subtotal = Sums([o \in Billable |-> lines[o].subtotal], Billable)
<1> DEFINE S == Billable
           g == [o \in S |-> lines[o].subtotal]
           A(h) == [s \in SUBSET S |-> IF s = {} THEN 0
                                       ELSE LET x == CHOOSE y \in s : TRUE IN lines[x].subtotal + h[s \ {x}]]
           B(h) == [s \in SUBSET S |-> SumStep(g, h, s)]
<1>1. \A h : A(h) = B(h)
  BY DEF SumStep
<1> DEFINE a == CHOOSE h : h = A(h)
           b == CHOOSE h : h = B(h)
<1>2. a = b
  <2> HIDE DEF A, B
  <2>1. \A h : h = A(h) <=> h = B(h)
    BY <1>1, Zenon
  <2> QED
    BY <2>1, Zenon
<1>3. Subtotal = a[S]
  BY DEF Subtotal, MapThenSumSet, MapThenFoldSet
<1>4. Sums(g, S) = b[S]
  BY SumIsFcn DEF SumFcn
<1> QED
  BY <1>2, <1>3, <1>4

(* The subtotal is natural: a finite sum of prices. *)
LEMMA SubtotalNat ==
  ASSUME GuestTypeOK
  PROVE  Subtotal \in Nat
<1>1. PICK g : g = [o \in Billable |-> lines[o].subtotal]
  OBVIOUS
<1>2. \A o \in Billable : g[o] \in Nat
  <2>1. LinePrices \cup {0} \subseteq Nat
    BY GuestBillAssumption
  <2>2. \A o \in Billable : lines[o].subtotal \in LinePrices \cup {0}
    BY DEF GuestTypeOK, Billable
  <2> QED
    BY <1>1, <2>1, <2>2
<1>3. IsFiniteSet(Billable)
  BY GuestBillAssumption, FS_Subset DEF Billable
<1> QED
  BY <1>1, <1>2, <1>3, SumNat, SubtotalIsSum

(* While the orders stay, so does the subtotal. *)
LEMMA SubtotalStays == UNCHANGED lines => Subtotal' = Subtotal
<1>1. (Subtotal = Sums([o \in Billable |-> lines[o].subtotal], Billable))'
  BY SubtotalIsSum, PTL
<1> QED
  BY <1>1, SubtotalIsSum DEF Billable

(* Totals are natural, and the total of no discount is the sum of its parts. *)
LEMMA TotalsAre ==
  ASSUME GuestTypeOK, NEW r \in Rates, NEW d \in Nat
  PROVE  LET t == Totals(r, d)
         IN /\ t \in [subtotal: Nat, service: Nat, tax: Nat, fee: Nat, discount: Nat, total: Nat]
            /\ Charges(t, Subtotal, r, fee) /\ t.discount = d
            /\ t.total = AtLeastZero(t.subtotal + t.service + t.tax + t.fee - t.discount)
<1>1. PICK s \in Nat, v \in Nat, x \in Nat, f \in Nat :
        s = Subtotal /\ v = Percent(s, r.service) /\ x = Percent(s, r.tax) /\ f = fee
  <2>1. fee \in Nat /\ Subtotal \in Nat
    BY SubtotalNat, GuestBillAssumption DEF GuestTypeOK
  <2> QED
    BY <2>1, RatesNat, PercentNat
<1>2. PICK z \in Nat : z = AtLeastZero(s + v + x + f - d)
  BY AtLeastZeroNat
<1>3. Totals(r, d) = [subtotal |-> s, service |-> v, tax |-> x, fee |-> f, discount |-> d, total |-> z]
  BY <1>1, <1>2 DEF Totals
<1> QED
  BY <1>1, <1>2, <1>3 DEF Charges

-----------------------------------------------------------------------------
(* Sequences of bills. *)
LEMMA SlipChanges ==
  ASSUME NEW q \in Seq(Slip), NEW i \in 1 .. Len(q), NEW s \in Slip
  PROVE  /\ [q EXCEPT ![i] = s] \in Seq(Slip) /\ Len([q EXCEPT ![i] = s]) = Len(q)
         /\ [q EXCEPT ![i] = s][i] = s
         /\ \A j \in 1 .. Len(q) \ {i} : [q EXCEPT ![i] = s][j] = q[j]
BY ExceptSeq

LEMMA SlipAppended ==
  ASSUME NEW q \in Seq(Slip), NEW s \in Slip
  PROVE  /\ Append(q, s) \in Seq(Slip) /\ Len(Append(q, s)) = Len(q) + 1
         /\ Append(q, s)[Len(q) + 1] = s
         /\ \A j \in 1 .. Len(q) : Append(q, s)[j] = q[j]
BY AppendProperties

(* Steps that change the orders or the rates leave no bill of today. *)
LEMMA OrdersChange ==
  ASSUME GuestInv, UNCHANGED slips, fresh' = {},
         lines' \in [Lines -> [status: LineStatus, subtotal: LinePrices \cup {0}]],
         rates' \in Rates, progress' \in {"open", "billed", "paid"}, UNCHANGED <<kind, fee>>,
         progress' = "paid" => progress = "paid"
  PROVE  GuestInv'
<1>1. GuestTypeOK'
  BY DEF GuestInv, GuestTypeOK, Slips
<1>2. BillAddsUp'
  BY DEF GuestInv, BillAddsUp, Slips
<1>3. FreshIsToday'
  BY DEF FreshIsToday
<1>4. PaidHasBill'
  BY DEF GuestInv, PaidHasBill, Slips
<1> QED
  BY <1>1, <1>2, <1>3, <1>4 DEF GuestInv

(* A bill is changed: it adds up, and is of today if it counts as fresh then. *)
LEMMA OneBillChanges ==
  ASSUME GuestInv, NEW i \in Slips, NEW s \in Slip, AddsUp(s),
         slips' = [slips EXCEPT ![i] = s], UNCHANGED <<kind, lines, rates, fee>>,
         progress' \in {"open", "billed", "paid"}, fresh' \subseteq fresh \cup {i},
         progress' = "paid" => progress = "paid", slips[i].paid => s.paid,
         i \in fresh' => Charges(s, Subtotal, rates, fee)
  PROVE  GuestInv'
<1>1. slips \in Seq(Slip) /\ i \in 1 .. Len(slips)
  BY DEF GuestInv, GuestTypeOK, Slips
<1>2. PICK q : q = [slips EXCEPT ![i] = s]
  OBVIOUS
<1>3. /\ q \in Seq(Slip) /\ Len(q) = Len(slips) /\ q[i] = s
      /\ \A j \in 1 .. Len(slips) \ {i} : q[j] = slips[j]
  BY <1>1, <1>2, SlipChanges
<1>4. slips' = q /\ Slips' = Slips /\ Slips = 1 .. Len(slips)
  BY <1>2, <1>3 DEF Slips
<1>5. GuestTypeOK'
  BY <1>3, <1>4 DEF GuestInv, GuestTypeOK
<1>6. BillAddsUp'
  BY <1>3, <1>4 DEF GuestInv, BillAddsUp
<1>7. ASSUME NEW j \in fresh' PROVE Charges(slips'[j], Subtotal, rates, fee)
  <2>1. CASE j = i
    BY <1>3, <1>4, <1>7, <2>1
  <2>2. CASE j # i
    BY <1>3, <1>4, <1>7, <2>2 DEF GuestInv, GuestTypeOK, FreshIsToday
  <2> QED
    BY <2>1, <2>2
<1>8. FreshIsToday'
  BY <1>7, SubtotalStays DEF FreshIsToday
<1>9. PaidHasBill'
  <2> SUFFICES ASSUME progress' = "paid" PROVE \E j \in Slips : q[j].paid
    BY <1>4 DEF PaidHasBill
  <2>1. PICK j \in Slips : slips[j].paid
    BY DEF GuestInv, PaidHasBill
  <2>2. q[j].paid
    BY <1>3, <1>4, <2>1
  <2> QED
    BY <2>2
<1> QED
  BY <1>5, <1>6, <1>8, <1>9 DEF GuestInv

(* A bill is made. *)
LEMMA IssuedSound ==
  ASSUME GuestInv, NEW r \in Rates, NEW d \in Nat, NEW status \in SlipStatus, NEW ref \in BOOLEAN,
         Issue(Issued(Totals(r, d), status, ref), r), UNCHANGED <<kind, lines, rates, fee>>,
         progress' \in {"open", "billed", "paid"}, progress' = "paid" => progress = "paid"
  PROVE  GuestInv'
<1>1. GuestTypeOK /\ slips \in Seq(Slip)
  BY DEF GuestInv, GuestTypeOK
<1>2. PICK t : t = Totals(r, d)
  OBVIOUS
<1>3. /\ t \in [subtotal: Nat, service: Nat, tax: Nat, fee: Nat, discount: Nat, total: Nat]
      /\ Charges(t, Subtotal, r, fee) /\ t.discount = d
      /\ t.total = AtLeastZero(t.subtotal + t.service + t.tax + t.fee - t.discount)
  BY <1>1, <1>2, TotalsAre
<1>4. PICK s : s = Issued(t, status, ref)
  OBVIOUS
<1>5. /\ s \in Slip /\ s.subtotal = t.subtotal /\ s.service = t.service /\ s.tax = t.tax
      /\ s.fee = t.fee /\ s.discount = t.discount /\ s.total = t.total
  BY <1>3, <1>4 DEF Issued, Slip
<1>6. AddsUp(s) /\ Charges(s, Subtotal, r, fee)
  BY <1>3, <1>5 DEF AddsUp, Charges
<1>7. PICK n \in Nat : n = Len(slips)
  BY <1>1
<1>8. PICK q : q = Append(slips, s)
  OBVIOUS
<1>9. slips' = q /\ n < MaxSlips /\ fresh' = IF r = rates THEN fresh \cup {n + 1} ELSE fresh
  BY <1>2, <1>4, <1>7, <1>8 DEF Issue
<1>10. /\ q \in Seq(Slip) /\ Len(q) = n + 1 /\ q[n + 1] = s
       /\ \A j \in 1 .. n : q[j] = slips[j]
  BY <1>1, <1>5, <1>7, <1>8, SlipAppended
<1>11. Slips = 1 .. n /\ Slips' = 1 .. (n + 1) /\ n + 1 <= MaxSlips
  BY <1>7, <1>9, <1>10, GuestBillAssumption DEF Slips
<1>12. 1 .. (n + 1) = 1 .. n \cup {n + 1}
  OBVIOUS
<1>13. fresh \subseteq 1 .. n
  BY <1>1, <1>11 DEF GuestTypeOK
<1>14. GuestTypeOK'
  <2>1. fresh' \subseteq Slips'
    BY <1>9, <1>11, <1>12, <1>13
  <2> QED
    BY <1>1, <1>9, <1>10, <1>11, <2>1 DEF GuestTypeOK
<1>15. BillAddsUp'
  BY <1>6, <1>9, <1>10, <1>11, <1>12 DEF GuestInv, BillAddsUp
<1>16. ASSUME NEW j \in fresh' PROVE Charges(slips'[j], Subtotal, rates, fee)
  <2>1. CASE j = n + 1
    <3>1. r = rates
      BY <1>9, <1>13, <1>16, <2>1
    <3> QED
      BY <1>6, <1>9, <1>10, <2>1, <3>1
  <2>2. CASE j # n + 1
    <3>1. j \in fresh /\ j \in 1 .. n
      BY <1>9, <1>13, <1>16, <2>2
    <3> QED
      BY <1>9, <1>10, <3>1 DEF GuestInv, FreshIsToday
  <2> QED
    BY <2>1, <2>2
<1>17. FreshIsToday'
  BY <1>16, SubtotalStays DEF FreshIsToday
<1>18. PaidHasBill'
  <2> SUFFICES ASSUME progress' = "paid" PROVE \E j \in 1 .. (n + 1) : q[j].paid
    BY <1>9, <1>11 DEF PaidHasBill
  <2>1. PICK j \in 1 .. n : slips[j].paid
    BY <1>11 DEF GuestInv, PaidHasBill
  <2>2. q[j].paid /\ j \in 1 .. (n + 1)
    BY <1>10, <1>12, <2>1
  <2> QED
    BY <2>2
<1> QED
  BY <1>14, <1>15, <1>17, <1>18 DEF GuestInv

-----------------------------------------------------------------------------
(* A recomputed bill adds up, if its charges were those of its subtotal. *)
LEMMA RecomputedSound ==
  ASSUME NEW s \in Slip, NEW b \in Slip, AddsUp(b),
         s.subtotal = b.subtotal, s.service = b.service, s.tax = b.tax
  PROVE  /\ Recomputed(s) \in Nat
         /\ [s EXCEPT !.total = Recomputed(s)] \in Slip /\ AddsUp([s EXCEPT !.total = Recomputed(s)])
<1>1. PICK n \in Int : n = s.subtotal + s.service + s.tax + s.fee - s.discount
  BY DEF Slip
<1>2. PICK z \in Nat : z = AtLeastZero(n)
  BY AtLeastZeroNat
<1>3. PICK q : q = [s EXCEPT !.total = z]
  OBVIOUS
<1>4. /\ q \in Slip /\ q.total = z /\ q.subtotal = s.subtotal /\ q.service = s.service /\ q.tax = s.tax
      /\ q.fee = s.fee /\ q.discount = s.discount
  BY <1>3 DEF Slip
<1>5. AddsUp(q)
  BY <1>1, <1>2, <1>4 DEF AddsUp
<1>6. z = Recomputed(s)
  BY <1>1, <1>2 DEF Recomputed
<1> QED
  BY <1>3, <1>4, <1>5, <1>6

LEMMA SlipsAre ==
  ASSUME GuestInv, NEW i \in Slips
  PROVE  slips[i] \in Slip /\ AddsUp(slips[i])
BY DEF GuestInv, GuestTypeOK, BillAddsUp, Slips

(* The desk makes a bill, or remakes the live one with the charges of today. *)
LEMMA GenerateBillKeeps ==
  ASSUME GuestInv, NEW r \in Rates, NEW d \in Nat, GenerateBill(r, d)
  PROVE  GuestInv'
<1>1. UNCHANGED <<kind, lines, rates, fee>> /\ progress \in {"open", "billed", "paid"}
  BY DEF GenerateBill, GuestInv, GuestTypeOK
<1>2. CASE Issue(Issued(Totals(r, d), "pending", FALSE), r) /\ progress' = "billed"
  <2>1. "pending" \in SlipStatus /\ FALSE \in BOOLEAN /\ progress' \in {"open", "billed", "paid"}
    BY <1>2 DEF SlipStatus
  <2> QED
    BY <1>1, <1>2, <2>1, IssuedSound
<1>3. ASSUME NEW i \in NewestOf(Live), slips' = [slips EXCEPT ![i] = Rebilled(slips[i], Totals(r, d))],
             fresh' = Remade(i, r), UNCHANGED progress
      PROVE  GuestInv'
  <2>1. i \in Slips
    BY DEF NewestOf, Live
  <2>2. PICK b : b = slips[i]
    OBVIOUS
  <2>3. b \in Slip /\ AddsUp(b)
    BY <2>1, <2>2, SlipsAre
  <2>4. PICK t : t = Totals(r, d)
    OBVIOUS
  <2>5. /\ t \in [subtotal: Nat, service: Nat, tax: Nat, fee: Nat, discount: Nat, total: Nat]
        /\ Charges(t, Subtotal, r, fee)
    BY <2>4, TotalsAre DEF GuestInv
  <2>6. PICK p : p = [b EXCEPT !.subtotal = t.subtotal, !.service = t.service, !.tax = t.tax, !.fee = t.fee]
    OBVIOUS
  <2>7. p \in Slip /\ Charges(p, Subtotal, r, fee) /\ p.paid = b.paid
    BY <2>3, <2>5, <2>6 DEF Slip, Charges
  <2>8. PICK z \in Nat : z = Recomputed(p)
    <3>1. p.subtotal + p.service + p.tax + p.fee - p.discount \in Int
      BY <2>7 DEF Slip
    <3> QED
      BY <3>1, AtLeastZeroNat DEF Recomputed
  <2>9. PICK s : s = [p EXCEPT !.total = z]
    OBVIOUS
  <2>10. /\ s \in Slip /\ s.total = z /\ s.subtotal = p.subtotal /\ s.service = p.service
         /\ s.tax = p.tax /\ s.fee = p.fee /\ s.discount = p.discount /\ s.paid = p.paid
    BY <2>7, <2>9 DEF Slip
  <2>11. AddsUp(s) /\ Charges(s, Subtotal, r, fee)
    BY <2>7, <2>8, <2>10 DEF AddsUp, Charges, Recomputed
  <2>12. slips' = [slips EXCEPT ![i] = s]
    BY <1>3, <2>2, <2>4, <2>6, <2>8, <2>9 DEF Rebilled
  <2>13. fresh' \subseteq fresh \cup {i} /\ (i \in fresh' => r = rates)
    BY <1>3 DEF Remade
  <2> QED
    BY <1>1, <1>3, <2>1, <2>2, <2>7, <2>10, <2>11, <2>12, <2>13, OneBillChanges
<1> QED
  BY <1>2, <1>3 DEF GenerateBill

(* The bill keeps its subtotal and its charges. *)
LEMMA BillTouched ==
  ASSUME GuestInv, NEW i \in Slips, NEW s \in Slip, AddsUp(s),
         s.subtotal = slips[i].subtotal, s.service = slips[i].service, s.tax = slips[i].tax,
         s.fee = slips[i].fee \/ s.fee = fee, s.paid = slips[i].paid,
         slips' = [slips EXCEPT ![i] = s], UNCHANGED <<kind, lines, rates, fee, progress, fresh>>
  PROVE  GuestInv'
<1>1. i \in fresh => Charges(s, Subtotal, rates, fee)
  BY DEF GuestInv, FreshIsToday, Charges
<1>2. progress' \in {"open", "billed", "paid"}
  BY DEF GuestInv, GuestTypeOK
<1> QED
  BY <1>1, <1>2, OneBillChanges

(* A discount leaves the charges alone. *)
LEMMA ApplyDiscountKeeps ==
  ASSUME GuestInv, ApplyDiscount
  PROVE  GuestInv'
<1>1. PICK i \in Slips :
        \E d \in Discounts \cup { Percent(slips[i].subtotal, p) : p \in DiscountRates } :
          LET s == [slips[i] EXCEPT !.discount = d]
          IN slips' = [slips EXCEPT ![i] = [s EXCEPT !.total = Recomputed(s)]]
  BY DEF ApplyDiscount
<1>2. PICK b : b = slips[i]
  OBVIOUS
<1>3. b \in Slip /\ AddsUp(b)
  BY <1>2, SlipsAre
<1>4. PICK d \in Discounts \cup { Percent(b.subtotal, p) : p \in DiscountRates } :
        slips' = [slips EXCEPT ![i] = [[b EXCEPT !.discount = d] EXCEPT !.total = Recomputed([b EXCEPT !.discount = d])]]
  BY <1>1, <1>2
<1>5. d \in Nat
  <2>1. b.subtotal \in Nat
    BY <1>3 DEF Slip
  <2>2. \A p \in DiscountRates : Percent(b.subtotal, p) \in Nat
    BY <2>1, PercentNat, GuestBillAssumption
  <2> QED
    BY <2>2, GuestBillAssumption
<1>6. PICK a : a = [b EXCEPT !.discount = d]
  OBVIOUS
<1>7. a \in Slip /\ a.subtotal = b.subtotal /\ a.service = b.service /\ a.tax = b.tax /\ a.fee = b.fee /\ a.paid = b.paid
  BY <1>3, <1>5, <1>6 DEF Slip
<1>8. PICK s : s = [a EXCEPT !.total = Recomputed(a)]
  OBVIOUS
<1>9. s \in Slip /\ AddsUp(s) /\ Recomputed(a) \in Nat
  BY <1>3, <1>7, <1>8, RecomputedSound
<1>10. s.subtotal = b.subtotal /\ s.service = b.service /\ s.tax = b.tax /\ s.fee = b.fee /\ s.paid = b.paid
  BY <1>7, <1>8 DEF Slip
<1>11. slips' = [slips EXCEPT ![i] = s] /\ UNCHANGED <<kind, lines, rates, fee, progress, fresh>>
  BY <1>4, <1>6, <1>8 DEF ApplyDiscount
<1> QED
  BY <1>2, <1>9, <1>10, <1>11, BillTouched

(* A request to pay makes a bill, or gives one a reference. *)
LEMMA InitializePaymentKeeps ==
  ASSUME GuestInv, InitializePayment
  PROVE  GuestInv'
<1>1. UNCHANGED <<kind, lines, rates, fee, progress>>
  BY DEF InitializePayment
<1>2. CASE Issue(Issued(CheckoutTotals, "pending", TRUE), rates)
  <2>1. /\ "pending" \in SlipStatus /\ TRUE \in BOOLEAN /\ 0 \in Nat /\ rates \in Rates
        /\ progress' \in {"open", "billed", "paid"}
    BY <1>1 DEF SlipStatus, GuestInv, GuestTypeOK
  <2> QED
    BY <1>1, <1>2, <2>1, IssuedSound DEF CheckoutTotals
<1>3. ASSUME NEW i \in Slips, slips' = [slips EXCEPT ![i].reference = TRUE], UNCHANGED fresh
      PROVE  GuestInv'
  <2>1. PICK b : b = slips[i]
    OBVIOUS
  <2>2. b \in Slip /\ AddsUp(b)
    BY <2>1, SlipsAre
  <2>3. PICK s : s = [b EXCEPT !.reference = TRUE]
    OBVIOUS
  <2>4. /\ s \in Slip /\ s.subtotal = b.subtotal /\ s.service = b.service /\ s.tax = b.tax
        /\ s.fee = b.fee /\ s.discount = b.discount /\ s.total = b.total /\ s.paid = b.paid
    BY <2>2, <2>3 DEF Slip
  <2>5. AddsUp(s)
    BY <2>2, <2>4 DEF AddsUp
  <2>6. slips' = [slips EXCEPT ![i] = s]
    BY <1>3, <2>1, <2>3
  <2> QED
    BY <1>1, <1>3, <2>1, <2>4, <2>5, <2>6, BillTouched
<1> QED
  BY <1>2, <1>3 DEF InitializePayment

(* A request to pay cash makes a bill, or sets the fee of today on the newest. *)
LEMMA SubmitCashIntentKeeps ==
  ASSUME GuestInv, SubmitCashIntent
  PROVE  GuestInv'
<1>1. UNCHANGED <<kind, lines, rates, fee, progress>> /\ rates \in Rates
  BY DEF SubmitCashIntent, GuestInv, GuestTypeOK
<1>2. CASE Issue(Issued(CheckoutTotals, "pending_cash", TRUE), rates)
  <2>1. /\ "pending_cash" \in SlipStatus /\ TRUE \in BOOLEAN /\ 0 \in Nat
        /\ progress' \in {"open", "billed", "paid"}
    BY <1>1 DEF SlipStatus, GuestInv, GuestTypeOK
  <2> QED
    BY <1>1, <1>2, <2>1, IssuedSound DEF CheckoutTotals
<1>3. ASSUME NEW i \in Slips, UNCHANGED fresh,
             LET s == [slips[i] EXCEPT !.status = "pending_cash", !.fee = CheckoutTotals.fee]
             IN slips' = [slips EXCEPT ![i] = [s EXCEPT !.total = Recomputed(s)]]
      PROVE  GuestInv'
  <2>1. PICK b : b = slips[i]
    OBVIOUS
  <2>2. b \in Slip /\ AddsUp(b)
    BY <2>1, SlipsAre
  <2>3. PICK f \in Nat : f = fee /\ f = CheckoutTotals.fee
    BY GuestBillAssumption DEF CheckoutTotals, Totals, GuestInv, GuestTypeOK
  <2>4. PICK a : a = [b EXCEPT !.status = "pending_cash", !.fee = f]
    OBVIOUS
  <2>5. a \in Slip /\ a.subtotal = b.subtotal /\ a.service = b.service /\ a.tax = b.tax /\ a.fee = f /\ a.paid = b.paid
    BY <2>2, <2>4 DEF Slip, SlipStatus
  <2>6. PICK s : s = [a EXCEPT !.total = Recomputed(a)]
    OBVIOUS
  <2>7. s \in Slip /\ AddsUp(s)
    BY <2>2, <2>5, <2>6, RecomputedSound
  <2>8. s.subtotal = b.subtotal /\ s.service = b.service /\ s.tax = b.tax /\ s.fee = f /\ s.paid = b.paid
    BY <2>5, <2>6 DEF Slip
  <2>9. slips' = [slips EXCEPT ![i] = s]
    BY <1>3, <2>1, <2>3, <2>4, <2>6
  <2> QED
    BY <1>1, <1>3, <2>1, <2>3, <2>7, <2>8, <2>9, BillTouched
<1> QED
  BY <1>2, <1>3 DEF SubmitCashIntent, NewestOf

(* A cash request taken back voids the bill and changes no amount. *)
LEMMA RemoveCashRequestKeeps ==
  ASSUME GuestInv, RemoveCashRequest
  PROVE  GuestInv'
<1>1. PICK i \in Slips : slips' = [slips EXCEPT ![i].voided = TRUE, ![i].status = "voided"]
  BY DEF RemoveCashRequest, NewestOf, Live
<1>2. UNCHANGED <<kind, lines, rates, fee, progress, fresh>>
  BY DEF RemoveCashRequest
<1>3. PICK b : b = slips[i]
  OBVIOUS
<1>4. b \in Slip /\ AddsUp(b)
  BY <1>3, SlipsAre
<1>5. PICK s : s = [b EXCEPT !.voided = TRUE, !.status = "voided"]
  OBVIOUS
<1>6. /\ s \in Slip /\ s.subtotal = b.subtotal /\ s.service = b.service /\ s.tax = b.tax
      /\ s.fee = b.fee /\ s.discount = b.discount /\ s.total = b.total /\ s.paid = b.paid
  BY <1>4, <1>5 DEF Slip, SlipStatus
<1>7. AddsUp(s)
  BY <1>4, <1>6 DEF AddsUp
<1>8. slips' = [slips EXCEPT ![i] = s]
  BY <1>1, <1>3, <1>5 DEF GuestInv, GuestTypeOK, Slips
<1> QED
  BY <1>2, <1>3, <1>6, <1>7, <1>8, BillTouched

(* A payment pays one bill and voids those that are not paid; their amounts stay. *)
LEMMA PayKeepsBills ==
  ASSUME GuestInv, Pay
  PROVE  GuestInv'
<1>1. PICK i \in Slips :
        slips' = [j \in Slips |-> IF j = i THEN [slips[j] EXCEPT !.paid = TRUE, !.status = "paid"]
                                  ELSE [slips[j] EXCEPT !.voided = slips[j].voided \/ ~slips[j].paid]]
  BY DEF Pay, NewestOf, Live
<1>2. UNCHANGED <<kind, lines, rates, fee, fresh>> /\ progress' = "paid"
  BY DEF Pay
<1>3. slips \in Seq(Slip)
  BY DEF GuestInv, GuestTypeOK
<1>4. PICK n \in Nat : n = Len(slips)
  BY <1>3
<1>5. Slips = 1 .. n
  BY <1>4 DEF Slips
<1>6. PICK q : q = slips'
  OBVIOUS
<1>7. ASSUME NEW j \in 1 .. n
      PROVE  /\ q[j] \in Slip /\ AddsUp(q[j])
             /\ Charges(slips[j], Subtotal, rates, fee) => Charges(q[j], Subtotal, rates, fee)
  <2>1. PICK b : b = slips[j]
    OBVIOUS
  <2>2. b \in Slip /\ AddsUp(b)
    BY <1>5, <2>1, SlipsAre
  <2>3. PICK v \in BOOLEAN : v <=> b.voided \/ ~ b.paid
    OBVIOUS
  <2>4. v = (b.voided \/ ~ b.paid)
    BY <2>2, <2>3 DEF Slip
  <2>5. q[j] = [b EXCEPT !.paid = TRUE, !.status = "paid"] \/ q[j] = [b EXCEPT !.voided = v]
    <3>1. q[j] = IF j = i THEN [b EXCEPT !.paid = TRUE, !.status = "paid"]
                 ELSE [b EXCEPT !.voided = b.voided \/ ~ b.paid]
      BY <1>1, <1>5, <1>6, <2>1, Zenon
    <3> QED
      BY <2>4, <3>1, Zenon
  <2>6. /\ q[j] \in Slip /\ q[j].subtotal = b.subtotal /\ q[j].service = b.service /\ q[j].tax = b.tax
        /\ q[j].fee = b.fee /\ q[j].discount = b.discount /\ q[j].total = b.total
    BY <2>2, <2>5 DEF Slip, SlipStatus
  <2> QED
    BY <2>1, <2>2, <2>6 DEF AddsUp, Charges
<1>8. q \in [1 .. n -> Slip]
  BY <1>1, <1>5, <1>6, <1>7
<1>9. q \in Seq(Slip) /\ Len(q) = n
  <2>1. q \in Seq(Slip)
    BY <1>8, SeqDef
  <2>2. PICK m \in Nat : m = Len(q)
    BY <2>1, LenProperties
  <2>3. 1 .. m = 1 .. n
    BY <1>8, <2>1, <2>2, LenProperties
  <2>4. m = n
    BY <2>3
  <2> QED
    BY <2>1, <2>2, <2>4
<1>10. Slips' = Slips /\ Len(slips') <= MaxSlips
  BY <1>4, <1>5, <1>6, <1>9 DEF Slips, GuestInv, GuestTypeOK
<1>11. GuestTypeOK'
  BY <1>2, <1>6, <1>9, <1>10 DEF GuestInv, GuestTypeOK
<1>12. BillAddsUp'
  BY <1>5, <1>6, <1>7, <1>10 DEF BillAddsUp
<1>13. FreshIsToday'
  BY <1>2, <1>5, <1>6, <1>7, SubtotalStays DEF FreshIsToday, GuestInv, GuestTypeOK
<1>14. PaidHasBill'
  <2>1. slips[i] \in Slip
    BY SlipsAre
  <2>2. q[i] = [slips[i] EXCEPT !.paid = TRUE, !.status = "paid"]
    BY <1>1, <1>6
  <2>3. q[i].paid
    BY <2>1, <2>2 DEF Slip
  <2> QED
    BY <1>6, <1>10, <2>3 DEF PaidHasBill
<1> QED
  BY <1>11, <1>12, <1>13, <1>14 DEF GuestInv

-----------------------------------------------------------------------------
(* The orders of the guest and of the staff. *)
LEMMA LinesKeep ==
  ASSUME GuestInv, NEW o \in Lines,
         GuestOrders(o) \/ StaffRound(o) \/ ChangeLine(o) \/ ExcludeLine(o) \/ RemoveLine(o)
  PROVE  GuestInv'
<1> DEFINE L == [status: LineStatus, subtotal: LinePrices \cup {0}]
<1>1. lines \in [Lines -> L]
  BY DEF GuestInv, GuestTypeOK
<1>2. ASSUME NEW l \in L, lines' = [lines EXCEPT ![o] = l] PROVE lines' \in [Lines -> L]
  BY <1>1, <1>2
<1>3. PICK l \in L : lines' = [lines EXCEPT ![o] = l]
  <2>1. CASE NewLine(o)
    <3>1. PICK p \in LinePrices : lines' = [lines EXCEPT ![o] = [status |-> "billable", subtotal |-> p]]
      BY <2>1 DEF NewLine
    <3> QED
      BY <3>1 DEF LineStatus
  <2>2. CASE ChangeLine(o)
    <3>1. PICK p \in LinePrices : lines' = [lines EXCEPT ![o].subtotal = p]
      BY <2>2 DEF ChangeLine
    <3>2. PICK l : l = [lines[o] EXCEPT !.subtotal = p]
      OBVIOUS
    <3>3. l \in L
      BY <1>1, <3>2
    <3> QED
      BY <3>1, <3>2, <3>3
  <2>3. CASE ExcludeLine(o)
    <3>1. lines' = [lines EXCEPT ![o].status = "excluded"]
      BY <2>3 DEF ExcludeLine
    <3>2. PICK l : l = [lines[o] EXCEPT !.status = "excluded"]
      OBVIOUS
    <3>3. l \in L
      BY <1>1, <3>2 DEF LineStatus
    <3> QED
      BY <3>1, <3>2, <3>3
  <2>4. CASE RemoveLine(o)
    <3>1. lines' = [lines EXCEPT ![o] = [status |-> "none", subtotal |-> 0]]
      BY <2>4 DEF RemoveLine
    <3> QED
      BY <3>1 DEF LineStatus
  <2> QED
    BY <2>1, <2>2, <2>3, <2>4 DEF GuestOrders, StaffRound
<1>4. lines' \in [Lines -> L]
  BY <1>2, <1>3
<1>5. /\ fresh' = {} /\ UNCHANGED <<kind, rates, fee, slips>>
      /\ UNCHANGED progress \/ progress' = "open"
  BY DEF GuestOrders, StaffRound, ChangeLine, ExcludeLine, RemoveLine, NewLine
<1>6. rates' \in Rates /\ progress' \in {"open", "billed", "paid"}
  BY <1>5 DEF GuestInv, GuestTypeOK
<1> QED
  BY <1>4, <1>5, <1>6, OrdersChange

LEMMA ChangeRatesKeeps ==
  ASSUME GuestInv, ChangeRates
  PROVE  GuestInv'
<1>1. /\ rates' \in Rates /\ fresh' = {} /\ UNCHANGED <<kind, lines, fee, progress, slips>>
  BY DEF ChangeRates
<1>2. lines' \in [Lines -> [status: LineStatus, subtotal: LinePrices \cup {0}]]
      /\ progress' \in {"open", "billed", "paid"}
  BY <1>1 DEF GuestInv, GuestTypeOK
<1> QED
  BY <1>1, <1>2, OrdersChange

LEMMA GuestStarts ==
  ASSUME GuestInit
  PROVE  GuestInv
<1>1. slips = << >> /\ fresh = {} /\ Len(slips) = 0 /\ slips \in Seq(Slip) /\ Slips = {}
  BY DEF GuestInit, Slips
<1>2. lines \in [Lines -> [status: LineStatus, subtotal: LinePrices \cup {0}]]
  BY DEF GuestInit, LineStatus
<1>3. GuestTypeOK
  BY <1>1, <1>2, GuestBillAssumption DEF GuestInit, GuestTypeOK
<1>4. BillAddsUp /\ FreshIsToday /\ PaidHasBill
  BY <1>1 DEF GuestInit, BillAddsUp, FreshIsToday, PaidHasBill
<1> QED
  BY <1>3, <1>4 DEF GuestInv

LEMMA GuestStutters ==
  ASSUME GuestInv, UNCHANGED guestVars
  PROVE  GuestInv'
<1>1. UNCHANGED <<kind, lines, rates, fee, progress, slips, fresh>>
  BY DEF guestVars
<1>2. GuestTypeOK' /\ BillAddsUp'
  BY <1>1 DEF GuestInv, GuestTypeOK, BillAddsUp, Slips
<1>3. FreshIsToday' /\ PaidHasBill'
  BY <1>1, SubtotalStays DEF GuestInv, FreshIsToday, PaidHasBill, Slips
<1> QED
  BY <1>2, <1>3 DEF GuestInv

(* Bills add up, those made since the orders or the rates last changed have *)
(* the charges of today, and what is paid has a paid bill (bill-totals.ts).  *)
THEOREM AmountsInvariant == GuestSpec => []GuestInv
<1>1. GuestInit => GuestInv
  BY GuestStarts
<1>2. ASSUME GuestInv, DeskBills PROVE GuestInv'
  <2>1. PICK r \in Rates, d \in Discounts \cup {0} : GenerateBill(r, d)
    BY <1>2 DEF DeskBills
  <2>2. d \in Nat
    BY GuestBillAssumption
  <2> QED
    BY <1>2, <2>1, <2>2, GenerateBillKeeps
<1>3. GuestInv /\ [GuestNext]_guestVars => GuestInv'
  BY <1>2, LinesKeep, ChangeRatesKeeps, ApplyDiscountKeeps, InitializePaymentKeeps,
     SubmitCashIntentKeeps, RemoveCashRequestKeeps, PayKeepsBills, GuestStutters DEF GuestNext
<1> QED
  BY <1>1, <1>3, PTL DEF GuestSpec

-----------------------------------------------------------------------------
(* A nonempty set of bounded naturals has a greatest element: the newest bill. *)
LEMMA GreatestNatural ==
  ASSUME NEW N \in Nat, NEW T \in SUBSET (0 .. N), T # {}
  PROVE  \E n \in T : \A m \in T : m <= n
<1> DEFINE D == { N - n : n \in T }
<1>1. D \in SUBSET (0 .. N) /\ D # {}
  <2>1. \A n \in T : N - n \in 0 .. N
    OBVIOUS
  <2> QED
    BY <2>1
<1> HIDE DEF D
<1>2. PICK d \in D : \A e \in D : d <= e
  BY <1>1, LeastNatural
<1> USE DEF D
<1>3. PICK n \in T : d = N - n
  BY <1>2
<1>4. \A m \in T : N - m \in D
  OBVIOUS
<1>5. \A m \in T : N - n <= N - m
  BY <1>2, <1>3, <1>4
<1> HIDE DEF D
<1>6. \A m \in T : m \in Int /\ n \in Int
  OBVIOUS
<1> QED
  BY <1>5, <1>6

(* With no discount the page shows the sum of the charges, and of paid live bills the newest is found. *)
LEMMA AmountsStand ==
  ASSUME GuestInv
  PROVE  AmountsAgree
<1>1. BillAddsUp
  BY DEF GuestInv
<1>2. ASSUME NEW i \in fresh PROVE slips[i].total = AtLeastZero(ShownTotal - slips[i].discount)
  <2>1. i \in Slips /\ rates \in Rates /\ 0 \in Nat
    BY DEF GuestInv, GuestTypeOK
  <2>2. PICK b : b = slips[i]
    OBVIOUS
  <2>3. b \in Slip /\ AddsUp(b) /\ Charges(b, Subtotal, rates, fee)
    BY <2>1, <2>2, SlipsAre DEF GuestInv, FreshIsToday
  <2>4. PICK t : t = Totals(rates, 0)
    OBVIOUS
  <2>5. /\ t \in [subtotal: Nat, service: Nat, tax: Nat, fee: Nat, discount: Nat, total: Nat]
        /\ Charges(t, Subtotal, rates, fee) /\ t.discount = 0
        /\ t.total = AtLeastZero(t.subtotal + t.service + t.tax + t.fee - t.discount)
    BY <2>1, <2>4, TotalsAre DEF GuestInv
  <2>6. ShownTotal = t.total
    BY <2>4 DEF ShownTotal, TabPage, GroupPage
  <2>7. PICK n \in Nat : n = t.subtotal + t.service + t.tax + t.fee
    BY <2>5
  <2>8. t.total = n
    BY <2>5, <2>7, AtLeastZeroNat
  <2>9. n = b.subtotal + b.service + b.tax + b.fee
    BY <2>3, <2>5, <2>7 DEF Charges
  <2>10. b.total = AtLeastZero(n - b.discount)
    <3>1. b.total = AtLeastZero(b.subtotal + b.service + b.tax + b.fee - b.discount)
      BY <2>3 DEF AddsUp
    <3>2. b.subtotal + b.service + b.tax + b.fee - b.discount = n - b.discount
      BY <2>3, <2>9 DEF Slip
    <3> QED
      BY <3>1, <3>2
  <2> QED
    BY <2>2, <2>6, <2>8, <2>10
<1>3. ASSUME progress = "paid", \A i \in Slips : ~(slips[i].paid /\ slips[i].voided)
      PROVE  \E i \in ReceiptSlip : slips[i].paid
  <2>7. \E i \in Live : slips[i].paid
    BY <1>3 DEF GuestInv, PaidHasBill, Live
  <2>1. PICK P : P = { i \in Live : slips[i].paid }
    OBVIOUS
  <2>2. ReceiptSlip = NewestOf(P)
    BY <2>1, <2>7 DEF ReceiptSlip
  <2>3. PICK n \in Nat : n = Len(slips)
    BY DEF GuestInv, GuestTypeOK
  <2>4. P \in SUBSET (0 .. n) /\ P # {}
    BY <2>1, <2>3, <2>7 DEF Live, Slips
  <2>5. PICK i \in P : \A j \in P : j <= i
    BY <2>4, GreatestNatural
  <2>6. i \in NewestOf(P)
    BY <2>5 DEF NewestOf
  <2> QED
    BY <2>1, <2>2, <2>6
<1> QED
  BY <1>1, <1>2, <1>3 DEF AmountsAgree, FreshBillIsShown, SettledShowsPayment

(* Every bill adds up, one made since orders and rates last changed asks what the guest's page shows, and  *)
(* the receipt of what is paid shows a paid bill, but for a late payment of a voided one (bill-totals.ts,   *)
(* buildReceiptData).                                                                                       *)
THEOREM AmountsAgreeAlways == GuestSpec => []AmountsAgree
BY AmountsInvariant, AmountsStand, PTL

===========================================================================
