--------------------------- MODULE TerminalPushes ---------------------------
(***************************************************************************)
(* Payments pushed to a terminal (payment/moniepoint-erp.service.ts) and    *)
(* the job that finds out what became of them (reconcileErpPushes of        *)
(* payment-reconciliation.scheduler.ts).  A push belongs to the one bill,   *)
(* or to none; its row is written after the terminal was asked, and only    *)
(* the job ends it.  The terminal and its provider are external.            *)
(***************************************************************************)
EXTENDS Naturals, FiniteSets

CONSTANTS
  PushRows,          \* rows of moniepoint_erp_pushes
  Pushers,           \* calls of pushPayment in flight
  MaxPushCalls,      \* bound: such calls begun in a behaviour
  MaxPassesCut       \* bound: passes of the job that a restart cuts short

ASSUME PushAssumption == MaxPushCalls \in Nat /\ MaxPassesCut \in Nat

VARIABLES
  bill,          \* its payment_reference, and whether it is paid
  pushes,        \* rows: reference, status, age of pushed_at
  pushCalls,     \* where each call stands
  pushesBegun,   \* calls begun so far
  pass,          \* rows the pass of the job still has before it
  overdue,       \* those of them that are older than its cutoff
  unannounced,   \* the rows it has ended and not told the branch yet
  alerted,       \* references the branch was told about
  passesCut      \* passes cut short by a restart

pushVars == <<bill, pushes, pushCalls, pushesBegun, pass, overdue, unannounced, alerted, passesCut>>

(* A reference: the one of the bill, which the call that finds none makes up, and the number of the *)
(* retry; or the one of a caller without a bill. *)
NoBill == "no bill"
Issued == "issued before"
PushRef == [base: Pushers \cup {NoBill, Issued}, try: 1 .. Cardinality(PushRows) + 1]
First(base) == [base |-> base, try |-> 1]

(* Ages: under the delay of the first lookup; past it; past the cutoff, too. *)
Fresh == 0
Stale == 2

PushStatus == {"none", "pending", "paid", "declined", "expired"}
NoPush == [ref |-> First(NoBill), status |-> "none", age |-> Fresh]
IdlePusher == [at |-> "idle", ref |-> First(NoBill)]

PushInit ==
  /\ bill \in [base: {NoBill, Issued}, paid: {FALSE}]
  /\ pushes = [p \in PushRows |-> NoPush]
  /\ pushCalls = [c \in Pushers |-> IdlePusher]
  /\ pushesBegun = 0
  /\ pass = {} /\ overdue = {} /\ unannounced = {}
  /\ alerted = {}
  /\ passesCut = 0

PushesIn(S) == { p \in PushRows : pushes[p].status \in S }
Pushed == PushesIn(PushStatus \ {"none"})
ForBill(p) == pushes[p].ref.base # NoBill
OfRef(ref) == { p \in Pushed : pushes[p].ref = ref }
OfBill == { p \in Pushed : ForBill(p) }

---------------------------------------------------------------------------
(* Pushing. *)

Goes(c, at, ref) ==
  /\ pushCalls' = [pushCalls EXCEPT ![c] = [at |-> at, ref |-> ref]]
  /\ UNCHANGED <<pass, overdue, unannounced, alerted, passesCut>>

Stands(c, at) == pushCalls[c].at = at

BeginPush(c) ==
  /\ Stands(c, "idle")
  /\ pushesBegun < MaxPushCalls
  /\ pushesBegun' = pushesBegun + 1
  /\ \/ Goes(c, "look", First(NoBill))
     \/ ~bill.paid /\ bill.base # NoBill /\ Goes(c, "look", First(bill.base))
     \/ ~bill.paid /\ bill.base = NoBill /\ Goes(c, "refer", First(c))
  /\ UNCHANGED <<bill, pushes>>

(* resolveBillContext saves the bill it read, unpaid as it was then. *)
SaveReference(c) ==
  /\ Stands(c, "refer")
  /\ bill' = [base |-> c, paid |-> FALSE]
  /\ Goes(c, "look", pushCalls[c].ref)
  /\ UNCHANGED <<pushes, pushesBegun>>

(* One turn of the loop: an unused reference is taken; a pending or paid push is the answer; an ended *)
(* one without a bill is refused; with a bill, the number of the bill's pushes gives the next reference. *)
LookForPush(c) ==
  LET ref == pushCalls[c].ref
  IN /\ Stands(c, "look")
     /\ \/ OfRef(ref) = {} /\ Goes(c, "ask", ref)
        \/ \E p \in OfRef(ref) :
             IF p \in PushesIn({"pending", "paid"}) \/ ref.base = NoBill
             THEN Goes(c, "idle", First(NoBill))
             ELSE Goes(c, "look", [ref EXCEPT !.try = Cardinality(OfBill) + 1])
     /\ UNCHANGED <<bill, pushes, pushesBegun>>

(* The terminal gets the request; the answer may be an error, with or without a request shown. *)
AskTerminal(c) ==
  /\ Stands(c, "ask")
  /\ \E at \in {"insert", "idle"} : Goes(c, at, IF at = "idle" THEN First(NoBill) ELSE pushCalls[c].ref)
  /\ UNCHANGED <<bill, pushes, pushesBegun>>

InsertPush(c) ==
  /\ Stands(c, "insert")
  /\ PushRows # Pushed
  /\ pushes' = [pushes EXCEPT ![CHOOSE p \in PushRows \ Pushed : TRUE] =
                  [ref |-> pushCalls[c].ref, status |-> "pending", age |-> Fresh]]
  /\ Goes(c, "idle", First(NoBill))
  /\ UNCHANGED <<bill, pushesBegun>>

(* A settlement of the bill: the webhook of the terminal, or cash. *)
BillSettled ==
  /\ ~bill.paid
  /\ bill' = [bill EXCEPT !.paid = TRUE]
  /\ UNCHANGED <<pushes, pushCalls, pushesBegun, pass, overdue, unannounced, alerted, passesCut>>

---------------------------------------------------------------------------
(* The job: what it loads once, and what it does with each row. *)

(* Mutant: only the pushes of bills are looked after. *)
WatchedOfBills == { p \in PushesIn({"pending"}) : ForBill(p) }
Watched == PushesIn({"pending"})

Job == <<bill, pushCalls, pushesBegun>>

BeginReconcile ==
  /\ pass = {} /\ unannounced = {}
  /\ Watched # {}
  /\ pass' = Watched
  /\ overdue' = { p \in Watched : pushes[p].age = Stale }
  /\ UNCHANGED <<Job, pushes, unannounced, alerted, passesCut>>

(* The row is done with: ended, told to the branch next if it has to be, or left for the next pass. *)
Reconciled(p, status) ==
  /\ unannounced = {}
  /\ pass' = pass \ {p}
  /\ pushes' = [pushes EXCEPT ![p].status = status]
  /\ unannounced' = IF status \in {"expired", "declined"} THEN {p} ELSE {}
  /\ UNCHANGED <<Job, overdue, alerted, passesCut>>

ExpirePush(p) ==
  /\ p \in pass \cap overdue
  /\ Reconciled(p, "expired")

(* The paid bill decides, else the provider is asked, who says anything or fails. *)
LookUpPush(p) ==
  /\ p \in pass \ overdue
  /\ \/ pushes[p].age = Fresh /\ Reconciled(p, "pending")
     \/ pushes[p].age # Fresh /\ ForBill(p) /\ bill.paid /\ Reconciled(p, "paid")
     \/ /\ pushes[p].age # Fresh
        /\ ~(ForBill(p) /\ bill.paid)
        /\ \E answer \in {"pending", "paid", "declined"} : Reconciled(p, answer)

(* One alert for a reference; writing it may fail, which the job logs. *)
AlertPush(p) ==
  /\ p \in unannounced
  /\ \E written \in BOOLEAN : alerted' = IF written THEN alerted \cup {pushes[p].ref} ELSE alerted
  /\ unannounced' = {}
  /\ UNCHANGED <<Job, pushes, pass, overdue, passesCut>>

CutPass ==
  /\ pass \cup unannounced # {}
  /\ passesCut < MaxPassesCut
  /\ passesCut' = passesCut + 1
  /\ pass' = {} /\ overdue' = {} /\ unannounced' = {}
  /\ UNCHANGED <<Job, pushes, alerted>>

(* Time passes for a row that waits. *)
PushAges(p) ==
  /\ p \in PushesIn({"pending"})
  /\ pushes[p].age < Stale
  /\ pushes' = [pushes EXCEPT ![p].age = @ + 1]
  /\ UNCHANGED <<Job, pass, overdue, unannounced, alerted, passesCut>>

ReconcileErpPushes ==
  \/ BeginReconcile
  \/ \E p \in PushRows : ExpirePush(p) \/ LookUpPush(p) \/ AlertPush(p)

PushNext ==
  \/ \E c \in Pushers : BeginPush(c) \/ SaveReference(c) \/ LookForPush(c) \/ AskTerminal(c) \/ InsertPush(c)
  \/ \E p \in PushRows : PushAges(p)
  \/ BillSettled \/ ReconcileErpPushes \/ CutPass

(* Time passes and the scheduler calls the job; nobody has to pay, and no staff has to push. *)
PushFairness ==
  /\ \A p \in PushRows : WF_pushVars(PushAges(p))
  /\ WF_pushVars(ReconcileErpPushes)

PushSpec == PushInit /\ [][PushNext]_pushVars /\ PushFairness

---------------------------------------------------------------------------
(* The bill, the rows, the calls and the pass have their types. *)
PushTypeOK ==
  /\ bill \in [base: Pushers \cup {NoBill, Issued}, paid: BOOLEAN]
  /\ pushes \in [PushRows -> [ref: PushRef, status: PushStatus, age: Fresh .. Stale]]
  /\ pushCalls \in [Pushers -> [at: {"idle", "refer", "look", "ask", "insert"}, ref: PushRef]]
  /\ pushesBegun \in 0 .. MaxPushCalls
  /\ pass \cup unannounced \subseteq PushesIn(PushStatus \ {"none"})
  /\ alerted \subseteq PushRef
  /\ passesCut \in 0 .. MaxPassesCut

(* Every push gets an outcome, though guest, terminal and provider may keep silent, lookups fail and a *)
(* restart cuts a pass short: the job finds it paid or declined, or expires it. *)
PushSettles ==
  \A p \in PushRows : pushes[p].status = "pending" ~> pushes[p].status \in {"paid", "declined", "expired"}

(* A push that still waits is reused (the comment of the loop): of calls that follow one another, none *)
(* asks the guest of one bill a second time. *)
LivePushIsReused == Cardinality({ p \in OfBill : pushes[p].status = "pending" }) <= 1

=============================================================================
