----------------------------- MODULE SyncQueue -----------------------------
(***************************************************************************)
(* Operations that a device recorded offline and sends with a key of its    *)
(* own until it gets an answer (sync/sync.service.ts).  An operation on     *)
(* tabs and orders is applied in the transaction that marks its entry       *)
(* processed; one on bills is applied by the billing service in a           *)
(* transaction of its own, which commits before that.  An operation that    *)
(* finds nothing to do, or that the service does not know, is marked        *)
(* processed as well.                                                       *)
(***************************************************************************)
EXTENDS Naturals, FiniteSets

CONSTANTS
  SyncKeys,       \* client_idempotency_key, one operation each
  BillKeys,       \* those of operations on bills
  OnceKeys,       \* those that leave nothing to do again: tab.create, order.delete, bill.pay
  SyncCalls,      \* queueOperation and replayAll in flight
  MaxSyncCalls    \* bound: such calls begun in a behaviour

ASSUME SyncAssumption ==
  BillKeys \subseteq SyncKeys /\ OnceKeys \subseteq SyncKeys /\ MaxSyncCalls \in Nat

VARIABLES
  entries,       \* status of the row of each key
  workable,      \* keys whose operation has something to do: a tab to create or update, an order to delete,
                 \* a bill to pay; never one that the service does not know
  applied,       \* history: how often each operation took effect (2: more than once)
  syncCalls,     \* where each call stands, with the keys it still has to replay
  syncBegun,
  nothingDone,   \* history: keys whose replay found nothing to do
  renewed,       \* history: keys that had taken effect and whose work was undone elsewhere
  tangled        \* history: keys that two calls replayed at once, or whose call was cut off once applied

syncVars == <<entries, workable, applied, syncCalls, syncBegun, nothingDone, renewed, tangled>>

EntryStatus == {"none", "pending", "processed", "failed"}
IdleSync == [at |-> "idle", todo |-> {}]

SyncInit ==
  /\ entries = [k \in SyncKeys |-> "none"]
  /\ workable \in SUBSET SyncKeys
  /\ applied = [k \in SyncKeys |-> 0]
  /\ syncCalls = [c \in SyncCalls |-> IdleSync]
  /\ syncBegun = 0
  /\ nothingDone = {}
  /\ renewed = {}
  /\ tangled = {}

At(c, at) == syncCalls[c].at = at

CallAt(at, todo) == IF todo = {} THEN IdleSync ELSE [at |-> at, todo |-> todo]

(* The call goes on; when it has a key in hand that another call has too, both cross. *)
Moves(c, at, todo) ==
  /\ syncCalls' = [syncCalls EXCEPT ![c] = CallAt(at, todo)]
  /\ tangled' = tangled \cup (todo \cap UNION { syncCalls[d].todo : d \in SyncCalls \ {c} })

BeginSync(c) == At(c, "idle") /\ syncBegun < MaxSyncCalls /\ syncBegun' = syncBegun + 1

---------------------------------------------------------------------------
(* What was processed is answered from the queue.  Mutant: it is replayed as well. *)
AnsweredNever(k) == FALSE
Answered(k) == entries[k] = "processed"

(* queueOperation. *)
QueueOperation(c) ==
  \E k \in SyncKeys :
    /\ BeginSync(c)
    /\ ~Answered(k)
    /\ Moves(c, IF entries[k] = "none" THEN "insert" ELSE "replay", {k})
    /\ UNCHANGED <<entries, workable, applied, nothingDone, renewed>>

(* The key is unique: the second of two inserts fails. *)
InsertEntry(c) ==
  /\ At(c, "insert")
  /\ \E k \in syncCalls[c].todo :
       /\ entries' = IF entries[k] = "none" THEN [entries EXCEPT ![k] = "pending"] ELSE entries
       /\ IF entries[k] = "none" THEN Moves(c, "replay", {k}) ELSE Moves(c, "idle", {})
  /\ UNCHANGED <<workable, applied, syncBegun, nothingDone, renewed>>

(* replayAll takes the pending entries it found, one after the other. *)
ReplayAll(c) ==
  /\ BeginSync(c)
  /\ Moves(c, "replay", { k \in SyncKeys : entries[k] = "pending" })
  /\ UNCHANGED <<entries, workable, applied, nothingDone, renewed>>

---------------------------------------------------------------------------
(* replayOne. *)

(* The entry at hand; a call replays its entries one after the other. *)
AtHand(c) == CHOOSE k \in syncCalls[c].todo : TRUE
StillToDo(c) == syncCalls[c].todo \ {AtHand(c)}

(* What an operation does: nothing when there is nothing to do, which is no error. *)
TakesEffect(k) ==
  /\ applied' = IF k \in workable THEN [applied EXCEPT ![k] = IF @ = 0 THEN 1 ELSE 2] ELSE applied
  /\ nothingDone' = IF k \in workable THEN nothingDone ELSE nothingDone \cup {k}
  /\ workable' = workable \ ({k} \cap OnceKeys)

(* The switch of replayOne: a tab that is there is not created again, a tab of no branch of the caller is *)
(* not updated, an order that is gone is not deleted, an unknown operation is only logged.                *)
ReplayRow(c) ==
  LET k == AtHand(c)
  IN /\ At(c, "replay") /\ k \notin BillKeys
     /\ TakesEffect(k)
     /\ entries' = [entries EXCEPT ![k] = "processed"]
     /\ Moves(c, "replay", StillToDo(c))
     /\ UNCHANGED <<syncBegun, renewed>>

(* The billing service claims an unpaid bill (see Settlement) and answers with one that is paid. *)
ReplayBill(c) ==
  LET k == AtHand(c)
  IN /\ At(c, "replay") /\ k \in BillKeys
     /\ TakesEffect(k)
     /\ Moves(c, "mark", syncCalls[c].todo)
     /\ UNCHANGED <<entries, syncBegun, renewed>>

MarkProcessed(c) ==
  /\ At(c, "mark")
  /\ entries' = [entries EXCEPT ![AtHand(c)] = "processed"]
  /\ Moves(c, "replay", StillToDo(c))
  /\ UNCHANGED <<workable, applied, syncBegun, nothingDone, renewed>>

(* The save of the entry or its commit fails once the billing service has committed. *)
MarkFails(c) ==
  /\ At(c, "mark")
  /\ entries' = [entries EXCEPT ![AtHand(c)] = "failed"]
  /\ syncCalls' = [syncCalls EXCEPT ![c] = CallAt("replay", StillToDo(c))]
  /\ tangled' = tangled \cup {AtHand(c)}
  /\ UNCHANGED <<workable, applied, syncBegun, nothingDone, renewed>>

(* A rule of the service, the branch or the database refuses the operation. *)
RefuseEntry(c) ==
  /\ At(c, "replay")
  /\ entries' = [entries EXCEPT ![AtHand(c)] = "failed"]
  /\ Moves(c, "replay", StillToDo(c))
  /\ UNCHANGED <<workable, applied, syncBegun, nothingDone, renewed>>

CutSync(c) ==
  /\ ~At(c, "idle")
  /\ syncCalls' = [syncCalls EXCEPT ![c] = IdleSync]
  /\ tangled' = IF At(c, "mark") THEN tangled \cup {AtHand(c)} ELSE tangled
  /\ UNCHANGED <<entries, workable, applied, syncBegun, nothingDone, renewed>>

(* The live endpoints and other operations: a tab is opened or deleted, a bill is paid or generated anew. *)
ChangedElsewhere(k) ==
  /\ workable' = IF k \in workable THEN workable \ {k} ELSE workable \cup {k}
  /\ renewed' = IF k \notin workable /\ applied[k] > 0 THEN renewed \cup {k} ELSE renewed
  /\ UNCHANGED <<entries, applied, syncCalls, syncBegun, nothingDone, tangled>>

SyncNext ==
  \/ \E c \in SyncCalls :
       \/ QueueOperation(c) \/ InsertEntry(c) \/ ReplayAll(c) \/ ReplayRow(c) \/ ReplayBill(c)
       \/ MarkProcessed(c) \/ MarkFails(c) \/ RefuseEntry(c) \/ CutSync(c)
  \/ \E k \in SyncKeys : ChangedElsewhere(k)

SyncSpec == SyncInit /\ [][SyncNext]_syncVars

---------------------------------------------------------------------------
(* Entries, calls and histories have their types. *)
SyncTypeOK ==
  /\ entries \in [SyncKeys -> EntryStatus]
  /\ applied \in [SyncKeys -> 0 .. 2]
  /\ workable \subseteq SyncKeys /\ nothingDone \subseteq SyncKeys /\ renewed \subseteq SyncKeys
  /\ syncCalls \in [SyncCalls -> [at: {"idle", "insert", "replay", "mark"}, todo: SUBSET SyncKeys]]
  /\ syncBegun \in 0 .. MaxSyncCalls
  /\ tangled \subseteq SyncKeys

(* "queueOperation's idempotency key prevents duplicate side-effects on client retries": however often *)
(* the device or the manager repeats an operation, it takes effect once at most, and not before its     *)
(* entry says processed, unless two repetitions cross each other or the call fails between the payment  *)
(* and its mark; a tab is not created twice, an order not deleted and a bill not paid twice even then,  *)
(* while nobody undoes it.  Processed means that it took effect or that a replay found nothing to do.   *)
QueuedTakesEffectOnce ==
  \A k \in SyncKeys :
    /\ entries[k] = "processed" => applied[k] > 0 \/ k \in nothingDone
    /\ k \notin tangled /\ (\A c \in SyncCalls : At(c, "mark") => k # AtHand(c)) =>
         applied[k] <= IF entries[k] = "processed" THEN 1 ELSE 0
    /\ k \in OnceKeys \ renewed => applied[k] <= 1

=============================================================================
