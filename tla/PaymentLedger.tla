---------------------------- MODULE PaymentLedger ----------------------------
(***************************************************************************)
(* What the settlement path promises, without its requests, rows and       *)
(* races: a bill is settled by one payer, in the same step that closes     *)
(* what it bills; nothing is ever un-settled or re-opened; and nobody is   *)
(* told that a bill is paid before it is settled.                          *)
(***************************************************************************)
CONSTANTS BillId, Request, Scope, NULL

VARIABLES
    settledBy,      \* settledBy[b]: the requests whose payment settled bill b
    closed,         \* the scopes closed as paid
    toldPaid        \* toldPaid[r]: the bill r was told is paid, or NULL

ledger == <<settledBy, closed, toldPaid>>

Init ==
    /\ settledBy = [b \in BillId |-> {}]
    /\ closed = {}
    /\ toldPaid = [r \in Request |-> NULL]

Settle(b, r, s) ==
    /\ settledBy[b] = {}
    /\ toldPaid[r] = NULL
    /\ settledBy' = [settledBy EXCEPT ![b] = {r}]
    /\ closed' = closed \cup {s}
    /\ toldPaid' = [toldPaid EXCEPT ![r] = b]

TellPaid(b, r) ==
    /\ settledBy[b] # {}
    /\ toldPaid[r] = NULL
    /\ toldPaid' = [toldPaid EXCEPT ![r] = b]
    /\ UNCHANGED <<settledBy, closed>>

Next ==
    \E b \in BillId, r \in Request :
        \/ \E s \in Scope : Settle(b, r, s)
        \/ TellPaid(b, r)

Spec == Init /\ [][Next]_ledger

=============================================================================
