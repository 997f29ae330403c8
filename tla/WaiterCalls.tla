---------------------------- MODULE WaiterCalls ----------------------------
(***************************************************************************)
(* A guest calls a waiter (waiter-call/waiter-call.service.ts).  A request  *)
(* is broadcast, and the first waiter to accept claims it.  Every handler   *)
(* reads the request, changes what it is about and saves the whole row, so  *)
(* the row of a slow handler takes the others' changes back.  The status    *)
(* "queued" and its queue are left out: no code puts a request there.       *)
(***************************************************************************)
EXTENDS Naturals, FiniteSets

CONSTANTS
  CallTables, Requests, Waiters, Nobody,
  Handlers,         \* requests to the API that may overlap
  MaxHandled        \* bound: handlers begun in a behaviour

ASSUME WaiterCallAssumption ==
  /\ CallTables # {} /\ Requests # {}
  /\ Nobody \notin Waiters
  /\ MaxHandled \in Nat

VARIABLES
  requests,    \* rows of waiter_calls
  handlers,    \* the handlers in flight, with the row each will save
  handled,     \* handlers begun so far
  crowded      \* history: tables with a request nobody looked for (see OneRequestPerTable)

callVars == <<requests, handlers, handled, crowded>>

RequestStatus == {"none", "pending", "accepted", "arrived", "resolved", "cancelled"}
AnyCallTable == CHOOSE t \in CallTables : TRUE
NoRequest == [status |-> "none", table |-> AnyCallTable, waiter |-> Nobody]
IdleHandler == [does |-> "nothing", request |-> CHOOSE r \in Requests : TRUE, row |-> NoRequest, stale |-> FALSE]

CallInit ==
  /\ requests = [r \in Requests |-> NoRequest]
  /\ handlers = [h \in Handlers |-> IdleHandler]
  /\ handled = 0
  /\ crowded = {}

Waiting(t) == { r \in Requests : requests[r].status = "pending" /\ requests[r].table = t }
Busy(h) == handlers[h].does # "nothing"

(* The read of a handler, and the row it will save. *)
Handle(h, does, r, row) ==
  /\ ~Busy(h)
  /\ handled < MaxHandled
  /\ handled' = handled + 1
  /\ handlers' = [handlers EXCEPT ![h] = [does |-> does, request |-> r, row |-> row, stale |-> FALSE]]
  /\ UNCHANGED <<requests, crowded>>

Known(r) == requests[r].status # "none"

---------------------------------------------------------------------------
(* Only requests that are still pending stand in the way of another one; the mutant asks nothing. *)
MayCallAgain(t) == TRUE
MayCall(t) == Waiting(t) = {}

CreateWaiterCall(h) ==
  \E r \in Requests, t \in CallTables :
    /\ ~Known(r)
    /\ \A g \in Handlers : Busy(g) => handlers[g].request # r
    /\ MayCall(t)
    /\ Handle(h, "create", r, [status |-> "pending", table |-> t, waiter |-> Nobody])

(* Mutant: a request that was claimed may be claimed again. *)
ClaimableAnyway(r) == requests[r].status \in {"pending", "accepted"}
ClaimableRequest(r) == requests[r].status = "pending"

AcceptWaiterCall(h) ==
  \E r \in Requests, w \in Waiters :
    /\ ClaimableRequest(r)
    /\ Handle(h, "accept", r, [requests[r] EXCEPT !.status = "accepted", !.waiter = w])

(* markArrived, resolve and cancel (by staff, or by the guest's device) ask nothing of the status. *)
FinishWaiterCall(h) ==
  \E r \in Requests, s \in {"arrived", "resolved", "cancelled"} :
    /\ Known(r)
    /\ Handle(h, "finish", r, [requests[r] EXCEPT !.status = s])

(* reassign puts the request back, for one waiter. *)
ReassignWaiterCall(h) ==
  \E r \in Requests, w \in Waiters :
    /\ Known(r)
    /\ requests[r].status \notin {"resolved", "cancelled"}
    /\ Handle(h, "reassign", r, [requests[r] EXCEPT !.status = "pending", !.waiter = w])

SaveRequest(h) ==
  LET me == handlers[h]
      r == me.request
  IN /\ Busy(h)
     /\ requests' = [requests EXCEPT ![r] = me.row]
     /\ handlers' = [g \in Handlers |->
          IF g = h THEN IdleHandler ELSE [handlers[g] EXCEPT !.stale = Busy(g)]]
     /\ crowded' = IF me.row.status = "pending" /\ (me.stale \/ me.does = "reassign")
                   THEN crowded \cup {me.row.table} ELSE crowded
     /\ UNCHANGED handled

DropHandler(h) ==
  /\ Busy(h)
  /\ handlers' = [handlers EXCEPT ![h] = IdleHandler]
  /\ UNCHANGED <<requests, handled, crowded>>

CallNext ==
  \E h \in Handlers :
    \/ CreateWaiterCall(h) \/ AcceptWaiterCall(h) \/ FinishWaiterCall(h) \/ ReassignWaiterCall(h)
    \/ SaveRequest(h) \/ DropHandler(h)

CallSpec == CallInit /\ [][CallNext]_callVars

---------------------------------------------------------------------------
RequestRow == [status: RequestStatus, table: CallTables, waiter: Waiters \cup {Nobody}]

(* Requests, handlers and the history have their types. *)
CallTypeOK ==
  /\ requests \in [Requests -> RequestRow]
  /\ handlers \in [Handlers -> [does: {"nothing", "create", "accept", "finish", "reassign"},
                                request: Requests, row: RequestRow, stale: BOOLEAN]]
  /\ handled \in 0 .. MaxHandled
  /\ crowded \subseteq CallTables

(* A table has one waiting request at most, unless two were created at once or one was put back by a *)
(* reassignment while the table had already called again. *)
OneRequestPerTable ==
  \A t \in CallTables : Cardinality(Waiting(t)) > 1 => t \in crowded

(* The first waiter to accept claims the request (the comment of createWaiterCall): nobody else gets it *)
(* while it is claimed, unless a manager reassigns it or a handler saves a row it had read before. *)
ClaimIsKept ==
  [][ \A r \in Requests :
        /\ requests[r].waiter # Nobody
        /\ requests[r].status # "pending"
        /\ requests'[r].waiter # requests[r].waiter
        => \E h \in Handlers : /\ handlers[h].request = r
                               /\ handlers'[h].does = "nothing"
                               /\ handlers[h].stale \/ handlers[h].does = "reassign" ]_callVars

(* A table's call is made once and answered by one. *)
CallsAreKept == []OneRequestPerTable /\ ClaimIsKept

=============================================================================
