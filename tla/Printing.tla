------------------------------ MODULE Printing ------------------------------
(***************************************************************************)
(* The printers of a branch, its print jobs and the rounds the kitchen       *)
(* fires (printer/printer.service.ts).  No request of this service runs in   *)
(* a transaction: each reads rows, works on its copies, and writes back a    *)
(* copy with every column it read, in that order.                            *)
(*                                                                           *)
(* Only send-to-kds queues jobs, and never for a printer of its own choice,  *)
(* so that every job goes to a default printer.  The display streams an      *)
(* event to whoever listens and keeps nothing.  The orders are those of one  *)
(* tab; what else becomes of them is in Settlement and Kitchen.              *)
(***************************************************************************)
EXTENDS Naturals, FiniteSets

CONSTANTS
  Printers,       \* ids of printers
  PrintJobs,      \* ids of print jobs
  TabOrders,      \* the orders of the tab
  PrintCalls,     \* requests in flight at the same time
  MaxPrintCalls,  \* bound: requests begun in a behaviour
  NoPrinter, NoJob

ASSUME PrintingAssumption ==
  /\ NoPrinter \notin Printers /\ NoJob \notin PrintJobs
  /\ MaxPrintCalls \in Nat

VARIABLES
  printers,      \* rows of printers: is_default, for those that exist
  printJobs,     \* rows of print_jobs; the payload is a set of orders
  rounds,        \* round_number of the orders
  cooking,       \* the orders neither delivered nor cancelled
  printCalls,    \* the requests in flight, with the copies they work on
  printsBegun,
  printersMixed, \* history: two requests changed printers at the same time
  mixed,         \* history: jobs and orders two requests worked on at once, and jobs cut before their save
  removed,       \* history: printers a request removed
  tally          \* history: tickets that came out or failed, by job, and rounds fired, by order

printVars == <<printers, printJobs, rounds, cooking, printCalls, printsBegun, printersMixed, mixed, removed, tally>>

PrinterRow == {"unused", "absent", "plain", "default"}
JobRow == [status: {"unqueued", "pending", "printed", "failed"}, retries: Nat, ticket: SUBSET TabOrders]
NoRow == [status |-> "unqueued", retries |-> 0, ticket |-> {}]
IdlePrintCall == [at |-> "idle", printer |-> NoPrinter, row |-> "unused", default |-> FALSE,
                  job |-> NoJob, jobRow |-> NoRow, orders |-> [o \in TabOrders |-> 0]]

PrintInit ==
  /\ printers = [p \in Printers |-> "unused"]
  /\ printJobs = [j \in PrintJobs |-> NoRow]
  /\ rounds \in [TabOrders -> {1}] /\ cooking = TabOrders
  /\ printCalls = [c \in PrintCalls |-> IdlePrintCall]
  /\ printsBegun = 0
  /\ printersMixed = FALSE /\ mixed = {} /\ removed = {}
  /\ tally = [out |-> [j \in PrintJobs |-> 0], failed |-> [j \in PrintJobs |-> 0], fired |-> [o \in TabOrders |-> 0]]

PrintCallAt(c, at) == printCalls[c].at = at
Listed == { p \in Printers : printers[p] \in {"plain", "default"} }
Defaults == { p \in Printers : printers[p] = "default" }

BeginPrintCall(c, call) ==
  /\ PrintCallAt(c, "idle")
  /\ printsBegun < MaxPrintCalls /\ printsBegun' = printsBegun + 1
  /\ printCalls' = [printCalls EXCEPT ![c] = call]
MovePrintCall(c, call) == printCalls' = [printCalls EXCEPT ![c] = call] /\ UNCHANGED printsBegun

---------------------------------------------------------------------------
(* create, update, remove *)

ChangesPrinters(c) == printCalls[c].at \in {"clear", "save", "remove"}
BeginPrinterChange(c, call) ==
  /\ BeginPrintCall(c, call)
  /\ printersMixed' = (printersMixed \/ \E d \in PrintCalls : ChangesPrinters(d))

CreatePrinter(c) ==
  \E p \in Printers, default \in BOOLEAN :
    /\ printers[p] = "unused" /\ \A d \in PrintCalls : printCalls[d].printer # p
    /\ BeginPrinterChange(c, [IdlePrintCall EXCEPT !.at = IF default THEN "clear" ELSE "save", !.printer = p,
                                                   !.row = "plain", !.default = default])
    /\ UNCHANGED <<printers, printJobs, rounds, cooking, mixed, removed, tally>>

(* Clears first where the copy is to become the default and is not; is_default may also be set to false. *)
UpdatePrinter(c) ==
  \E p \in Listed, default \in BOOLEAN :
    /\ BeginPrinterChange(c, [IdlePrintCall EXCEPT !.at = IF default /\ printers[p] # "default" THEN "clear" ELSE "save",
                                                   !.printer = p, !.row = printers[p], !.default = default])
    /\ UNCHANGED <<printers, printJobs, rounds, cooking, mixed, removed, tally>>

(* An update that leaves is_default out writes back the one it read. *)
RenamePrinter(c) ==
  \E p \in Listed :
    /\ BeginPrinterChange(c, [IdlePrintCall EXCEPT !.at = "save", !.printer = p, !.row = printers[p],
                                                   !.default = printers[p] = "default"])
    /\ UNCHANGED <<printers, printJobs, rounds, cooking, mixed, removed, tally>>

(* Mutant: the printer that was the default stays one. *)
ClearedNone == printers
Cleared == [p \in Printers |-> IF printers[p] = "default" THEN "plain" ELSE printers[p]]

ClearDefaults(c) ==
  /\ PrintCallAt(c, "clear")
  /\ printers' = Cleared
  /\ MovePrintCall(c, [printCalls[c] EXCEPT !.at = "save"])
  /\ UNCHANGED <<printJobs, rounds, cooking, printersMixed, mixed, removed, tally>>

(* A row that is gone is inserted again. *)
SavePrinter(c) ==
  /\ PrintCallAt(c, "save")
  /\ printers' = [printers EXCEPT ![printCalls[c].printer] = IF printCalls[c].default THEN "default" ELSE "plain"]
  /\ MovePrintCall(c, IdlePrintCall)
  /\ UNCHANGED <<printJobs, rounds, cooking, printersMixed, mixed, removed, tally>>

FindPrinterToRemove(c) ==
  \E p \in Listed :
    /\ BeginPrinterChange(c, [IdlePrintCall EXCEPT !.at = "remove", !.printer = p])
    /\ UNCHANGED <<printers, printJobs, rounds, cooking, mixed, removed, tally>>

RemovePrinter(c) ==
  LET p == printCalls[c].printer
  IN /\ PrintCallAt(c, "remove")
     /\ printers' = [printers EXCEPT ![p] = "absent"]
     /\ removed' = removed \cup {p}
     /\ MovePrintCall(c, IdlePrintCall)
     /\ UNCHANGED <<printJobs, rounds, cooking, printersMixed, mixed, tally>>

---------------------------------------------------------------------------
(* sendToKds and printJob *)

(* The orders are read, then their menu items one by one; the ticket shows the orders as they were read. *)
SendToKds(c) ==
  /\ BeginPrintCall(c, [IdlePrintCall EXCEPT !.at = "queue", !.jobRow = [NoRow EXCEPT !.status = "pending", !.ticket = cooking]])
  /\ UNCHANGED <<printers, printJobs, rounds, cooking, printersMixed, mixed, removed, tally>>

QueuePrintJob(c) ==
  \E j \in PrintJobs :
    /\ PrintCallAt(c, "queue") /\ printJobs[j].status = "unqueued"
    /\ printJobs' = [printJobs EXCEPT ![j] = printCalls[c].jobRow]
    /\ MovePrintCall(c, IdlePrintCall)
    /\ UNCHANGED <<printers, rounds, cooking, printersMixed, mixed, removed, tally>>

(* Whatever its status, the job is printed, on one of the default printers. *)
PrintJob(c) ==
  \E j \in PrintJobs :
    /\ printJobs[j].status # "unqueued" /\ Defaults # {}
    /\ BeginPrintCall(c, [IdlePrintCall EXCEPT !.at = "print", !.job = j, !.jobRow = printJobs[j]])
    /\ mixed' = IF \E d \in PrintCalls : printCalls[d].job = j THEN mixed \cup {j} ELSE mixed
    /\ UNCHANGED <<printers, printJobs, rounds, cooking, printersMixed, removed, tally>>

TicketComesOut(c) ==
  LET me == printCalls[c]
  IN /\ PrintCallAt(c, "print")
     /\ tally' = [tally EXCEPT !.out[me.job] = @ + 1]
     /\ MovePrintCall(c, [me EXCEPT !.at = "saveJob", !.jobRow.status = "printed"])
     /\ UNCHANGED <<printers, printJobs, rounds, cooking, printersMixed, mixed, removed>>

TicketFails(c) ==
  LET me == printCalls[c]
  IN /\ PrintCallAt(c, "print")
     /\ tally' = [tally EXCEPT !.failed[me.job] = @ + 1]
     /\ MovePrintCall(c, [me EXCEPT !.at = "saveJob", !.jobRow.status = "failed", !.jobRow.retries = @ + 1])
     /\ UNCHANGED <<printers, printJobs, rounds, cooking, printersMixed, mixed, removed>>

SaveJob(c) ==
  LET me == printCalls[c]
  IN /\ PrintCallAt(c, "saveJob")
     /\ printJobs' = [printJobs EXCEPT ![me.job] = me.jobRow]
     /\ MovePrintCall(c, IdlePrintCall)
     /\ UNCHANGED <<printers, rounds, cooking, printersMixed, mixed, removed, tally>>

---------------------------------------------------------------------------
(* fireOrder; the orders are read together and updated one by one *)

Fires(c, o) == PrintCallAt(c, "fire") /\ printCalls[c].orders[o] > 0

FireOrder(c) ==
  \E asked \in SUBSET TabOrders \ {{}} :
    /\ BeginPrintCall(c, [IdlePrintCall EXCEPT !.at = "fire",
                            !.orders = [o \in TabOrders |-> IF o \in asked THEN rounds[o] ELSE 0]])
    /\ mixed' = mixed \cup { o \in asked : \E d \in PrintCalls : Fires(d, o) }
    /\ UNCHANGED <<printers, printJobs, rounds, cooking, printersMixed, removed, tally>>

UpdateRound(c) ==
  \E o \in TabOrders :
    LET left == [printCalls[c].orders EXCEPT ![o] = 0]
    IN /\ Fires(c, o)
       /\ rounds' = [rounds EXCEPT ![o] = printCalls[c].orders[o] + 1]
       /\ tally' = [tally EXCEPT !.fired[o] = @ + 1]
       /\ MovePrintCall(c, IF \A p \in TabOrders : left[p] = 0 THEN IdlePrintCall ELSE [printCalls[c] EXCEPT !.orders = left])
       /\ UNCHANGED <<printers, printJobs, cooking, printersMixed, mixed, removed>>

---------------------------------------------------------------------------
(* The kitchen delivers an order, or it is cancelled. *)
OrderLeavesKitchen ==
  \E o \in cooking :
    /\ cooking' = cooking \ {o}
    /\ UNCHANGED <<printers, printJobs, rounds, printCalls, printsBegun, printersMixed, mixed, removed, tally>>

(* The server stops between two steps of a request. *)
CutPrintCall(c) ==
  /\ ~PrintCallAt(c, "idle")
  /\ mixed' = IF PrintCallAt(c, "saveJob") THEN mixed \cup {printCalls[c].job} ELSE mixed
  /\ MovePrintCall(c, IdlePrintCall)
  /\ UNCHANGED <<printers, printJobs, rounds, cooking, printersMixed, removed, tally>>

PrintNext ==
  \/ \E c \in PrintCalls :
       \/ CreatePrinter(c) \/ UpdatePrinter(c) \/ RenamePrinter(c) \/ ClearDefaults(c) \/ SavePrinter(c)
       \/ FindPrinterToRemove(c) \/ RemovePrinter(c)
       \/ SendToKds(c) \/ QueuePrintJob(c) \/ PrintJob(c) \/ TicketComesOut(c) \/ TicketFails(c) \/ SaveJob(c)
       \/ FireOrder(c) \/ UpdateRound(c) \/ CutPrintCall(c)
  \/ OrderLeavesKitchen

PrintSpec == PrintInit /\ [][PrintNext]_printVars

---------------------------------------------------------------------------
(* Rows, requests and histories have their types. *)
PrintTypeOK ==
  /\ printers \in [Printers -> PrinterRow]
  /\ printJobs \in [PrintJobs -> JobRow]
  /\ rounds \in [TabOrders -> Nat] /\ cooking \subseteq TabOrders
  /\ \A c \in PrintCalls :
       /\ printCalls[c].at \in {"idle", "clear", "save", "remove", "queue", "print", "saveJob", "fire"}
       /\ printCalls[c].printer \in Printers \cup {NoPrinter} /\ printCalls[c].job \in PrintJobs \cup {NoJob}
  /\ printsBegun \in 0 .. MaxPrintCalls
  /\ mixed \subseteq PrintJobs \cup TabOrders /\ removed \subseteq Printers

(* Jobs go to one printer, and to none that was removed, unless two requests changed printers at once. *)
OneDefaultPrinter ==
  printersMixed \/ (Cardinality(Defaults) <= 1 /\ Listed \cap removed = {})

(* A job says printed where its ticket came out, and failed, with the tries counted, where it did not: the *)
(* last attempt tells; not so for a job two requests printed at once, or whose request stopped before the  *)
(* save.                                                                                                   *)
JobsTellTickets ==
  \A j \in PrintJobs :
    \/ j \in mixed
    \/ \E c \in PrintCalls : PrintCallAt(c, "saveJob") /\ printCalls[c].job = j
    \/ /\ printJobs[j].retries = tally.failed[j]
       /\ printJobs[j].status \in {"unqueued", "pending"} <=> tally.out[j] + tally.failed[j] = 0
       /\ printJobs[j].status = "printed" => tally.out[j] > 0

(* A round is counted once for every time an order was fired, unless two requests fired it at once. *)
RoundsAreCounted ==
  \A o \in TabOrders : rounds[o] = 1 + tally.fired[o] \/ o \in mixed

(* All three: what copies written back over one another, and stopped requests, may spoil, and nothing else. *)
PrintingAgrees == OneDefaultPrinter /\ JobsTellTickets /\ RoundsAreCounted

=============================================================================
