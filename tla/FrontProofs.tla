---------------------------- MODULE FrontProofs ----------------------------
(***************************************************************************)
(* What branches set up and guests are shown, proved for any number of     *)
(* printers, jobs, providers, codes, rows and requests in flight: printers *)
(* and print jobs (module Printing), the credential for terminals (module  *)
(* Credentials), the settings of the providers (module BranchSettings) and *)
(* the codes that lead a guest to his group (module Tracking).             *)
(***************************************************************************)
EXTENDS Printing, Credentials, BranchSettings, Tracking,
        FiniteSetTheorems, TLAPS

---------------------------------------------------------------------------
(***************************************************************************)
(* Printing.  While no two requests changed printers at once, the one that  *)
(* does works on a printer nobody removed, and finds no other default when  *)
(* it saves one.  A job no two requests print at once is in the hands of    *)
(* one, whose copy is the row until its ticket comes out or fails, and      *)
(* tells of the ticket after.  An order no two requests fire at once is in  *)
(* the hands of one, with the round it has.                                 *)
(***************************************************************************)

PrintCall ==
  [at: {"idle", "clear", "save", "remove", "queue", "print", "saveJob", "fire"},
   printer: Printers \cup {NoPrinter}, row: PrinterRow, default: BOOLEAN,
   job: PrintJobs \cup {NoJob}, jobRow: JobRow, orders: [TabOrders -> Nat]]

Tally == [out: [PrintJobs -> Nat], failed: [PrintJobs -> Nat], fired: [TabOrders -> Nat]]

CallShape(q) ==
  /\ q.at \in {"clear", "save", "remove"} => q.printer \in Printers
  /\ q.at \in {"print", "saveJob"} => q.job \in PrintJobs
  /\ q.at \notin {"print", "saveJob"} => q.job = NoJob
  /\ q.at = "queue" => q.jobRow.status = "pending" /\ q.jobRow.retries = 0
  /\ q.at = "saveJob" => q.jobRow.status \in {"printed", "failed"}

CallsShaped == \A c \in PrintCalls : CallShape(printCalls[c])

PrintTyped ==
  /\ printers \in [Printers -> PrinterRow] /\ printJobs \in [PrintJobs -> JobRow]
  /\ rounds \in [TabOrders -> Nat] /\ cooking \subseteq TabOrders
  /\ printCalls \in [PrintCalls -> PrintCall] /\ printsBegun \in 0 .. MaxPrintCalls
  /\ printersMixed \in BOOLEAN /\ mixed \subseteq PrintJobs \cup TabOrders /\ removed \subseteq Printers
  /\ tally \in Tally

(* The request that changes printers does so alone. *)
ChangesAlone ==
  /\ \A p, q \in Defaults : p = q
  /\ \A p \in removed : p \notin Listed
  /\ \A c \in PrintCalls : ChangesPrinters(c) =>
       /\ \A d \in PrintCalls : ChangesPrinters(d) => d = c
       /\ printCalls[c].at \in {"clear", "save"} => printCalls[c].printer \notin removed
       /\ printCalls[c].at = "save" /\ printCalls[c].default => Defaults \subseteq {printCalls[c].printer}

PrintersApart == (\A p \in removed : printers[p] # "unused") /\ (printersMixed \/ ChangesAlone)

(* A row of job j that tells what became of its tickets. *)
RowTells(row, j) ==
  /\ row.retries = tally.failed[j]
  /\ row.status \in {"unqueued", "pending"} <=> tally.out[j] + tally.failed[j] = 0
  /\ row.status = "printed" => tally.out[j] > 0

Saves(c, j) == printCalls[c].at = "saveJob" /\ printCalls[c].job = j

PrintedAlone(j) ==
  /\ \A c, d \in PrintCalls : printCalls[c].job = j /\ printCalls[d].job = j => c = d
  /\ \A c \in PrintCalls : Saves(c, j) => RowTells(printCalls[c].jobRow, j)
  /\ \A c \in PrintCalls :
       printCalls[c].at = "print" /\ printCalls[c].job = j => printCalls[c].jobRow = printJobs[j]
  /\ (\A c \in PrintCalls : ~Saves(c, j)) => RowTells(printJobs[j], j)

JobsTold ==
  \A j \in PrintJobs :
    /\ \A c \in PrintCalls : printCalls[c].job = j => printJobs[j].status # "unqueued"
    /\ j \in mixed \/ PrintedAlone(j)

FiredAlone(o) ==
  /\ rounds[o] = 1 + tally.fired[o]
  /\ \A c \in PrintCalls : Fires(c, o) => printCalls[c].orders[o] = rounds[o]
  /\ \A c, d \in PrintCalls : Fires(c, o) /\ Fires(d, o) => c = d

RoundsTold == \A o \in TabOrders : o \in mixed \/ FiredAlone(o)

PrintInv == PrintTyped /\ CallsShaped /\ PrintersApart /\ JobsTold /\ RoundsTold

---------------------------------------------------------------------------
LEMMA IdlePrintCallTyped ==
  /\ NoRow \in JobRow /\ NoRow.status = "unqueued" /\ NoRow.retries = 0
  /\ IdlePrintCall \in PrintCall /\ CallShape(IdlePrintCall)
  /\ IdlePrintCall.at = "idle" /\ IdlePrintCall.job = NoJob /\ IdlePrintCall.printer = NoPrinter
  /\ IdlePrintCall.jobRow = NoRow
<1>1. {} \in SUBSET TabOrders /\ 0 \in Nat /\ FALSE \in BOOLEAN
  OBVIOUS
<1>2. NoRow \in JobRow /\ NoRow.status = "unqueued" /\ NoRow.retries = 0
  BY <1>1 DEF NoRow, JobRow
<1>3. [o \in TabOrders |-> 0] \in [TabOrders -> Nat]
  OBVIOUS
<1>4. IdlePrintCall \in PrintCall
  BY <1>1, <1>2, <1>3 DEF IdlePrintCall, PrintCall, PrinterRow
<1>5. /\ IdlePrintCall.at = "idle" /\ IdlePrintCall.job = NoJob /\ IdlePrintCall.printer = NoPrinter
      /\ IdlePrintCall.jobRow = NoRow
  BY DEF IdlePrintCall
<1> QED
  BY <1>2, <1>4, <1>5 DEF CallShape

LEMMA PrintInitial == PrintInit => PrintInv
<1> SUFFICES ASSUME PrintInit PROVE PrintInv
  OBVIOUS
<1>1. /\ printers = [p \in Printers |-> "unused"] /\ printJobs = [j \in PrintJobs |-> NoRow]
      /\ rounds \in [TabOrders -> {1}] /\ cooking = TabOrders
      /\ printCalls = [c \in PrintCalls |-> IdlePrintCall] /\ printsBegun = 0
      /\ printersMixed = FALSE /\ mixed = {} /\ removed = {}
  BY DEF PrintInit
<1>2. /\ tally = [out |-> [j \in PrintJobs |-> 0], failed |-> [j \in PrintJobs |-> 0], fired |-> [o \in TabOrders |-> 0]]
  BY DEF PrintInit
<1>3. PICK f \in [PrintJobs -> Nat] : f = [j \in PrintJobs |-> 0]
  OBVIOUS
<1>4. PICK g \in [TabOrders -> Nat] : g = [o \in TabOrders |-> 0]
  OBVIOUS
<1>5. tally = [out |-> f, failed |-> f, fired |-> g]
  BY <1>2, <1>3, <1>4
<1>6. tally \in Tally /\ tally.out = f /\ tally.failed = f /\ tally.fired = g
  BY <1>5 DEF Tally
<1>7. /\ \A j \in PrintJobs : tally.out[j] = 0 /\ tally.failed[j] = 0
      /\ \A o \in TabOrders : tally.fired[o] = 0
  BY <1>3, <1>4, <1>6
<1>8. PrintTyped
  <2>1. 0 \in 0 .. MaxPrintCalls /\ "unused" \in PrinterRow
    BY PrintingAssumption DEF PrinterRow
  <2>2. rounds \in [TabOrders -> Nat]
    BY <1>1
  <2>3. printers \in [Printers -> PrinterRow] /\ printJobs \in [PrintJobs -> JobRow]
    BY <1>1, <2>1, IdlePrintCallTyped
  <2>4. printCalls \in [PrintCalls -> PrintCall]
    BY <1>1, IdlePrintCallTyped
  <2> QED
    BY <1>1, <1>6, <2>1, <2>2, <2>3, <2>4 DEF PrintTyped
<1>9. \A c \in PrintCalls : printCalls[c] = IdlePrintCall
  BY <1>1
<1>10. CallsShaped
  BY <1>9, IdlePrintCallTyped DEF CallsShaped
<1>11. PrintersApart
  <2>1. \A p \in Printers : printers[p] = "unused"
    BY <1>1
  <2> QED
    BY <1>1, <1>9, <2>1, IdlePrintCallTyped DEF PrintersApart, ChangesAlone, Defaults, Listed, ChangesPrinters
<1>12. JobsTold
  <2> SUFFICES ASSUME NEW j \in PrintJobs PROVE (\A c \in PrintCalls : printCalls[c].job # j) /\ PrintedAlone(j)
    BY DEF JobsTold
  <2>1. \A c \in PrintCalls : printCalls[c].job # j /\ printCalls[c].at = "idle"
    BY <1>9, IdlePrintCallTyped, PrintingAssumption
  <2>2. RowTells(printJobs[j], j)
    BY <1>1, <1>7, IdlePrintCallTyped DEF RowTells
  <2> QED
    BY <2>1, <2>2 DEF PrintedAlone, Saves
<1>13. RoundsTold
  <2> SUFFICES ASSUME NEW o \in TabOrders PROVE FiredAlone(o)
    BY DEF RoundsTold
  <2>1. rounds[o] = 1 /\ tally.fired[o] = 0
    BY <1>1, <1>7
  <2> QED
    BY <1>9, <2>1, IdlePrintCallTyped DEF FiredAlone, Fires, PrintCallAt
<1> QED
  BY <1>8, <1>10, <1>11, <1>12, <1>13 DEF PrintInv

---------------------------------------------------------------------------
(* What a step of one call leaves as it was. *)

LEMMA CallReplaced ==
  ASSUME PrintInv, NEW c \in PrintCalls, NEW call \in PrintCall, CallShape(call),
         printCalls' = [printCalls EXCEPT ![c] = call]
  PROVE  /\ printCalls' \in [PrintCalls -> PrintCall] /\ CallsShaped'
         /\ printCalls'[c] = call /\ \A d \in PrintCalls \ {c} : printCalls'[d] = printCalls[d]
<1>1. /\ printCalls' \in [PrintCalls -> PrintCall]
      /\ printCalls'[c] = call /\ \A d \in PrintCalls \ {c} : printCalls'[d] = printCalls[d]
  BY DEF PrintInv, PrintTyped
<1>2. ASSUME NEW d \in PrintCalls PROVE CallShape(printCalls'[d])
  <2>1. CASE d = c
    BY <1>1, <2>1
  <2>2. CASE d # c
    BY <1>1, <2>2 DEF PrintInv, CallsShaped
  <2> QED
    BY <2>1, <2>2
<1> QED
  BY <1>1, <1>2 DEF CallsShaped, CallShape

LEMMA PrintersStay ==
  ASSUME PrintInv, NEW c \in PrintCalls, NEW call \in PrintCall, call.at \notin {"clear", "save", "remove"},
         printCalls' = [printCalls EXCEPT ![c] = call], UNCHANGED <<printers, printersMixed, removed>>
  PROVE  PrintersApart'
<1>1. \A d \in PrintCalls : ChangesPrinters(d)' => ChangesPrinters(d) /\ printCalls'[d] = printCalls[d]
  BY DEF PrintInv, PrintTyped, ChangesPrinters
<1>2. ChangesAlone => ChangesAlone'
  BY <1>1 DEF ChangesAlone, Defaults, Listed
<1> QED
  BY <1>2 DEF PrintInv, PrintersApart

LEMMA JobsStay ==
  ASSUME PrintInv, NEW c \in PrintCalls, NEW call \in PrintCall, call.job = NoJob, CallShape(call),
         printCalls[c].at = "saveJob" => printCalls[c].job \in mixed',
         printCalls' = [printCalls EXCEPT ![c] = call], UNCHANGED printJobs,
         tally'.out = tally.out, tally'.failed = tally.failed, mixed \subseteq mixed'
  PROVE  JobsTold'
<1>1. /\ printCalls'[c] = call /\ \A d \in PrintCalls \ {c} : printCalls'[d] = printCalls[d]
      /\ NoJob \notin PrintJobs
  BY PrintingAssumption DEF PrintInv, PrintTyped
<1> SUFFICES ASSUME NEW j \in PrintJobs
             PROVE  /\ \A d \in PrintCalls : printCalls'[d].job = j => printJobs[j].status # "unqueued"
                    /\ j \in mixed' \/ PrintedAlone(j)'
  BY DEF JobsTold
<1>2. \A d \in PrintCalls : printCalls'[d].job = j => printCalls'[d] = printCalls[d]
  BY <1>1
<1>3. \A d \in PrintCalls : printCalls'[d].job = j => printJobs[j].status # "unqueued"
  BY <1>2 DEF PrintInv, JobsTold
<1>4. ASSUME j \notin mixed' PROVE PrintedAlone(j)'
  <2>1. PrintedAlone(j)
    BY <1>4 DEF PrintInv, JobsTold
  <2>2. \A d \in PrintCalls : Saves(d, j)' <=> Saves(d, j)
    BY <1>1, <1>4 DEF Saves
  <2> QED
    BY <1>2, <2>1, <2>2 DEF PrintedAlone, RowTells, Saves
<1> QED
  BY <1>3, <1>4

LEMMA RoundsStay ==
  ASSUME PrintInv, NEW c \in PrintCalls, NEW call \in PrintCall, call.at # "fire",
         printCalls' = [printCalls EXCEPT ![c] = call], UNCHANGED rounds,
         tally'.fired = tally.fired, mixed \subseteq mixed'
  PROVE  RoundsTold'
<1>1. \A d \in PrintCalls, o \in TabOrders : Fires(d, o)' => Fires(d, o) /\ printCalls'[d] = printCalls[d]
  BY DEF PrintInv, PrintTyped, Fires, PrintCallAt
<1>2. \A o \in TabOrders : FiredAlone(o) => FiredAlone(o)'
  BY <1>1 DEF FiredAlone
<1> QED
  BY <1>2 DEF PrintInv, RoundsTold

(* A step that replaces a call by one that neither changes printers nor holds a job or orders. *)
LEMMA CallEnds ==
  ASSUME PrintInv, NEW c \in PrintCalls, NEW call \in PrintCall, CallShape(call),
         call.at \in {"idle", "queue"},
         printCalls[c].at = "saveJob" => printCalls[c].job \in mixed',
         printCalls' = [printCalls EXCEPT ![c] = call], printsBegun' \in 0 .. MaxPrintCalls,
         mixed \subseteq mixed', mixed' \subseteq PrintJobs \cup TabOrders,
         UNCHANGED <<printers, printJobs, rounds, cooking, printersMixed, removed, tally>>
  PROVE  PrintInv'
<1>1. printCalls' \in [PrintCalls -> PrintCall] /\ CallsShaped'
  BY CallReplaced
<1>2. call.job = NoJob
  BY DEF CallShape
<1>3. PrintersApart' /\ JobsTold' /\ RoundsTold'
  BY <1>2, PrintersStay, JobsStay, RoundsStay
<1>4. PrintTyped'
  BY <1>1 DEF PrintInv, PrintTyped
<1> QED
  BY <1>1, <1>3, <1>4 DEF PrintInv

LEMMA PrintsCounted ==
  ASSUME PrintInv, NEW c \in PrintCalls, NEW call, BeginPrintCall(c, call)
  PROVE  printsBegun' \in 0 .. MaxPrintCalls /\ printCalls[c].at = "idle" /\ printCalls[c].job = NoJob
         /\ printCalls' = [printCalls EXCEPT ![c] = call]
  BY PrintingAssumption DEF BeginPrintCall, PrintInv, PrintTyped, PrintCallAt, CallsShaped, CallShape

---------------------------------------------------------------------------
(* create, update, remove *)

LEMMA ChangeBegins ==
  ASSUME PrintInv, NEW c \in PrintCalls, NEW call \in PrintCall, CallShape(call),
         call.at \in {"clear", "save", "remove"}, BeginPrinterChange(c, call),
         call.at \in {"clear", "save"} /\ ChangesAlone => call.printer \notin removed,
         call.at = "save" /\ call.default /\ ChangesAlone => Defaults \subseteq {call.printer},
         UNCHANGED <<printers, printJobs, rounds, cooking, mixed, removed, tally>>
  PROVE  PrintInv'
<1>1. /\ printsBegun' \in 0 .. MaxPrintCalls /\ printCalls[c].at = "idle"
      /\ printCalls' = [printCalls EXCEPT ![c] = call]
  BY PrintsCounted DEF BeginPrinterChange
<1>2. /\ printCalls' \in [PrintCalls -> PrintCall] /\ CallsShaped'
      /\ printCalls'[c] = call /\ \A d \in PrintCalls \ {c} : printCalls'[d] = printCalls[d]
  BY <1>1, CallReplaced
<1>3. JobsTold' /\ RoundsTold'
  BY <1>1, JobsStay, RoundsStay DEF CallShape
<1>4. printersMixed' \in BOOLEAN /\ (~printersMixed' => ~printersMixed /\ \A d \in PrintCalls : ~ChangesPrinters(d))
  BY DEF BeginPrinterChange, PrintInv, PrintTyped
<1>5. ASSUME ~printersMixed' PROVE ChangesAlone'
  <2>1. ChangesAlone /\ Defaults' = Defaults /\ Listed' = Listed /\ removed' = removed
    BY <1>4, <1>5 DEF PrintInv, PrintersApart, Defaults, Listed
  <2>2. \A d \in PrintCalls : ChangesPrinters(d)' => d = c
    BY <1>2, <1>4, <1>5 DEF ChangesPrinters
  <2> QED
    BY <1>2, <2>1, <2>2 DEF ChangesAlone
<1>6. PrintersApart'
  BY <1>5 DEF PrintersApart, PrintInv
<1>7. PrintTyped'
  BY <1>1, <1>2, <1>4 DEF PrintInv, PrintTyped
<1> QED
  BY <1>2, <1>3, <1>6, <1>7 DEF PrintInv

LEMMA PrinterCreated == ASSUME PrintInv, NEW c \in PrintCalls, CreatePrinter(c) PROVE PrintInv'
<1>1. PICK p \in Printers, default \in BOOLEAN :
        /\ printers[p] = "unused"
        /\ BeginPrinterChange(c, [IdlePrintCall EXCEPT !.at = IF default THEN "clear" ELSE "save", !.printer = p,
                                                       !.row = "plain", !.default = default])
        /\ UNCHANGED <<printers, printJobs, rounds, cooking, mixed, removed, tally>>
  BY DEF CreatePrinter
<1>2. PICK at : at = IF default THEN "clear" ELSE "save"
  OBVIOUS
<1>3. PICK call : call = [IdlePrintCall EXCEPT !.at = at, !.printer = p, !.row = "plain", !.default = default]
  OBVIOUS
<1>4. at \in {"clear", "save"} /\ (at = "save" => ~default) /\ "plain" \in PrinterRow
  BY <1>2 DEF PrinterRow
<1>5. call \in PrintCall /\ CallShape(call) /\ call.at = at /\ call.printer = p /\ call.default = default
  <2>1. /\ call \in PrintCall /\ call.at = at /\ call.printer = p /\ call.job = NoJob
        /\ call.default = default
    BY <1>3, <1>4, IdlePrintCallTyped DEF PrintCall
  <2> QED
    BY <1>3, <1>4, <2>1 DEF CallShape
<1>6. p \notin removed
  BY <1>1 DEF PrintInv, PrintersApart
<1>7. BeginPrinterChange(c, call)
  BY <1>1, <1>2, <1>3
<1> QED
  BY <1>1, <1>4, <1>5, <1>6, <1>7, ChangeBegins

LEMMA PrinterUpdated == ASSUME PrintInv, NEW c \in PrintCalls, UpdatePrinter(c) PROVE PrintInv'
<1>1. PICK p \in Listed, default \in BOOLEAN :
        /\ BeginPrinterChange(c, [IdlePrintCall EXCEPT !.at = IF default /\ printers[p] # "default" THEN "clear" ELSE "save",
                                                       !.printer = p, !.row = printers[p], !.default = default])
        /\ UNCHANGED <<printers, printJobs, rounds, cooking, mixed, removed, tally>>
  BY DEF UpdatePrinter
<1>2. p \in Printers
  BY DEF Listed
<1>3. PICK row \in PrinterRow : row = printers[p]
  BY <1>2 DEF PrintInv, PrintTyped
<1>4. PICK at : at = IF default /\ row # "default" THEN "clear" ELSE "save"
  OBVIOUS
<1>5. PICK call : call = [IdlePrintCall EXCEPT !.at = at, !.printer = p, !.row = row, !.default = default]
  OBVIOUS
<1>6. at \in {"clear", "save"} /\ (at = "save" /\ default => row = "default")
  BY <1>4
<1>7. call \in PrintCall /\ CallShape(call) /\ call.at = at /\ call.printer = p /\ call.default = default
  <2>1. /\ call \in PrintCall /\ call.at = at /\ call.printer = p /\ call.job = NoJob
        /\ call.default = default
    BY <1>2, <1>5, <1>6, IdlePrintCallTyped DEF PrintCall
  <2> QED
    BY <1>2, <1>5, <1>6, <2>1 DEF CallShape
<1>8. ASSUME ChangesAlone PROVE p \notin removed /\ (at = "save" /\ default => Defaults \subseteq {p})
  BY <1>2, <1>3, <1>6, <1>8 DEF ChangesAlone, Defaults
<1>9. BeginPrinterChange(c, call)
  BY <1>1, <1>3, <1>4, <1>5
<1> QED
  BY <1>1, <1>6, <1>7, <1>8, <1>9, ChangeBegins

LEMMA PrinterRenamed == ASSUME PrintInv, NEW c \in PrintCalls, RenamePrinter(c) PROVE PrintInv'
<1>1. PICK p \in Listed :
        /\ BeginPrinterChange(c, [IdlePrintCall EXCEPT !.at = "save", !.printer = p, !.row = printers[p],
                                                       !.default = printers[p] = "default"])
        /\ UNCHANGED <<printers, printJobs, rounds, cooking, mixed, removed, tally>>
  BY DEF RenamePrinter
<1>2. p \in Printers
  BY DEF Listed
<1>3. PICK row \in PrinterRow : row = printers[p]
  BY <1>2 DEF PrintInv, PrintTyped
<1>4. PICK default \in BOOLEAN : default = (row = "default")
  OBVIOUS
<1>5. PICK call : call = [IdlePrintCall EXCEPT !.at = "save", !.printer = p, !.row = row, !.default = default]
  OBVIOUS
<1>6. default => row = "default"
  BY <1>4
<1>7. call \in PrintCall /\ CallShape(call) /\ call.at = "save" /\ call.printer = p /\ call.default = default
  <2>1. /\ call \in PrintCall /\ call.at = "save" /\ call.printer = p /\ call.job = NoJob
        /\ call.default = default
    BY <1>2, <1>5, IdlePrintCallTyped DEF PrintCall
  <2> QED
    BY <1>2, <1>5, <2>1 DEF CallShape
<1>8. ASSUME ChangesAlone PROVE p \notin removed /\ (default => Defaults \subseteq {p})
  BY <1>2, <1>3, <1>6, <1>8 DEF ChangesAlone, Defaults
<1>9. BeginPrinterChange(c, call)
  BY <1>1, <1>3, <1>4, <1>5
<1> QED
  BY <1>1, <1>7, <1>8, <1>9, ChangeBegins

LEMMA PrinterToRemoveFound == ASSUME PrintInv, NEW c \in PrintCalls, FindPrinterToRemove(c) PROVE PrintInv'
<1>1. PICK p \in Listed :
        /\ BeginPrinterChange(c, [IdlePrintCall EXCEPT !.at = "remove", !.printer = p])
        /\ UNCHANGED <<printers, printJobs, rounds, cooking, mixed, removed, tally>>
  BY DEF FindPrinterToRemove
<1>2. PICK call : call = [IdlePrintCall EXCEPT !.at = "remove", !.printer = p]
  OBVIOUS
<1>3. p \in Printers
  BY DEF Listed
<1>4. call \in PrintCall /\ call.at = "remove" /\ call.printer = p /\ call.job = NoJob
  BY <1>2, <1>3, IdlePrintCallTyped DEF PrintCall
<1>5. CallShape(call)
  BY <1>3, <1>4 DEF CallShape
<1> QED
  BY <1>1, <1>2, <1>4, <1>5, ChangeBegins

LEMMA DefaultsCleared == ASSUME PrintInv, NEW c \in PrintCalls, ClearDefaults(c) PROVE PrintInv'
<1>1. PICK me \in PrintCall : me = printCalls[c]
  BY DEF PrintInv, PrintTyped
<1>2. PICK call : call = [me EXCEPT !.at = "save"]
  OBVIOUS
<1>3. /\ me.at = "clear" /\ printers' = Cleared /\ printCalls' = [printCalls EXCEPT ![c] = call]
      /\ UNCHANGED <<printJobs, rounds, cooking, printersMixed, mixed, removed, tally, printsBegun>>
  BY <1>1, <1>2 DEF ClearDefaults, MovePrintCall, PrintCallAt
<1>4. CallShape(me)
  BY <1>1 DEF PrintInv, CallsShaped
<1>5. call \in PrintCall /\ call.at = "save" /\ call.printer = me.printer /\ call.job = NoJob /\ CallShape(call)
  <2>1. call \in PrintCall /\ call.at = "save" /\ call.printer = me.printer /\ call.job = me.job
    BY <1>2 DEF PrintCall
  <2> QED
    BY <1>3, <1>4, <2>1 DEF CallShape
<1>6. /\ printCalls' \in [PrintCalls -> PrintCall] /\ CallsShaped'
      /\ printCalls'[c] = call /\ \A d \in PrintCalls \ {c} : printCalls'[d] = printCalls[d]
  BY <1>3, <1>5, CallReplaced
<1>7. JobsTold' /\ RoundsTold'
  BY <1>1, <1>3, <1>5, JobsStay, RoundsStay
<1>8. /\ printers' \in [Printers -> PrinterRow] /\ Defaults' = {} /\ Listed' = Listed
      /\ \A p \in Printers : printers[p] # "unused" => printers'[p] # "unused"
  <2>1. printers' = [p \in Printers |-> IF printers[p] = "default" THEN "plain" ELSE printers[p]]
    BY <1>3 DEF Cleared
  <2>2. \A p \in Printers : printers'[p] = IF printers[p] = "default" THEN "plain" ELSE printers[p]
    BY <2>1
  <2>3. printers' \in [Printers -> PrinterRow]
    BY <2>1 DEF PrintInv, PrintTyped, PrinterRow
  <2> QED
    BY <2>2, <2>3 DEF Defaults, Listed
<1>9. ASSUME ChangesAlone PROVE ChangesAlone'
  <2>1. \A d \in PrintCalls : ChangesPrinters(d) <=> ChangesPrinters(d)'
    BY <1>1, <1>3, <1>5, <1>6 DEF ChangesPrinters
  <2>2. \A d \in PrintCalls : ChangesPrinters(d) => d = c
    BY <1>1, <1>3, <1>9 DEF ChangesAlone, ChangesPrinters
  <2>3. call.printer \notin removed
    BY <1>1, <1>3, <1>5, <1>9 DEF ChangesAlone, ChangesPrinters
  <2> QED
    BY <1>3, <1>6, <1>8, <1>9, <2>1, <2>2, <2>3 DEF ChangesAlone
<1>10. PrintersApart'
  BY <1>3, <1>8, <1>9 DEF PrintersApart, PrintInv, PrintTyped
<1>11. PrintTyped'
  BY <1>3, <1>6, <1>8 DEF PrintInv, PrintTyped
<1> QED
  BY <1>6, <1>7, <1>10, <1>11 DEF PrintInv

LEMMA PrinterSaved == ASSUME PrintInv, NEW c \in PrintCalls, SavePrinter(c) PROVE PrintInv'
<1>1. PICK me \in PrintCall : me = printCalls[c]
  BY DEF PrintInv, PrintTyped
<1>2. PICK p \in Printers : p = me.printer /\ me.at = "save"
  BY <1>1 DEF PrintInv, CallsShaped, CallShape, SavePrinter, PrintCallAt
<1>3. PICK row \in {"default", "plain"} : row = IF me.default THEN "default" ELSE "plain"
  OBVIOUS
<1>4. /\ printers' = [printers EXCEPT ![p] = row] /\ printCalls' = [printCalls EXCEPT ![c] = IdlePrintCall]
      /\ UNCHANGED <<printJobs, rounds, cooking, printersMixed, mixed, removed, tally, printsBegun>>
  BY <1>1, <1>2, <1>3 DEF SavePrinter, MovePrintCall
<1>5. /\ printCalls' \in [PrintCalls -> PrintCall] /\ CallsShaped'
      /\ printCalls'[c] = IdlePrintCall /\ \A d \in PrintCalls \ {c} : printCalls'[d] = printCalls[d]
  BY <1>4, CallReplaced, IdlePrintCallTyped
<1>6. JobsTold' /\ RoundsTold'
  BY <1>1, <1>2, <1>4, JobsStay, RoundsStay, IdlePrintCallTyped
<1>7. /\ printers' \in [Printers -> PrinterRow] /\ printers'[p] = row
      /\ \A q \in Printers \ {p} : printers'[q] = printers[q]
  BY <1>4 DEF PrintInv, PrintTyped, PrinterRow
<1>8. ASSUME ChangesAlone PROVE ChangesAlone'
  <2>1. /\ p \notin removed /\ (me.default => Defaults \subseteq {p})
        /\ \A d \in PrintCalls : ChangesPrinters(d) => d = c
    BY <1>1, <1>2, <1>8 DEF ChangesAlone, ChangesPrinters
  <2>2. \A d \in PrintCalls : ~ChangesPrinters(d)'
    BY <1>5, <2>1, IdlePrintCallTyped DEF ChangesPrinters
  <2>3. \A x, y \in Defaults' : x = y
    <3>1. CASE me.default
      BY <1>7, <2>1, <3>1 DEF Defaults
    <3>2. CASE ~me.default
      <4>1. Defaults' \subseteq Defaults
        BY <1>3, <1>7, <3>2 DEF Defaults
      <4> QED
        BY <1>8, <4>1 DEF ChangesAlone
    <3> QED
      BY <3>1, <3>2
  <2>4. \A x \in removed' : x \notin Listed'
    BY <1>4, <1>7, <1>8, <2>1 DEF ChangesAlone, Listed
  <2> QED
    BY <2>2, <2>3, <2>4 DEF ChangesAlone
<1>9. PrintersApart'
  <2>1. \A x \in removed' : printers'[x] # "unused"
    BY <1>3, <1>4, <1>7 DEF PrintersApart, PrintInv, PrintTyped
  <2> QED
    BY <1>4, <1>8, <2>1 DEF PrintersApart, PrintInv
<1>10. PrintTyped'
  BY <1>4, <1>5, <1>7 DEF PrintInv, PrintTyped
<1> QED
  BY <1>5, <1>6, <1>9, <1>10 DEF PrintInv

LEMMA PrinterRemoved == ASSUME PrintInv, NEW c \in PrintCalls, RemovePrinter(c) PROVE PrintInv'
<1>1. PICK me \in PrintCall : me = printCalls[c]
  BY DEF PrintInv, PrintTyped
<1>2. PICK p \in Printers : p = me.printer /\ me.at = "remove"
  BY <1>1 DEF PrintInv, CallsShaped, CallShape, RemovePrinter, PrintCallAt
<1>3. /\ printers' = [printers EXCEPT ![p] = "absent"] /\ printCalls' = [printCalls EXCEPT ![c] = IdlePrintCall]
      /\ removed' = removed \cup {p}
      /\ UNCHANGED <<printJobs, rounds, cooking, printersMixed, mixed, tally, printsBegun>>
  BY <1>1, <1>2 DEF RemovePrinter, MovePrintCall
<1>4. /\ printCalls' \in [PrintCalls -> PrintCall] /\ CallsShaped'
      /\ printCalls'[c] = IdlePrintCall /\ \A d \in PrintCalls \ {c} : printCalls'[d] = printCalls[d]
  BY <1>3, CallReplaced, IdlePrintCallTyped
<1>5. JobsTold' /\ RoundsTold'
  BY <1>1, <1>2, <1>3, JobsStay, RoundsStay, IdlePrintCallTyped
<1>6. /\ printers' \in [Printers -> PrinterRow] /\ printers'[p] = "absent"
      /\ \A q \in Printers \ {p} : printers'[q] = printers[q]
  BY <1>3 DEF PrintInv, PrintTyped, PrinterRow
<1>7. ASSUME ChangesAlone PROVE ChangesAlone'
  <2>1. \A d \in PrintCalls : ChangesPrinters(d) => d = c
    BY <1>1, <1>2, <1>7 DEF ChangesAlone, ChangesPrinters
  <2>2. \A d \in PrintCalls : ~ChangesPrinters(d)'
    BY <1>4, <2>1, IdlePrintCallTyped DEF ChangesPrinters
  <2>3. Defaults' \subseteq Defaults /\ Listed' \subseteq Listed \ {p}
    BY <1>6 DEF Defaults, Listed
  <2> QED
    BY <1>3, <1>7, <2>2, <2>3 DEF ChangesAlone
<1>8. PrintersApart'
  <2>1. \A x \in removed' : printers'[x] # "unused"
    BY <1>3, <1>6 DEF PrintersApart, PrintInv, PrintTyped
  <2> QED
    BY <1>3, <1>7, <2>1 DEF PrintersApart, PrintInv
<1>9. PrintTyped'
  BY <1>3, <1>4, <1>6 DEF PrintInv, PrintTyped
<1> QED
  BY <1>4, <1>5, <1>8, <1>9 DEF PrintInv

---------------------------------------------------------------------------
(* sendToKds and printJob *)

LEMMA TicketTaken == ASSUME PrintInv, NEW c \in PrintCalls, SendToKds(c) PROVE PrintInv'
<1>1. PICK row : row = [NoRow EXCEPT !.status = "pending", !.ticket = cooking]
  OBVIOUS
<1>2. row \in JobRow /\ row.status = "pending" /\ row.retries = 0
  BY <1>1, IdlePrintCallTyped DEF JobRow, PrintInv, PrintTyped
<1>3. PICK call : call = [IdlePrintCall EXCEPT !.at = "queue", !.jobRow = row]
  OBVIOUS
<1>4. call \in PrintCall /\ call.at = "queue" /\ call.job = NoJob /\ call.jobRow = row
  BY <1>2, <1>3, IdlePrintCallTyped DEF PrintCall
<1>5. CallShape(call)
  BY <1>2, <1>4 DEF CallShape
<1>6. BeginPrintCall(c, call) /\ UNCHANGED <<printers, printJobs, rounds, cooking, printersMixed, mixed, removed, tally>>
  BY <1>1, <1>3 DEF SendToKds
<1>7. /\ printsBegun' \in 0 .. MaxPrintCalls /\ printCalls[c].at = "idle"
      /\ printCalls' = [printCalls EXCEPT ![c] = call] /\ mixed' \subseteq PrintJobs \cup TabOrders
  BY <1>6, PrintsCounted DEF PrintInv, PrintTyped
<1> QED
  BY <1>4, <1>5, <1>6, <1>7, CallEnds

LEMMA JobQueued == ASSUME PrintInv, NEW c \in PrintCalls, QueuePrintJob(c) PROVE PrintInv'
<1>1. PICK me \in PrintCall : me = printCalls[c]
  BY DEF PrintInv, PrintTyped
<1>2. PICK j \in PrintJobs :
        /\ me.at = "queue" /\ printJobs[j].status = "unqueued"
        /\ printJobs' = [printJobs EXCEPT ![j] = me.jobRow]
        /\ printCalls' = [printCalls EXCEPT ![c] = IdlePrintCall]
        /\ UNCHANGED <<printers, rounds, cooking, printersMixed, mixed, removed, tally, printsBegun>>
  BY <1>1 DEF QueuePrintJob, MovePrintCall, PrintCallAt
<1>3. PICK row \in JobRow : row = me.jobRow
  BY DEF PrintCall
<1>4. row.status = "pending" /\ row.retries = 0 /\ me.job = NoJob /\ NoJob \notin PrintJobs
  BY <1>1, <1>2, <1>3, PrintingAssumption DEF PrintInv, CallsShaped, CallShape
<1>5. /\ printCalls' \in [PrintCalls -> PrintCall] /\ CallsShaped'
      /\ printCalls'[c] = IdlePrintCall /\ \A d \in PrintCalls \ {c} : printCalls'[d] = printCalls[d]
  BY <1>2, CallReplaced, IdlePrintCallTyped
<1>6. PrintersApart' /\ RoundsTold'
  BY <1>2, PrintersStay, RoundsStay, IdlePrintCallTyped
<1>7. /\ printJobs' \in [PrintJobs -> JobRow] /\ printJobs'[j] = row
      /\ \A k \in PrintJobs \ {j} : printJobs'[k] = printJobs[k]
  BY <1>2, <1>3 DEF PrintInv, PrintTyped
<1>8. \A d \in PrintCalls : printCalls[d].job # j
  BY <1>2 DEF PrintInv, JobsTold
<1>9. \A d \in PrintCalls, k \in PrintJobs : printCalls'[d].job = k => printCalls'[d] = printCalls[d] /\ k # j
  BY <1>4, <1>5, <1>8, IdlePrintCallTyped
<1>10. \A d \in PrintCalls, k \in PrintJobs : Saves(d, k)' <=> Saves(d, k)
  BY <1>1, <1>2, <1>5, IdlePrintCallTyped DEF Saves
<1>11. JobsTold'
  <2> SUFFICES ASSUME NEW k \in PrintJobs
               PROVE  /\ \A d \in PrintCalls : printCalls'[d].job = k => printJobs'[k].status # "unqueued"
                      /\ k \in mixed' \/ PrintedAlone(k)'
    BY DEF JobsTold
  <2>1. \A d \in PrintCalls : printCalls'[d].job = k => printJobs'[k].status # "unqueued"
    BY <1>7, <1>9 DEF PrintInv, JobsTold
  <2>2. CASE k = j
    <3>1. ASSUME j \notin mixed PROVE RowTells(row, j)'
      <4>1. RowTells(printJobs[j], j)
        BY <1>8, <3>1 DEF PrintInv, JobsTold, PrintedAlone, Saves
      <4>2. tally.out[j] \in Nat /\ tally.failed[j] \in Nat
        BY DEF PrintInv, PrintTyped, Tally
      <4>3. tally.out[j] + tally.failed[j] = 0
        BY <1>2, <4>1 DEF RowTells
      <4>4. tally.failed[j] = 0
        BY <4>2, <4>3
      <4>5. tally' = tally
        BY <1>2
      <4> QED
        BY <1>4, <4>3, <4>4, <4>5 DEF RowTells
    <3>2. ASSUME j \notin mixed PROVE PrintedAlone(j)'
      BY <1>7, <1>9, <3>1, <3>2 DEF PrintedAlone, Saves
    <3> QED
      BY <1>2, <2>1, <2>2, <3>2
  <2>3. CASE k # j
    <3>1. ASSUME k \notin mixed PROVE PrintedAlone(k)'
      <4>1. PrintedAlone(k) /\ tally' = tally /\ printJobs'[k] = printJobs[k]
        BY <1>2, <1>7, <2>3, <3>1 DEF PrintInv, JobsTold
      <4> QED
        BY <1>9, <1>10, <4>1 DEF PrintedAlone, RowTells, Saves
    <3> QED
      BY <1>2, <2>1, <3>1
  <2> QED
    BY <2>2, <2>3
<1>12. PrintTyped'
  BY <1>2, <1>5, <1>7 DEF PrintInv, PrintTyped
<1> QED
  BY <1>5, <1>6, <1>11, <1>12 DEF PrintInv

LEMMA JobPrints == ASSUME PrintInv, NEW c \in PrintCalls, PrintJob(c) PROVE PrintInv'
<1>1. PICK j \in PrintJobs :
        /\ printJobs[j].status # "unqueued"
        /\ BeginPrintCall(c, [IdlePrintCall EXCEPT !.at = "print", !.job = j, !.jobRow = printJobs[j]])
        /\ mixed' = IF \E d \in PrintCalls : printCalls[d].job = j THEN mixed \cup {j} ELSE mixed
        /\ UNCHANGED <<printers, printJobs, rounds, cooking, printersMixed, removed, tally>>
  BY DEF PrintJob
<1>2. PICK row \in JobRow : row = printJobs[j]
  BY DEF PrintInv, PrintTyped
<1>3. PICK call : call = [IdlePrintCall EXCEPT !.at = "print", !.job = j, !.jobRow = row]
  OBVIOUS
<1>4. call \in PrintCall /\ call.at = "print" /\ call.job = j /\ call.jobRow = row
  BY <1>3, IdlePrintCallTyped DEF PrintCall
<1>5. CallShape(call)
  BY <1>4 DEF CallShape
<1>6. /\ printsBegun' \in 0 .. MaxPrintCalls /\ printCalls[c].at = "idle" /\ printCalls[c].job = NoJob
      /\ printCalls' = [printCalls EXCEPT ![c] = call]
  BY <1>1, <1>2, <1>3, PrintsCounted
<1>7. /\ printCalls' \in [PrintCalls -> PrintCall] /\ CallsShaped'
      /\ printCalls'[c] = call /\ \A d \in PrintCalls \ {c} : printCalls'[d] = printCalls[d]
  BY <1>4, <1>5, <1>6, CallReplaced
<1>8. mixed \subseteq mixed' /\ mixed' \subseteq PrintJobs \cup TabOrders
  BY <1>1 DEF PrintInv, PrintTyped
<1>9. PrintersApart' /\ RoundsTold'
  BY <1>1, <1>4, <1>6, <1>8, PrintersStay, RoundsStay
<1>10. JobsTold'
  <2> SUFFICES ASSUME NEW k \in PrintJobs
               PROVE  /\ \A d \in PrintCalls : printCalls'[d].job = k => printJobs[k].status # "unqueued"
                      /\ k \in mixed' \/ PrintedAlone(k)'
    BY <1>1 DEF JobsTold
  <2>1. \A d \in PrintCalls : printCalls'[d].job = k => printJobs[k].status # "unqueued"
    BY <1>1, <1>4, <1>7 DEF PrintInv, JobsTold
  <2>2. \A d \in PrintCalls : Saves(d, k)' <=> Saves(d, k)
    BY <1>4, <1>6, <1>7 DEF Saves
  <2>3. ASSUME k \notin mixed', k = j PROVE PrintedAlone(k)'
    <3>1. \A d \in PrintCalls : printCalls[d].job # j
      BY <1>1, <2>3
    <3>2. PrintedAlone(j)
      BY <1>8, <2>3 DEF PrintInv, JobsTold
    <3>3. \A d \in PrintCalls : printCalls'[d].job = j => d = c
      BY <1>7, <3>1
    <3> QED
      BY <1>1, <1>2, <1>4, <1>7, <2>2, <2>3, <3>1, <3>2, <3>3 DEF PrintedAlone, RowTells, Saves
  <2>4. ASSUME k \notin mixed', k # j PROVE PrintedAlone(k)'
    <3>1. PrintedAlone(k)
      BY <1>8, <2>4 DEF PrintInv, JobsTold
    <3>2. \A d \in PrintCalls : printCalls'[d].job = k => printCalls'[d] = printCalls[d]
      BY <1>4, <1>7, <2>4
    <3> QED
      BY <1>1, <2>2, <3>1, <3>2 DEF PrintedAlone, RowTells, Saves
  <2> QED
    BY <2>1, <2>3, <2>4
<1>11. PrintTyped'
  BY <1>1, <1>6, <1>7, <1>8 DEF PrintInv, PrintTyped
<1> QED
  BY <1>7, <1>9, <1>10, <1>11 DEF PrintInv

(* The ticket of j came out or failed: what the call holds now tells of it. *)
LEMMA TicketTold ==
  ASSUME PrintInv, NEW c \in PrintCalls, NEW j \in PrintJobs, NEW row \in JobRow, NEW call \in PrintCall,
         printCalls[c].at = "print", printCalls[c].job = j,
         call.at = "saveJob", call.job = j, call.jobRow = row, row.status \in {"printed", "failed"},
         printCalls' = [printCalls EXCEPT ![c] = call],
         tally' \in Tally, tally'.fired = tally.fired,
         \A k \in PrintJobs \ {j} : tally'.out[k] = tally.out[k] /\ tally'.failed[k] = tally.failed[k],
         PrintedAlone(j) => RowTells(row, j)',
         UNCHANGED <<printers, printJobs, rounds, cooking, printersMixed, mixed, removed, printsBegun>>
  PROVE  PrintInv'
<1>1. CallShape(call)
  BY DEF CallShape
<1>2. /\ printCalls' \in [PrintCalls -> PrintCall] /\ CallsShaped'
      /\ printCalls'[c] = call /\ \A d \in PrintCalls \ {c} : printCalls'[d] = printCalls[d]
  BY <1>1, CallReplaced
<1>3. PrintersApart' /\ RoundsTold'
  BY PrintersStay, RoundsStay
<1>4. JobsTold'
  <2> SUFFICES ASSUME NEW k \in PrintJobs
               PROVE  /\ \A d \in PrintCalls : printCalls'[d].job = k => printJobs[k].status # "unqueued"
                      /\ k \in mixed \/ PrintedAlone(k)'
    BY DEF JobsTold
  <2>1. \A d \in PrintCalls : printCalls'[d].job = printCalls[d].job
    BY <1>2
  <2>2. \A d \in PrintCalls : printCalls'[d].job = k => printJobs[k].status # "unqueued"
    BY <2>1 DEF PrintInv, JobsTold
  <2>3. ASSUME k \notin mixed, k = j PROVE PrintedAlone(k)'
    <3>1. PrintedAlone(j)
      BY <2>3 DEF PrintInv, JobsTold
    <3>2. \A d \in PrintCalls : printCalls'[d].job = j => d = c
      BY <2>1, <3>1 DEF PrintedAlone
    <3>3. Saves(c, j)' /\ RowTells(row, j)'
      BY <1>2, <3>1 DEF Saves
    <3>4. \A d \in PrintCalls : Saves(d, j)' => d = c
      BY <3>2 DEF Saves
    <3> QED
      BY <1>2, <2>3, <3>2, <3>3, <3>4 DEF PrintedAlone, RowTells
  <2>4. ASSUME k \notin mixed, k # j PROVE PrintedAlone(k)'
    <3>1. PrintedAlone(k)
      BY <2>4 DEF PrintInv, JobsTold
    <3>2. \A d \in PrintCalls : printCalls'[d].job = k => printCalls'[d] = printCalls[d]
      BY <1>2, <2>4
    <3>3. \A d \in PrintCalls : Saves(d, k)' <=> Saves(d, k)
      BY <1>2, <2>4 DEF Saves
    <3>4. tally'.out[k] = tally.out[k] /\ tally'.failed[k] = tally.failed[k]
      BY <2>4
    <3> QED
      BY <3>1, <3>2, <3>3, <3>4 DEF PrintedAlone, RowTells, Saves
  <2> QED
    BY <2>2, <2>3, <2>4
<1>5. PrintTyped'
  BY <1>2 DEF PrintInv, PrintTyped
<1> QED
  BY <1>2, <1>3, <1>4, <1>5 DEF PrintInv

(* What the tally and the copy say before the ticket. *)
LEMMA BeforeTicket ==
  ASSUME PrintInv, NEW c \in PrintCalls, printCalls[c].at = "print"
  PROVE  \E me \in PrintCall, j \in PrintJobs, row \in JobRow, out \in [PrintJobs -> Nat], failed \in [PrintJobs -> Nat] :
           /\ me = printCalls[c] /\ j = me.job /\ row = me.jobRow /\ me.at = "print"
           /\ out = tally.out /\ failed = tally.failed
           /\ PrintedAlone(j) => /\ row.retries = failed[j] /\ (row.status = "printed" => out[j] > 0)
<1>1. PICK me \in PrintCall : me = printCalls[c]
  BY DEF PrintInv, PrintTyped
<1>2. PICK j \in PrintJobs, row \in JobRow : j = me.job /\ row = me.jobRow
  BY <1>1 DEF PrintInv, CallsShaped, CallShape, PrintCall
<1>3. tally.out \in [PrintJobs -> Nat] /\ tally.failed \in [PrintJobs -> Nat]
  BY DEF PrintInv, PrintTyped, Tally
<1>4. ASSUME PrintedAlone(j) PROVE row.retries = tally.failed[j] /\ (row.status = "printed" => tally.out[j] > 0)
  <2>1. \A d \in PrintCalls : printCalls[d].job = j => d = c
    BY <1>1, <1>2, <1>4 DEF PrintedAlone
  <2>2. \A d \in PrintCalls : ~Saves(d, j)
    BY <2>1 DEF Saves
  <2>3. RowTells(printJobs[j], j) /\ row = printJobs[j]
    BY <1>1, <1>2, <1>4, <2>2 DEF PrintedAlone
  <2> QED
    BY <2>3 DEF RowTells
<1> QED
  BY <1>1, <1>2, <1>3, <1>4

LEMMA TicketOut == ASSUME PrintInv, NEW c \in PrintCalls, TicketComesOut(c) PROVE PrintInv'
<1>1. printCalls[c].at = "print"
  BY DEF TicketComesOut, PrintCallAt
<1>2. PICK me \in PrintCall, j \in PrintJobs, row \in JobRow, out \in [PrintJobs -> Nat], failed \in [PrintJobs -> Nat] :
        /\ me = printCalls[c] /\ j = me.job /\ row = me.jobRow /\ me.at = "print"
        /\ out = tally.out /\ failed = tally.failed
        /\ PrintedAlone(j) => /\ row.retries = failed[j] /\ (row.status = "printed" => out[j] > 0)
  BY <1>1, BeforeTicket
<1>3. PICK told \in JobRow : told = [row EXCEPT !.status = "printed"]
  BY DEF JobRow
<1>4. told.status = "printed" /\ told.retries = row.retries
  BY <1>3 DEF JobRow
<1>5. PICK call : call = [me EXCEPT !.at = "saveJob", !.jobRow = told]
  OBVIOUS
<1>6. call \in PrintCall /\ call.at = "saveJob" /\ call.job = j /\ call.jobRow = told
  BY <1>2, <1>5 DEF PrintCall
<1>7. [me EXCEPT !.at = "saveJob", !.jobRow.status = "printed"] = call
  BY <1>2, <1>3, <1>5 DEF PrintCall
<1>8. PICK n \in Nat : n = out[j] + 1
  OBVIOUS
<1>9. PICK more : more = [out EXCEPT ![j] = n]
  OBVIOUS
<1>10. more \in [PrintJobs -> Nat] /\ more[j] = out[j] + 1 /\ \A k \in PrintJobs \ {j} : more[k] = out[k]
  BY <1>8, <1>9
<1>11. PICK t \in Tally : t = tally
  BY DEF PrintInv, PrintTyped
<1>12. tally' = [t EXCEPT !.out = more]
  BY <1>2, <1>8, <1>9, <1>11 DEF TicketComesOut
<1>13. tally' \in Tally /\ tally'.fired = tally.fired /\ tally'.out = more /\ tally'.failed = failed
  BY <1>2, <1>10, <1>11, <1>12 DEF Tally
<1>14. /\ printCalls' = [printCalls EXCEPT ![c] = call]
       /\ UNCHANGED <<printers, printJobs, rounds, cooking, printersMixed, mixed, removed, printsBegun>>
  BY <1>2, <1>7 DEF TicketComesOut, MovePrintCall
<1>15. PrintedAlone(j) => RowTells(told, j)'
  <2>1. out[j] \in Nat /\ failed[j] \in Nat
    OBVIOUS
  <2> QED
    BY <1>2, <1>4, <1>10, <1>13, <2>1 DEF RowTells
<1> QED
  BY <1>1, <1>2, <1>4, <1>6, <1>10, <1>13, <1>14, <1>15, TicketTold

LEMMA TicketNotOut == ASSUME PrintInv, NEW c \in PrintCalls, TicketFails(c) PROVE PrintInv'
<1>1. printCalls[c].at = "print"
  BY DEF TicketFails, PrintCallAt
<1>2. PICK me \in PrintCall, j \in PrintJobs, row \in JobRow, out \in [PrintJobs -> Nat], failed \in [PrintJobs -> Nat] :
        /\ me = printCalls[c] /\ j = me.job /\ row = me.jobRow /\ me.at = "print"
        /\ out = tally.out /\ failed = tally.failed
        /\ PrintedAlone(j) => /\ row.retries = failed[j] /\ (row.status = "printed" => out[j] > 0)
  BY <1>1, BeforeTicket
<1>3. PICK tries \in Nat : tries = row.retries + 1
  BY DEF JobRow
<1>4. PICK told \in JobRow : told = [row EXCEPT !.status = "failed", !.retries = tries]
  BY DEF JobRow
<1>5. told.status = "failed" /\ told.retries = tries
  BY <1>4 DEF JobRow
<1>6. PICK call : call = [me EXCEPT !.at = "saveJob", !.jobRow = told]
  OBVIOUS
<1>7. call \in PrintCall /\ call.at = "saveJob" /\ call.job = j /\ call.jobRow = told
  BY <1>2, <1>6 DEF PrintCall
<1>8. [me EXCEPT !.at = "saveJob", !.jobRow.status = "failed", !.jobRow.retries = @ + 1] = call
  BY <1>2, <1>3, <1>4, <1>6 DEF PrintCall
<1>9. PICK n \in Nat : n = failed[j] + 1
  OBVIOUS
<1>10. PICK more : more = [failed EXCEPT ![j] = n]
  OBVIOUS
<1>11. more \in [PrintJobs -> Nat] /\ more[j] = failed[j] + 1 /\ \A k \in PrintJobs \ {j} : more[k] = failed[k]
  BY <1>9, <1>10
<1>12. PICK t \in Tally : t = tally
  BY DEF PrintInv, PrintTyped
<1>13. tally' = [t EXCEPT !.failed = more]
  BY <1>2, <1>9, <1>10, <1>12 DEF TicketFails
<1>14. tally' \in Tally /\ tally'.fired = tally.fired /\ tally'.failed = more /\ tally'.out = out
  BY <1>2, <1>11, <1>12, <1>13 DEF Tally
<1>15. /\ printCalls' = [printCalls EXCEPT ![c] = call]
       /\ UNCHANGED <<printers, printJobs, rounds, cooking, printersMixed, mixed, removed, printsBegun>>
  BY <1>2, <1>8 DEF TicketFails, MovePrintCall
<1>16. PrintedAlone(j) => RowTells(told, j)'
  <2>1. out[j] \in Nat /\ failed[j] \in Nat /\ row.retries \in Nat
    BY DEF JobRow
  <2> QED
    BY <1>2, <1>3, <1>5, <1>11, <1>14, <2>1 DEF RowTells
<1> QED
  BY <1>1, <1>2, <1>5, <1>7, <1>11, <1>14, <1>15, <1>16, TicketTold

LEMMA JobSaved == ASSUME PrintInv, NEW c \in PrintCalls, SaveJob(c) PROVE PrintInv'
<1>1. PICK me \in PrintCall : me = printCalls[c]
  BY DEF PrintInv, PrintTyped
<1>2. PICK j \in PrintJobs, row \in JobRow : j = me.job /\ row = me.jobRow /\ me.at = "saveJob"
  BY <1>1 DEF PrintInv, CallsShaped, CallShape, PrintCall, SaveJob, PrintCallAt
<1>3. /\ printJobs' = [printJobs EXCEPT ![j] = row] /\ printCalls' = [printCalls EXCEPT ![c] = IdlePrintCall]
      /\ UNCHANGED <<printers, rounds, cooking, printersMixed, mixed, removed, tally, printsBegun>>
  BY <1>1, <1>2 DEF SaveJob, MovePrintCall
<1>4. /\ printCalls' \in [PrintCalls -> PrintCall] /\ CallsShaped'
      /\ printCalls'[c] = IdlePrintCall /\ \A d \in PrintCalls \ {c} : printCalls'[d] = printCalls[d]
  BY <1>3, CallReplaced, IdlePrintCallTyped
<1>5. PrintersApart' /\ RoundsTold'
  BY <1>3, PrintersStay, RoundsStay, IdlePrintCallTyped
<1>6. /\ printJobs' \in [PrintJobs -> JobRow] /\ printJobs'[j] = row
      /\ \A k \in PrintJobs \ {j} : printJobs'[k] = printJobs[k]
  BY <1>3 DEF PrintInv, PrintTyped
<1>7. IdlePrintCall.job = NoJob /\ NoJob \notin PrintJobs
  BY IdlePrintCallTyped, PrintingAssumption
<1>8. \A d \in PrintCalls, k \in PrintJobs : printCalls'[d].job = k => d # c /\ printCalls'[d] = printCalls[d]
  BY <1>4, <1>7
<1>9. JobsTold'
  <2> SUFFICES ASSUME NEW k \in PrintJobs
               PROVE  /\ \A d \in PrintCalls : printCalls'[d].job = k => printJobs'[k].status # "unqueued"
                      /\ k \in mixed \/ PrintedAlone(k)'
    BY <1>3 DEF JobsTold
  <2>1. CASE k # j
    <3>1. \A d \in PrintCalls : printCalls'[d].job = k => printJobs'[k].status # "unqueued"
      BY <1>6, <1>8, <2>1 DEF PrintInv, JobsTold
    <3>2. ASSUME k \notin mixed PROVE PrintedAlone(k)'
      <4>1. PrintedAlone(k) /\ tally' = tally /\ printJobs'[k] = printJobs[k]
        BY <1>3, <1>6, <2>1, <3>2 DEF PrintInv, JobsTold
      <4>2. \A d \in PrintCalls : Saves(d, k)' <=> Saves(d, k)
        BY <1>1, <1>2, <1>4, <1>7, <2>1 DEF Saves
      <4> QED
        BY <1>8, <4>1, <4>2 DEF PrintedAlone, RowTells, Saves
    <3> QED
      BY <3>1, <3>2
  <2>2. CASE k = j
    <3>1. ASSUME j \notin mixed PROVE PrintedAlone(j)' /\ \A d \in PrintCalls : printCalls'[d].job # j
      <4>1. PrintedAlone(j)
        BY <3>1 DEF PrintInv, JobsTold
      <4>2. \A d \in PrintCalls : printCalls'[d].job # j
        BY <1>1, <1>2, <1>8, <4>1 DEF PrintedAlone
      <4>3. RowTells(row, j)
        BY <1>1, <1>2, <4>1 DEF PrintedAlone, Saves
      <4>4. tally' = tally
        BY <1>3
      <4> QED
        BY <1>6, <4>2, <4>3, <4>4 DEF PrintedAlone, RowTells, Saves
    <3>2. row.status # "unqueued"
      BY <1>1, <1>2 DEF PrintInv, CallsShaped, CallShape
    <3> QED
      BY <1>6, <2>2, <3>1, <3>2
  <2> QED
    BY <2>1, <2>2
<1>10. PrintTyped'
  BY <1>3, <1>4, <1>6 DEF PrintInv, PrintTyped
<1> QED
  BY <1>4, <1>5, <1>9, <1>10 DEF PrintInv

---------------------------------------------------------------------------
(* fireOrder *)

LEMMA OrderFired == ASSUME PrintInv, NEW c \in PrintCalls, FireOrder(c) PROVE PrintInv'
<1>1. PICK asked \in SUBSET TabOrders \ {{}} :
        /\ BeginPrintCall(c, [IdlePrintCall EXCEPT !.at = "fire",
                                !.orders = [o \in TabOrders |-> IF o \in asked THEN rounds[o] ELSE 0]])
        /\ mixed' = mixed \cup { o \in asked : \E d \in PrintCalls : Fires(d, o) }
        /\ UNCHANGED <<printers, printJobs, rounds, cooking, printersMixed, removed, tally>>
  BY DEF FireOrder
<1>2. PICK orders \in [TabOrders -> Nat] : orders = [o \in TabOrders |-> IF o \in asked THEN rounds[o] ELSE 0]
  BY DEF PrintInv, PrintTyped
<1>3. \A o \in TabOrders : orders[o] > 0 => o \in asked /\ orders[o] = rounds[o]
  BY <1>2
<1>4. PICK call : call = [IdlePrintCall EXCEPT !.at = "fire", !.orders = orders]
  OBVIOUS
<1>5. call \in PrintCall /\ call.at = "fire" /\ call.job = NoJob /\ call.orders = orders
  BY <1>4, IdlePrintCallTyped DEF PrintCall
<1>6. CallShape(call)
  BY <1>5 DEF CallShape
<1>7. /\ printsBegun' \in 0 .. MaxPrintCalls /\ printCalls[c].at = "idle"
      /\ printCalls' = [printCalls EXCEPT ![c] = call]
  BY <1>1, <1>2, <1>4, PrintsCounted
<1>8. /\ printCalls' \in [PrintCalls -> PrintCall] /\ CallsShaped'
      /\ printCalls'[c] = call /\ \A d \in PrintCalls \ {c} : printCalls'[d] = printCalls[d]
  BY <1>5, <1>6, <1>7, CallReplaced
<1>9. mixed \subseteq mixed' /\ mixed' \subseteq PrintJobs \cup TabOrders
  BY <1>1 DEF PrintInv, PrintTyped
<1>10. PrintersApart' /\ JobsTold'
  BY <1>1, <1>5, <1>6, <1>7, <1>9, PrintersStay, JobsStay
<1>11. RoundsTold'
  <2> SUFFICES ASSUME NEW o \in TabOrders, o \notin mixed' PROVE FiredAlone(o)'
    BY DEF RoundsTold
  <2>1. FiredAlone(o) /\ tally' = tally /\ rounds' = rounds
    BY <1>1, <1>9 DEF PrintInv, RoundsTold
  <2>2. \A d \in PrintCalls \ {c} : Fires(d, o)' <=> Fires(d, o)
    BY <1>8 DEF Fires, PrintCallAt
  <2>3. ASSUME Fires(c, o)'
        PROVE  printCalls'[c].orders[o] = rounds[o] /\ \A d \in PrintCalls : ~Fires(d, o)
    <3>1. orders[o] > 0
      BY <1>5, <1>8, <2>3 DEF Fires
    <3>2. o \in asked /\ orders[o] = rounds[o]
      BY <1>3, <3>1
    <3> QED
      BY <1>1, <1>5, <1>8, <3>2
  <2>4. \A d \in PrintCalls : Fires(d, o)' => printCalls'[d].orders[o] = rounds[o]
    BY <1>8, <2>1, <2>2, <2>3 DEF FiredAlone
  <2>5. \A d, e \in PrintCalls : Fires(d, o)' /\ Fires(e, o)' => d = e
    BY <2>1, <2>2, <2>3 DEF FiredAlone
  <2> QED
    BY <2>1, <2>4, <2>5 DEF FiredAlone
<1>12. PrintTyped'
  BY <1>1, <1>7, <1>8, <1>9 DEF PrintInv, PrintTyped
<1> QED
  BY <1>8, <1>10, <1>11, <1>12 DEF PrintInv

LEMMA RoundUpdated == ASSUME PrintInv, NEW c \in PrintCalls, UpdateRound(c) PROVE PrintInv'
<1>1. PICK me \in PrintCall : me = printCalls[c]
  BY DEF PrintInv, PrintTyped
<1>2. PICK had \in [TabOrders -> Nat] : had = me.orders
  BY DEF PrintCall
<1>3. PICK o \in TabOrders :
        LET left == [printCalls[c].orders EXCEPT ![o] = 0]
        IN /\ Fires(c, o)
           /\ rounds' = [rounds EXCEPT ![o] = printCalls[c].orders[o] + 1]
           /\ tally' = [tally EXCEPT !.fired[o] = @ + 1]
           /\ MovePrintCall(c, IF \A p \in TabOrders : left[p] = 0 THEN IdlePrintCall ELSE [printCalls[c] EXCEPT !.orders = left])
           /\ UNCHANGED <<printers, printJobs, cooking, printersMixed, mixed, removed>>
  BY DEF UpdateRound
<1>4. PICK left \in [TabOrders -> Nat] : left = [had EXCEPT ![o] = 0]
  OBVIOUS
<1>5. left[o] = 0 /\ \A p \in TabOrders \ {o} : left[p] = had[p]
  BY <1>4
<1>6. me.at = "fire" /\ had[o] > 0
  BY <1>1, <1>2, <1>3 DEF Fires, PrintCallAt
<1>7. PICK on : on = [me EXCEPT !.orders = left]
  OBVIOUS
<1>8. on \in PrintCall /\ on.at = "fire" /\ on.orders = left /\ on.job = me.job
  BY <1>6, <1>7 DEF PrintCall
<1>9. PICK call : call = IF \A p \in TabOrders : left[p] = 0 THEN IdlePrintCall ELSE on
  OBVIOUS
<1>10. me.job = NoJob
  BY <1>1, <1>6 DEF PrintInv, CallsShaped, CallShape
<1>11. /\ call \in PrintCall /\ call.at \in {"idle", "fire"} /\ call.job = NoJob
       /\ call.at = "fire" => call.orders = left
  BY <1>8, <1>9, <1>10, IdlePrintCallTyped
<1>12. CallShape(call)
  BY <1>11 DEF CallShape
<1>13. PICK n \in Nat : n = had[o] + 1
  OBVIOUS
<1>14. PICK fired \in [TabOrders -> Nat] : fired = tally.fired
  BY DEF PrintInv, PrintTyped, Tally
<1>15. PICK m \in Nat : m = fired[o] + 1
  OBVIOUS
<1>16. PICK more : more = [fired EXCEPT ![o] = m]
  OBVIOUS
<1>17. more \in [TabOrders -> Nat] /\ more[o] = fired[o] + 1 /\ \A p \in TabOrders \ {o} : more[p] = fired[p]
  BY <1>15, <1>16
<1>18. PICK t \in Tally : t = tally
  BY DEF PrintInv, PrintTyped
<1>19. tally' = [t EXCEPT !.fired = more]
  BY <1>3, <1>14, <1>15, <1>16, <1>18
<1>20. tally' \in Tally /\ tally'.fired = more /\ tally'.out = tally.out /\ tally'.failed = tally.failed
  BY <1>17, <1>18, <1>19 DEF Tally
<1>21. /\ printCalls' = [printCalls EXCEPT ![c] = call] /\ rounds' = [rounds EXCEPT ![o] = n]
       /\ UNCHANGED <<printers, printJobs, cooking, printersMixed, mixed, removed, printsBegun>>
  BY <1>1, <1>2, <1>3, <1>4, <1>7, <1>9, <1>13 DEF MovePrintCall
<1>22. /\ printCalls' \in [PrintCalls -> PrintCall] /\ CallsShaped'
       /\ printCalls'[c] = call /\ \A d \in PrintCalls \ {c} : printCalls'[d] = printCalls[d]
  BY <1>11, <1>12, <1>21, CallReplaced
<1>23. PrintersApart' /\ JobsTold'
  BY <1>1, <1>6, <1>11, <1>12, <1>20, <1>21, PrintersStay, JobsStay
<1>24. /\ rounds' \in [TabOrders -> Nat] /\ rounds'[o] = had[o] + 1
       /\ \A p \in TabOrders \ {o} : rounds'[p] = rounds[p]
  BY <1>13, <1>21 DEF PrintInv, PrintTyped
<1>25. RoundsTold'
  <2> SUFFICES ASSUME NEW p \in TabOrders, p \notin mixed' PROVE FiredAlone(p)'
    BY DEF RoundsTold
  <2>1. FiredAlone(p)
    BY <1>21 DEF PrintInv, RoundsTold
  <2>2. CASE p = o
    <3>1. had[o] = rounds[o] /\ rounds[o] = 1 + fired[o] /\ \A d \in PrintCalls : Fires(d, o) => d = c
      BY <1>1, <1>2, <1>3, <1>14, <2>1, <2>2 DEF FiredAlone
    <3>2. ~Fires(c, o)'
      BY <1>5, <1>11, <1>22 DEF Fires, PrintCallAt
    <3>3. \A d \in PrintCalls : ~Fires(d, o)'
      BY <1>22, <3>1, <3>2 DEF Fires, PrintCallAt
    <3>4. rounds'[o] = 1 + tally'.fired[o]
      <4>1. had[o] \in Nat /\ fired[o] \in Nat
        OBVIOUS
      <4> QED
        BY <1>17, <1>20, <1>24, <3>1, <4>1
    <3> QED
      BY <2>2, <3>3, <3>4 DEF FiredAlone
  <2>3. CASE p # o
    <3>1. rounds'[p] = rounds[p] /\ tally'.fired[p] = tally.fired[p]
      BY <1>14, <1>17, <1>20, <1>24, <2>3
    <3>2. \A d \in PrintCalls : Fires(d, p)' => Fires(d, p) /\ printCalls'[d].orders[p] = printCalls[d].orders[p]
      <4>1. ASSUME Fires(c, p)' PROVE Fires(c, p) /\ printCalls'[c].orders[p] = printCalls[c].orders[p]
        BY <1>1, <1>2, <1>5, <1>6, <1>11, <1>22, <2>3, <4>1 DEF Fires, PrintCallAt
      <4> QED
        BY <1>22, <4>1 DEF Fires, PrintCallAt
    <3> QED
      BY <2>1, <3>1, <3>2 DEF FiredAlone
  <2> QED
    BY <2>2, <2>3
<1>26. PrintTyped'
  BY <1>20, <1>21, <1>22, <1>24 DEF PrintInv, PrintTyped
<1> QED
  BY <1>22, <1>23, <1>25, <1>26 DEF PrintInv

---------------------------------------------------------------------------
LEMMA PrintCut == ASSUME PrintInv, NEW c \in PrintCalls, CutPrintCall(c) PROVE PrintInv'
<1>1. /\ printCalls' = [printCalls EXCEPT ![c] = IdlePrintCall] /\ printsBegun' = printsBegun
      /\ UNCHANGED <<printers, printJobs, rounds, cooking, printersMixed, removed, tally>>
      /\ mixed' = IF printCalls[c].at = "saveJob" THEN mixed \cup {printCalls[c].job} ELSE mixed
  BY DEF CutPrintCall, MovePrintCall, PrintCallAt
<1>2. printCalls[c].at = "saveJob" => printCalls[c].job \in PrintJobs
  BY DEF PrintInv, CallsShaped, CallShape
<1>3. mixed \subseteq mixed' /\ mixed' \subseteq PrintJobs \cup TabOrders /\ printsBegun' \in 0 .. MaxPrintCalls
  BY <1>1, <1>2 DEF PrintInv, PrintTyped
<1>4. printCalls[c].at = "saveJob" => printCalls[c].job \in mixed'
  BY <1>1
<1> QED
  BY <1>1, <1>3, <1>4, IdlePrintCallTyped, CallEnds

LEMMA PrintStep == ASSUME PrintInv, [PrintNext]_printVars PROVE PrintInv'
<1>1. CASE UNCHANGED <<printers, printJobs, rounds, printCalls, printsBegun, printersMixed, mixed, removed, tally>>
           /\ cooking' \subseteq cooking
  <2>1. PrintTyped' /\ CallsShaped'
    BY <1>1 DEF PrintInv, PrintTyped, CallsShaped
  <2>2. PrintersApart'
    BY <1>1 DEF PrintInv, PrintersApart, ChangesAlone, Defaults, Listed, ChangesPrinters
  <2>3. JobsTold'
    BY <1>1 DEF PrintInv, JobsTold, PrintedAlone, Saves, RowTells
  <2>4. RoundsTold'
    BY <1>1 DEF PrintInv, RoundsTold, FiredAlone, Fires, PrintCallAt
  <2> QED
    BY <2>1, <2>2, <2>3, <2>4 DEF PrintInv
<1>2. CASE OrderLeavesKitchen \/ UNCHANGED printVars
  BY <1>1, <1>2 DEF OrderLeavesKitchen, printVars
<1>3. CASE PrintNext
  BY <1>2, <1>3, PrinterCreated, PrinterUpdated, PrinterRenamed, DefaultsCleared, PrinterSaved,
     PrinterToRemoveFound, PrinterRemoved, TicketTaken, JobQueued, JobPrints, TicketOut, TicketNotOut, JobSaved,
     OrderFired, RoundUpdated, PrintCut DEF PrintNext
<1> QED
  BY <1>2, <1>3

(* Whatever requests overlap and are cut, printers, jobs and rounds stay as PrintInv says *)
(* (printer/printer.service.ts).                                                         *)
THEOREM PrintInvariant == PrintSpec => []PrintInv
  BY PrintInitial, PrintStep, PTL DEF PrintSpec

LEMMA PrintImplies == ASSUME PrintInv PROVE PrintTypeOK /\ PrintingAgrees
<1>1. PrintTypeOK
  <2>1. \A c \in PrintCalls :
          /\ printCalls[c].at \in {"idle", "clear", "save", "remove", "queue", "print", "saveJob", "fire"}
          /\ printCalls[c].printer \in Printers \cup {NoPrinter} /\ printCalls[c].job \in PrintJobs \cup {NoJob}
    BY DEF PrintInv, PrintTyped, PrintCall
  <2> QED
    BY <2>1 DEF PrintInv, PrintTyped, PrintTypeOK
<1>2. ASSUME ChangesAlone PROVE Cardinality(Defaults) <= 1 /\ Listed \cap removed = {}
  <2>1. CASE Defaults = {}
    BY <1>2, <2>1, FS_EmptySet DEF ChangesAlone
  <2>2. CASE Defaults # {}
    <3>1. PICK p : p \in Defaults
      BY <2>2
    <3>2. Defaults = {p}
      BY <1>2, <3>1 DEF ChangesAlone
    <3> QED
      BY <1>2, <3>2, FS_Singleton DEF ChangesAlone
  <2> QED
    BY <2>1, <2>2
<1>3. OneDefaultPrinter
  BY <1>2 DEF PrintInv, PrintersApart, OneDefaultPrinter
<1>4. JobsTellTickets
  <2> SUFFICES ASSUME NEW j \in PrintJobs, j \notin mixed,
                      ~ \E c \in PrintCalls : PrintCallAt(c, "saveJob") /\ printCalls[c].job = j
               PROVE  RowTells(printJobs[j], j)
    BY DEF JobsTellTickets, RowTells
  <2> QED
    BY DEF PrintInv, JobsTold, PrintedAlone, Saves, PrintCallAt
<1>5. RoundsAreCounted
  BY DEF PrintInv, RoundsTold, FiredAlone, RoundsAreCounted
<1> QED
  BY <1>1, <1>3, <1>4, <1>5 DEF PrintingAgrees

(* Rows, requests and histories keep their types. *)
THEOREM PrintTypeCorrect == PrintSpec => []PrintTypeOK
  BY PrintInvariant, PrintImplies, PTL

(* One default printer, jobs that tell what became of their tickets, and rounds counted once each, but for *)
(* what overlapping requests and a stop before the save spoil (printer.service.ts).                        *)
THEOREM PrintingAgreesAlways == PrintSpec => []PrintingAgrees
  BY PrintInvariant, PrintImplies, PTL

---------------------------------------------------------------------------
(***************************************************************************)
(* Credentials.  As long as no two requests that save worked at the same    *)
(* time, there is one row at most, it is what was last meant, and the one   *)
(* request that is about to save holds, in every column it was not asked    *)
(* about, what is meant already.                                            *)
(***************************************************************************)

Columns == {"client", "secret", "active"}

ErpCall == [at: {"idle", "save", "auth", "transact"}, id: CredentialRows \cup {NoRowId},
            row: Credential, asks: SUBSET Columns]

(* A row that is somebody's: of a client, with a secret issued to that client. *)
OwnSecret(row) == row.client \in ErpClients /\ row.secret.of = row.client

(* What a save leaves alone is what is meant already. *)
KeepsMeant(call) ==
  /\ "client" \notin call.asks => call.row.client = meant.client
  /\ "secret" \notin call.asks => call.row.secret = meant.secret /\ call.row.key = meant.key
  /\ "active" \notin call.asks => call.row.active = meant.active

AloneAtWork ==
  /\ \A r \in Enrolled : credentials[r] = meant /\ OwnSecret(credentials[r])
  /\ \A r, s \in Enrolled : r = s
  /\ \A c \in ErpCalls : ErpCallAt(c, "save") =>
       /\ OwnSecret(erpCalls[c].row) /\ KeepsMeant(erpCalls[c]) /\ Enrolled \subseteq {erpCalls[c].id}
       /\ \A d \in ErpCalls : ErpCallAt(d, "save") => d = c

CredentialInv ==
  /\ credentials \in [CredentialRows -> Credential] /\ serverKey \in 0 .. MaxKey
  /\ erpCalls \in [ErpCalls -> ErpCall] /\ erpBegun \in 0 .. MaxErpCalls
  /\ meant \in Credential /\ atOnce \in BOOLEAN
  /\ \A p \in pushed : p.active
  /\ \A c \in ErpCalls :
       /\ ErpCallAt(c, "save") => erpCalls[c].id \in CredentialRows
       /\ erpCalls[c].at \in {"auth", "transact"} => erpCalls[c].row.active
  /\ atOnce \/ AloneAtWork

---------------------------------------------------------------------------
LEMMA IdleErpCallTyped ==
  /\ NoCredential \in Credential /\ IdleErpCall \in ErpCall /\ IdleErpCall.at = "idle"
<1>1. NoSecret \in ErpSecret /\ 0 \in 0 .. MaxKey /\ FALSE \in BOOLEAN
  BY CredentialsAssumption DEF NoSecret, ErpSecret
<1>2. NoCredential \in Credential
  BY <1>1 DEF NoCredential, Credential
<1>3. {} \in SUBSET Columns
  OBVIOUS
<1> QED
  BY <1>2, <1>3 DEF IdleErpCall, ErpCall

LEMMA CredentialInitial == CredentialInit => CredentialInv
<1> SUFFICES ASSUME CredentialInit PROVE CredentialInv
  OBVIOUS
<1>1. /\ credentials = [r \in CredentialRows |-> NoCredential] /\ serverKey = 0 /\ erpBegun = 0
      /\ erpCalls = [c \in ErpCalls |-> IdleErpCall] /\ meant = NoCredential /\ atOnce = FALSE /\ pushed = {}
  BY DEF CredentialInit
<1>2. Enrolled = {} /\ \A c \in ErpCalls : erpCalls[c].at = "idle"
  BY <1>1, IdleErpCallTyped DEF Enrolled
<1>3. AloneAtWork
  BY <1>2 DEF AloneAtWork, ErpCallAt
<1>4. 0 \in 0 .. MaxKey /\ 0 \in 0 .. MaxErpCalls
  BY CredentialsAssumption
<1>5. /\ credentials \in [CredentialRows -> Credential] /\ erpCalls \in [ErpCalls -> ErpCall]
      /\ meant \in Credential /\ atOnce \in BOOLEAN
  BY <1>1, IdleErpCallTyped
<1> QED
  BY <1>1, <1>2, <1>3, <1>4, <1>5 DEF CredentialInv, ErpCallAt

(* An ended call, and one that does not save, say nothing of the row. *)
LEMMA ErpCallMoves ==
  ASSUME CredentialInv, NEW c \in ErpCalls, NEW call \in ErpCall, call.at # "save",
         call.at \in {"auth", "transact"} => call.row.active,
         erpCalls' = [erpCalls EXCEPT ![c] = call], erpBegun' \in 0 .. MaxErpCalls,
         pushed' = pushed \/ \E r \in Credential : r.active /\ pushed' = pushed \cup {[client |-> r.client, active |-> r.active]},
         UNCHANGED <<credentials, serverKey, meant, atOnce>>
  PROVE  CredentialInv'
<1>1. /\ erpCalls' \in [ErpCalls -> ErpCall] /\ erpCalls'[c] = call
      /\ \A d \in ErpCalls \ {c} : erpCalls'[d] = erpCalls[d]
  BY DEF CredentialInv
<1>2. \A p \in pushed' : p.active
  BY DEF CredentialInv
<1>3. \A d \in ErpCalls : ErpCallAt(d, "save")' => ErpCallAt(d, "save") /\ erpCalls'[d] = erpCalls[d]
  BY <1>1 DEF ErpCallAt
<1>4. ASSUME NEW d \in ErpCalls
      PROVE  /\ ErpCallAt(d, "save")' => erpCalls'[d].id \in CredentialRows
             /\ erpCalls'[d].at \in {"auth", "transact"} => erpCalls'[d].row.active
  <2>1. ErpCallAt(d, "save")' => erpCalls'[d].id \in CredentialRows
    BY <1>3 DEF CredentialInv
  <2>2. CASE d = c
    BY <1>1, <2>1, <2>2
  <2>3. CASE d # c
    BY <1>1, <2>1, <2>3 DEF CredentialInv
  <2> QED
    BY <2>2, <2>3
<1>5. AloneAtWork => AloneAtWork'
  BY <1>3 DEF AloneAtWork, Enrolled, KeepsMeant, OwnSecret
<1> QED
  BY <1>1, <1>2, <1>4, <1>5 DEF CredentialInv

---------------------------------------------------------------------------
(* A request that will save begins. *)
LEMMA SaverBegins ==
  ASSUME CredentialInv, NEW c \in ErpCalls, NEW call \in ErpCall, call.at = "save", call.id \in CredentialRows,
         BeginErpCall(c, call), NoteSaver, UNCHANGED <<credentials, serverKey, meant, pushed>>,
         AloneAtWork => OwnSecret(call.row) /\ KeepsMeant(call) /\ Enrolled \subseteq {call.id}
  PROVE  CredentialInv'
<1>1. /\ erpCalls[c].at = "idle" /\ erpCalls' \in [ErpCalls -> ErpCall] /\ erpCalls'[c] = call
      /\ \A d \in ErpCalls \ {c} : erpCalls'[d] = erpCalls[d]
  BY DEF CredentialInv, BeginErpCall, ErpCallAt
<1>2. erpBegun' \in 0 .. MaxErpCalls
  BY CredentialsAssumption DEF CredentialInv, BeginErpCall
<1>3. atOnce' \in BOOLEAN /\ (~atOnce' => ~atOnce /\ \A d \in ErpCalls : erpCalls[d].at # "save")
  BY DEF NoteSaver, CredentialInv, ErpCallAt
<1>4. ASSUME NEW d \in ErpCalls
      PROVE  /\ ErpCallAt(d, "save")' => erpCalls'[d].id \in CredentialRows
             /\ erpCalls'[d].at \in {"auth", "transact"} => erpCalls'[d].row.active
  <2>1. CASE d = c
    BY <1>1, <2>1
  <2>2. CASE d # c
    BY <1>1, <2>2 DEF CredentialInv, ErpCallAt
  <2> QED
    BY <2>1, <2>2
<1>5. ASSUME ~atOnce' PROVE AloneAtWork'
  <2>1. AloneAtWork /\ Enrolled' = Enrolled /\ meant' = meant /\ credentials' = credentials
    BY <1>3, <1>5 DEF CredentialInv, Enrolled
  <2>2. \A d \in ErpCalls : erpCalls'[d].at = "save" => d = c
    BY <1>1, <1>3, <1>5
  <2>3. OwnSecret(call.row) /\ KeepsMeant(call)' /\ Enrolled' \subseteq {call.id}
    BY <2>1 DEF KeepsMeant
  <2> QED
    BY <1>1, <2>1, <2>2, <2>3 DEF AloneAtWork, ErpCallAt, OwnSecret, KeepsMeant
<1> QED
  BY <1>1, <1>2, <1>3, <1>4, <1>5 DEF CredentialInv

LEMMA Enrols == ASSUME CredentialInv, NEW c \in ErpCalls, Enrol(c) PROVE CredentialInv'
<1>1. PICK client \in ErpClients, n \in 1 .. MaxSecret, active \in BOOLEAN,
           r \in IF Enrolled = {} THEN { x \in CredentialRows : \A d \in ErpCalls : erpCalls[d].id # x } ELSE Enrolled :
        /\ BeginErpCall(c, [at |-> "save", id |-> r,
                            row |-> EnrolOver(credentials[r], client, [of |-> client, n |-> n], active),
                            asks |-> {"client", "secret", "active"}])
        /\ NoteSaver
        /\ UNCHANGED <<credentials, serverKey, meant, pushed>>
  BY DEF Enrol
<1>2. r \in CredentialRows /\ (AloneAtWork => Enrolled \subseteq {r})
  BY DEF Enrolled, AloneAtWork
<1>3. PICK old \in Credential : old = credentials[r]
  BY <1>2 DEF CredentialInv
<1>4. PICK s \in ErpSecret : s = [of |-> client, n |-> n]
  <2>1. n \in 0 .. MaxSecret
    BY CredentialsAssumption
  <2> QED
    BY <2>1 DEF ErpSecret
<1>5. PICK k \in 0 .. MaxKey : k = serverKey
  BY DEF CredentialInv
<1>6. PICK row : row = EnrolOver(old, client, s, active)
  OBVIOUS
<1>7. row \in Credential /\ row.client = client /\ row.secret = s /\ row.active = active
  BY <1>5, <1>6 DEF EnrolOver, Encrypted, Credential
<1>8. PICK call : call = [at |-> "save", id |-> r, row |-> row, asks |-> {"client", "secret", "active"}]
  OBVIOUS
<1>9. call \in ErpCall /\ call.at = "save" /\ call.id = r /\ call.row = row /\ call.asks = Columns
  BY <1>2, <1>7, <1>8 DEF ErpCall, Columns
<1>10. OwnSecret(call.row) /\ KeepsMeant(call)
  BY <1>4, <1>7, <1>9 DEF OwnSecret, KeepsMeant, Columns
<1>11. BeginErpCall(c, call)
  BY <1>1, <1>3, <1>4, <1>6, <1>8
<1> QED
  BY <1>1, <1>2, <1>9, <1>10, <1>11, SaverBegins

LEMMA Updates == ASSUME CredentialInv, NEW c \in ErpCalls, Update(c) PROVE CredentialInv'
<1>1. PICK r \in Enrolled, asks \in SUBSET {"secret", "active"}, n \in 1 .. MaxSecret, active \in BOOLEAN :
        LET row == credentials[r]
            rotated == IF "secret" \in asks THEN Encrypted(row, [of |-> row.client, n |-> n]) ELSE row
        IN /\ BeginErpCall(c, [at |-> "save", id |-> r, asks |-> asks,
                               row |-> IF "active" \in asks THEN [rotated EXCEPT !.active = active] ELSE rotated])
           /\ NoteSaver
           /\ UNCHANGED <<credentials, serverKey, meant, pushed>>
  BY DEF Update
<1>2. r \in CredentialRows
  BY DEF Enrolled
<1>3. PICK old \in Credential : old = credentials[r]
  BY <1>2 DEF CredentialInv
<1>4. PICK s \in ErpSecret : s = [of |-> old.client, n |-> n]
  <2>1. n \in 0 .. MaxSecret /\ old.client \in ErpClients \cup {NoClient}
    BY CredentialsAssumption DEF Credential
  <2> QED
    BY <2>1 DEF ErpSecret
<1>5. PICK k \in 0 .. MaxKey : k = serverKey
  BY DEF CredentialInv
<1>6. PICK rotated : rotated = IF "secret" \in asks THEN Encrypted(old, s) ELSE old
  OBVIOUS
<1>7. /\ rotated \in Credential /\ rotated.client = old.client /\ rotated.active = old.active
      /\ rotated.secret = IF "secret" \in asks THEN s ELSE old.secret
      /\ "secret" \notin asks => rotated.key = old.key
  BY <1>5, <1>6 DEF Encrypted, Credential
<1>8. PICK row : row = IF "active" \in asks THEN [rotated EXCEPT !.active = active] ELSE rotated
  OBVIOUS
<1>9. /\ row \in Credential /\ row.client = old.client /\ row.secret = rotated.secret /\ row.key = rotated.key
      /\ "active" \notin asks => row.active = old.active
  BY <1>7, <1>8 DEF Credential
<1>10. PICK call : call = [at |-> "save", id |-> r, asks |-> asks, row |-> row]
  OBVIOUS
<1>11. call \in ErpCall /\ call.at = "save" /\ call.id = r /\ call.row = row /\ call.asks = asks
  <2>1. asks \in SUBSET Columns
    BY DEF Columns
  <2> QED
    BY <1>2, <1>9, <1>10, <2>1 DEF ErpCall
<1>12. BeginErpCall(c, call)
  BY <1>1, <1>3, <1>4, <1>6, <1>8, <1>10
<1>13. ASSUME AloneAtWork PROVE OwnSecret(call.row) /\ KeepsMeant(call) /\ Enrolled \subseteq {call.id}
  <2>1. old = meant /\ OwnSecret(old) /\ Enrolled \subseteq {r}
    BY <1>3, <1>13 DEF AloneAtWork
  <2>2. OwnSecret(row)
    BY <1>4, <1>7, <1>9, <2>1 DEF OwnSecret
  <2>3. KeepsMeant(call)
    BY <1>7, <1>9, <1>11, <2>1 DEF KeepsMeant
  <2> QED
    BY <1>11, <2>1, <2>2, <2>3
<1> QED
  BY <1>1, <1>2, <1>11, <1>12, <1>13, SaverBegins

LEMMA CredentialSaved == ASSUME CredentialInv, NEW c \in ErpCalls, SaveCredential(c) PROVE CredentialInv'
<1>1. PICK me \in ErpCall : me = erpCalls[c]
  BY DEF CredentialInv
<1>2. PICK row \in Credential : row = me.row
  BY DEF ErpCall
<1>3. PICK r \in CredentialRows : r = me.id
  BY <1>1 DEF CredentialInv, SaveCredential
<1>4. PICK old \in Credential : old = meant
  BY DEF CredentialInv
<1>5. PICK m : m = [client |-> IF "client" \in me.asks THEN row.client ELSE old.client,
                    secret |-> IF "secret" \in me.asks THEN row.secret ELSE old.secret,
                    key    |-> IF "secret" \in me.asks THEN row.key ELSE old.key,
                    active |-> IF "active" \in me.asks THEN row.active ELSE old.active]
  OBVIOUS
<1>6. m \in Credential
  BY <1>5 DEF Credential
<1>7. /\ erpCalls[c].at = "save" /\ credentials' = [credentials EXCEPT ![r] = row] /\ meant' = m
      /\ erpCalls' = [erpCalls EXCEPT ![c] = IdleErpCall] /\ UNCHANGED <<serverKey, atOnce, pushed, erpBegun>>
  BY <1>1, <1>2, <1>3, <1>4, <1>5 DEF SaveCredential, MoveErpCall, ErpCallAt
<1>8. /\ credentials' \in [CredentialRows -> Credential] /\ credentials'[r] = row
      /\ \A x \in CredentialRows \ {r} : credentials'[x] = credentials[x]
  BY <1>7 DEF CredentialInv
<1>9. /\ erpCalls' \in [ErpCalls -> ErpCall] /\ erpCalls'[c].at = "idle"
      /\ \A d \in ErpCalls \ {c} : erpCalls'[d] = erpCalls[d]
  BY <1>7, IdleErpCallTyped DEF CredentialInv
<1>10. ASSUME NEW d \in ErpCalls
       PROVE  /\ ErpCallAt(d, "save")' => erpCalls'[d].id \in CredentialRows
              /\ erpCalls'[d].at \in {"auth", "transact"} => erpCalls'[d].row.active
  <2>1. CASE d = c
    BY <1>9, <2>1 DEF ErpCallAt
  <2>2. CASE d # c
    BY <1>9, <2>2 DEF CredentialInv, ErpCallAt
  <2> QED
    BY <2>1, <2>2
<1>11. ASSUME ~atOnce PROVE AloneAtWork'
  <2>1. AloneAtWork
    BY <1>11 DEF CredentialInv
  <2>2. OwnSecret(row) /\ KeepsMeant(me) /\ Enrolled \subseteq {r} /\ \A d \in ErpCalls : erpCalls[d].at = "save" => d = c
    BY <1>1, <1>2, <1>3, <1>7, <2>1 DEF AloneAtWork, ErpCallAt
  <2>3. m.client = row.client /\ m.secret = row.secret /\ m.key = row.key /\ m.active = row.active
    BY <1>2, <1>4, <1>5, <2>2 DEF KeepsMeant
  <2>4. m = row
    BY <1>6, <2>3 DEF Credential
  <2>5. Enrolled' \subseteq {r}
    BY <1>8, <2>2 DEF Enrolled
  <2>6. \A d \in ErpCalls : erpCalls'[d].at # "save"
    BY <1>9, <2>2
  <2> QED
    BY <1>7, <1>8, <2>2, <2>4, <2>5, <2>6 DEF AloneAtWork, ErpCallAt, OwnSecret
<1> QED
  BY <1>6, <1>7, <1>8, <1>9, <1>10, <1>11 DEF CredentialInv

---------------------------------------------------------------------------
LEMMA PushBegins == ASSUME CredentialInv, NEW c \in ErpCalls, ResolveClient(c) \/ RefusePush(c) PROVE CredentialInv'
<1>1. CASE ResolveClient(c)
  <2>1. PICK r \in Enrolled :
          /\ Resolves(credentials[r])
          /\ BeginErpCall(c, [IdleErpCall EXCEPT !.at = "auth", !.id = r, !.row = credentials[r]])
          /\ UNCHANGED <<credentials, serverKey, meant, atOnce, pushed>>
    BY <1>1 DEF ResolveClient
  <2>2. PICK row \in Credential : row = credentials[r]
    BY DEF CredentialInv, Enrolled
  <2>3. PICK call : call = [IdleErpCall EXCEPT !.at = "auth", !.id = r, !.row = row]
    OBVIOUS
  <2>4. call \in ErpCall /\ call.at = "auth" /\ call.row = row
    <3>1. r \in CredentialRows
      BY DEF Enrolled
    <3> QED
      BY <2>3, <3>1, IdleErpCallTyped DEF ErpCall
  <2>5. row.active
    BY <2>1, <2>2 DEF Resolves
  <2>6. erpCalls' = [erpCalls EXCEPT ![c] = call] /\ erpBegun' \in 0 .. MaxErpCalls
    BY <2>1, <2>2, <2>3, CredentialsAssumption DEF BeginErpCall, CredentialInv
  <2> QED
    BY <2>1, <2>4, <2>5, <2>6, ErpCallMoves
<1>2. CASE RefusePush(c)
  <2>1. BeginErpCall(c, IdleErpCall) /\ UNCHANGED <<credentials, serverKey, meant, atOnce, pushed>>
    BY <1>2 DEF RefusePush
  <2>2. erpCalls' = [erpCalls EXCEPT ![c] = IdleErpCall] /\ erpBegun' \in 0 .. MaxErpCalls
    BY <2>1, CredentialsAssumption DEF BeginErpCall, CredentialInv
  <2> QED
    BY <2>1, <2>2, IdleErpCallTyped, ErpCallMoves
<1> QED
  BY <1>1, <1>2

LEMMA PushGoesOn ==
  ASSUME CredentialInv, NEW c \in ErpCalls, Authenticate(c) \/ Transact(c) \/ CutErpCall(c) PROVE CredentialInv'
<1>1. PICK me \in ErpCall : me = erpCalls[c]
  BY DEF CredentialInv
<1>2. erpBegun \in 0 .. MaxErpCalls
  BY DEF CredentialInv
<1>3. CASE Authenticate(c)
  <2>1. PICK on : on = [me EXCEPT !.at = "transact"]
    OBVIOUS
  <2>2. on \in ErpCall /\ on.at = "transact" /\ on.row = me.row
    BY <2>1 DEF ErpCall
  <2>3. me.row.active
    BY <1>1, <1>3 DEF Authenticate, ErpCallAt, CredentialInv
  <2>4. /\ erpCalls' = [erpCalls EXCEPT ![c] = on] \/ erpCalls' = [erpCalls EXCEPT ![c] = IdleErpCall]
        /\ UNCHANGED <<erpBegun, credentials, serverKey, meant, atOnce, pushed>>
    BY <1>1, <1>3, <2>1 DEF Authenticate, MoveErpCall
  <2> QED
    BY <1>2, <2>2, <2>3, <2>4, IdleErpCallTyped, ErpCallMoves
<1>4. CASE Transact(c)
  <2>1. PICK row \in Credential : row = me.row
    BY DEF ErpCall
  <2>2. row.active
    BY <1>1, <1>4, <2>1 DEF Transact, ErpCallAt, CredentialInv
  <2>3. /\ erpCalls' = [erpCalls EXCEPT ![c] = IdleErpCall]
        /\ pushed' = pushed \cup {[client |-> row.client, active |-> row.active]}
        /\ UNCHANGED <<erpBegun, credentials, serverKey, meant, atOnce>>
    BY <1>1, <1>4, <2>1 DEF Transact, MoveErpCall
  <2> QED
    BY <1>2, <2>2, <2>3, IdleErpCallTyped, ErpCallMoves
<1>5. CASE CutErpCall(c)
  <2>1. /\ erpCalls' = [erpCalls EXCEPT ![c] = IdleErpCall]
        /\ UNCHANGED <<erpBegun, credentials, serverKey, meant, atOnce, pushed>>
    BY <1>5 DEF CutErpCall, MoveErpCall
  <2> QED
    BY <1>2, <2>1, IdleErpCallTyped, ErpCallMoves
<1> QED
  BY <1>3, <1>4, <1>5

LEMMA KeyChanges == ASSUME CredentialInv, ChangeKey PROVE CredentialInv'
<1>1. /\ serverKey' \in 0 .. MaxKey /\ erpCalls' = [c \in ErpCalls |-> IdleErpCall]
      /\ UNCHANGED <<credentials, erpBegun, meant, atOnce, pushed>>
  BY CredentialsAssumption DEF ChangeKey, CredentialInv
<1>2. erpCalls' \in [ErpCalls -> ErpCall] /\ \A c \in ErpCalls : erpCalls'[c].at = "idle"
  BY <1>1, IdleErpCallTyped
<1>3. AloneAtWork => AloneAtWork'
  BY <1>1, <1>2 DEF AloneAtWork, Enrolled, ErpCallAt, OwnSecret
<1> QED
  BY <1>1, <1>2, <1>3 DEF CredentialInv, ErpCallAt

LEMMA CredentialStep == ASSUME CredentialInv, [CredentialNext]_credentialVars PROVE CredentialInv'
<1>1. CASE UNCHANGED credentialVars
  BY <1>1 DEF CredentialInv, AloneAtWork, Enrolled, ErpCallAt, OwnSecret, KeepsMeant, credentialVars
<1>2. CASE CredentialNext
  BY <1>2, Enrols, Updates, CredentialSaved, PushBegins, PushGoesOn, KeyChanges DEF CredentialNext
<1> QED
  BY <1>1, <1>2

(* Whatever requests overlap and are cut, the credential of a branch stays as CredentialInv says *)
(* (payment/moniepoint-erp.service.ts).                                                          *)
THEOREM CredentialInvariant == CredentialSpec => []CredentialInv
  BY CredentialInitial, CredentialStep, PTL DEF CredentialSpec

LEMMA CredentialImplies == ASSUME CredentialInv PROVE CredentialTypeOK /\ CredentialHolds
<1>1. CredentialTypeOK
  <2>1. \A c \in ErpCalls :
          /\ erpCalls[c].at \in {"idle", "save", "auth", "transact"}
          /\ erpCalls[c].id \in CredentialRows \cup {NoRowId} /\ erpCalls[c].row \in Credential
    BY DEF CredentialInv, ErpCall
  <2> QED
    BY <2>1 DEF CredentialInv, CredentialTypeOK
<1>2. AloneAtWork => Cardinality(Enrolled) <= 1
  <2> SUFFICES ASSUME AloneAtWork PROVE Cardinality(Enrolled) <= 1
    OBVIOUS
  <2>1. CASE Enrolled = {}
    BY <2>1, FS_EmptySet
  <2>2. CASE Enrolled # {}
    <3>1. PICK r : r \in Enrolled
      BY <2>2
    <3>2. Enrolled = {r}
      BY <3>1 DEF AloneAtWork
    <3>3. Cardinality({r}) = 1
      BY FS_Singleton
    <3> QED
      BY <3>2, <3>3
  <2> QED
    BY <2>1, <2>2
<1>3. CredentialIsMeant
  BY <1>2 DEF CredentialInv, CredentialIsMeant, AloneAtWork
<1>4. PushesAreActive
  BY DEF CredentialInv, PushesAreActive, AloneAtWork, OwnSecret
<1> QED
  BY <1>1, <1>3, <1>4 DEF CredentialHolds

(* Rows, requests and histories keep their types. *)
THEOREM CredentialTypeCorrect == CredentialSpec => []CredentialTypeOK
  BY CredentialInvariant, CredentialImplies, PTL

(* One row, as it was meant, with a secret of its own client, and no push with a row that was switched off, *)
(* unless two requests that save overlapped (upsertCredential and updateCredential).                        *)
THEOREM CredentialHoldsAlways == CredentialSpec => []CredentialHolds
  BY CredentialInvariant, CredentialImplies, PTL

---------------------------------------------------------------------------
(***************************************************************************)
(* BranchSettings.  A request that no save came between still holds, for    *)
(* every provider nobody typed a key for and whose public key no page sent  *)
(* back, the key that is stored; pages show masks for secrets, so none is   *)
(* ever stored; and no value is under an encryption key yet to come.        *)
(***************************************************************************)

SettingsCall ==
  [at: {"idle", "branch", "insert", "platform"}, row: SettingsRow, of: Providers \cup {NotSet},
   platform: PlatformRow, typed: Providers \cup {NotSet}, value: Keys \cup {NoKey}, older: SUBSET Rsa, stale: BOOLEAN]

KnownKeys(row) == \A p \in Providers : row.config[p].under <= epoch

(* What a request may rely on until it saves. *)
BranchSound(q) ==
  /\ KnownKeys(q.row)
  /\ q.typed # NotSet => q.row.config[q.typed].key = q.value
  /\ ~q.stale => \A p \in Providers : p = q.typed \/ p \in q.older \/ q.row.config[p].key = branchRow.config[p].key

InsertSound(q) == q.of \in Providers /\ q.typed = q.of /\ q.platform.config.key = q.value /\ q.older = {}

PlatformSound(q) ==
  /\ q.of \in Providers /\ q.older = {} /\ q.typed \in {q.of, NotSet}
  /\ q.typed = q.of => q.platform.config.key = q.value
  /\ q.typed = NotSet /\ ~q.stale => q.platform.config.key = platformRows[q.of].config.key

CallSound(q) ==
  /\ q.at = "branch" => BranchSound(q)
  /\ q.at = "insert" => InsertSound(q)
  /\ q.at = "platform" => PlatformSound(q)

SettingsInv ==
  /\ SettingsTypeOK
  /\ \A p \in Providers : Secret(p) => page[p] \in {NoKey, Mask}
  /\ KnownKeys(branchRow)
  /\ StoredKeyIsEntered
  /\ \A c \in SettingsCalls : CallSound(settingsCalls[c])

---------------------------------------------------------------------------
LEMMA NamesApart ==
  /\ \A k \in Keys : k # NoKey /\ k # Mask /\ k # NotSet
  /\ NotSet \notin Providers /\ NoKey # Mask
  BY SettingsAssumption

LEMMA FirstTyped ==
  /\ Blank \in Config /\ Blank.key = NoKey /\ Blank.under = 0
  /\ FirstSettings \in SettingsRow /\ \A p \in Providers : FirstSettings.config[p] = Blank
  /\ NoPlatformRow \in PlatformRow /\ NoPlatformRow.config = Blank
  /\ IdleSettingsCall \in SettingsCall /\ IdleSettingsCall.at = "idle" /\ IdleSettingsCall.typed = NotSet
  /\ IdleSettingsCall.older = {} /\ IdleSettingsCall.stale = FALSE
<1>1. 0 \in 0 .. MaxEpoch /\ FALSE \in BOOLEAN /\ {} \in SUBSET Rsa
  BY SettingsAssumption
<1>2. Blank \in Config /\ Blank.key = NoKey /\ Blank.under = 0
  BY <1>1 DEF Blank, Config
<1>3. PICK f \in [Providers -> Config] : f = [p \in Providers |-> Blank]
  BY <1>2
<1>9. PICK g \in [Providers -> Entry] : g = [p \in Providers |-> Bare]
  BY DEF Bare, Entry
<1>4. FirstSettings = [config |-> f, entry |-> g, listed |-> {}, provider |-> NotSet, enabled |-> NotSet]
  BY <1>3, <1>9 DEF FirstSettings
<1>5. FirstSettings \in SettingsRow /\ FirstSettings.config = f
  BY <1>1, <1>4, <1>9 DEF SettingsRow
<1>6. NoPlatformRow \in PlatformRow /\ NoPlatformRow.config = Blank
  BY <1>1, <1>2 DEF NoPlatformRow, PlatformRow
<1>7. IdleSettingsCall \in SettingsCall
  BY <1>1, <1>5, <1>6 DEF IdleSettingsCall, SettingsCall
<1>8. /\ IdleSettingsCall.at = "idle" /\ IdleSettingsCall.typed = NotSet
      /\ IdleSettingsCall.older = {} /\ IdleSettingsCall.stale = FALSE
  BY DEF IdleSettingsCall
<1> QED
  BY <1>2, <1>3, <1>5, <1>6, <1>7, <1>8

LEMMA SettingsTyped ==
  SettingsTypeOK <=>
    /\ branchRow \in SettingsRow /\ platformRows \in [Providers -> PlatformRow] /\ epoch \in 0 .. MaxEpoch
    /\ settingsCalls \in [SettingsCalls -> SettingsCall] /\ page \in [Providers -> Keys \cup {NoKey, Mask}]
    /\ settingsBegun \in 0 .. MaxSettingsCalls /\ entered \in [Row -> [Providers -> Keys \cup {NoKey}]]
    /\ overtaken \subseteq Row \X Providers
  BY DEF SettingsTypeOK, SettingsCall

LEMMA SettingsInitial == SettingsInit => SettingsInv
<1> SUFFICES ASSUME SettingsInit PROVE SettingsInv
  OBVIOUS
<1>1. /\ branchRow = FirstSettings /\ platformRows = [p \in Providers |-> NoPlatformRow] /\ epoch = 0
      /\ settingsCalls = [c \in SettingsCalls |-> IdleSettingsCall] /\ settingsBegun = 0
      /\ page = [p \in Providers |-> NoKey] /\ overtaken = {}
  BY DEF SettingsInit
<1>2. entered = [w \in Row |-> [p \in Providers |-> NoKey]]
  BY DEF SettingsInit
<1>3. PICK none \in [Providers -> Keys \cup {NoKey}] : none = [p \in Providers |-> NoKey]
  OBVIOUS
<1>4. entered = [w \in Row |-> none] /\ "branch" \in Row /\ "platform" \in Row
  BY <1>2, <1>3 DEF Row
<1>5. 0 \in 0 .. MaxEpoch /\ 0 \in 0 .. MaxSettingsCalls
  BY SettingsAssumption
<1>6. SettingsTypeOK
  <2>1. page \in [Providers -> Keys \cup {NoKey, Mask}]
    BY <1>1
  <2>2. entered \in [Row -> [Providers -> Keys \cup {NoKey}]]
    BY <1>4
  <2>3. platformRows \in [Providers -> PlatformRow] /\ settingsCalls \in [SettingsCalls -> SettingsCall]
    BY <1>1, FirstTyped
  <2> QED
    BY <1>1, <1>5, <2>1, <2>2, <2>3, FirstTyped, SettingsTyped
<1>7. KnownKeys(branchRow)
  BY <1>1, FirstTyped DEF KnownKeys
<1>8. StoredKeyIsEntered
  <2> SUFFICES ASSUME NEW p \in Providers
               PROVE  /\ branchRow.config[p].key = entered["branch"][p]
                      /\ platformRows[p].config.key = entered["platform"][p]
    BY DEF StoredKeyIsEntered
  <2> QED
    BY <1>1, <1>3, <1>4, FirstTyped
<1>9. \A c \in SettingsCalls : CallSound(settingsCalls[c])
  BY <1>1, FirstTyped DEF CallSound
<1> QED
  BY <1>1, <1>6, <1>7, <1>8, <1>9 DEF SettingsInv

---------------------------------------------------------------------------
(* The merge of a stored value with a posted one. *)
LEMMA MergeKeeps ==
  ASSUME NEW p \in Providers, NEW config \in Config, NEW value \in Keys \cup {NoKey, Mask, NotSet},
         epoch \in 0 .. MaxEpoch
  PROVE  /\ value # NotSet => Merged(p, config, value) \in Config
         /\ value = NotSet => Merged(p, config, value) = config
         /\ config.under <= epoch => Merged(p, config, value).under <= epoch
         /\ value = NotSet \/ (Secret(p) /\ value = Mask) => Merged(p, config, value) = config
         /\ value \in Keys => Merged(p, config, value).key = value
         /\ value = config.key => Merged(p, config, value).key = config.key
         /\ value = NoKey /\ config.key = NoKey => Merged(p, config, value).key = NoKey
<1>1. PICK e \in 0 .. MaxEpoch : e = epoch
  OBVIOUS
<1>2. e \in Nat /\ 0 \in 0 .. MaxEpoch /\ 0 <= e
  BY SettingsAssumption
<1>3. PICK u \in 0 .. MaxEpoch : u = (IF Secret(p) /\ value # NoKey THEN e ELSE 0) /\ u <= e
  BY <1>2
<1>4. PICK m : m = [key |-> value, under |-> u]
  OBVIOUS
<1>5. Merged(p, config, value) = IF value = NotSet \/ (Secret(p) /\ value = Mask) THEN config ELSE m
  BY <1>1, <1>3, <1>4 DEF Merged
<1>6. m.key = value /\ m.under = u /\ (value # NotSet => m \in Config)
  BY <1>4 DEF Config
<1> QED
  BY <1>1, <1>3, <1>5, <1>6, NamesApart

---------------------------------------------------------------------------
(* A request that begins reads the row; nothing else changes. *)
LEMMA RequestBegins ==
  ASSUME SettingsInv, NEW c \in SettingsCalls, NEW call \in SettingsCall, CallSound(call), Begins(c, call)
  PROVE  SettingsInv'
<1>1. /\ settingsCalls' = [settingsCalls EXCEPT ![c] = call] /\ settingsBegun' \in 0 .. MaxSettingsCalls
      /\ UNCHANGED <<branchRow, platformRows, epoch, page, entered, overtaken>>
  BY SettingsAssumption DEF Begins, SettingsInv, SettingsTypeOK
<1>2. /\ settingsCalls' \in [SettingsCalls -> SettingsCall] /\ settingsCalls'[c] = call
      /\ \A d \in SettingsCalls \ {c} : settingsCalls'[d] = settingsCalls[d]
  BY <1>1, SettingsTyped DEF SettingsInv
<1>3. SettingsTypeOK'
  BY <1>1, <1>2 DEF SettingsInv, SettingsTypeOK, SettingsCall
<1>4. \A q : CallSound(q) => CallSound(q)'
  BY <1>1 DEF CallSound, BranchSound, InsertSound, PlatformSound, KnownKeys
<1>5. ASSUME NEW d \in SettingsCalls PROVE CallSound(settingsCalls[d])'
  <2>1. PICK q : q = settingsCalls'[d]
    OBVIOUS
  <2>2. CallSound(q)
    BY <1>2, <2>1 DEF SettingsInv
  <2>3. CallSound(q)'
    BY <1>4, <2>2
  <2> QED
    BY <2>1, <2>3 DEF CallSound, BranchSound, InsertSound, PlatformSound, KnownKeys
<1>6. KnownKeys(branchRow)' /\ StoredKeyIsEntered'
  BY <1>1 DEF SettingsInv, KnownKeys, StoredKeyIsEntered
<1> QED
  BY <1>1, <1>3, <1>5, <1>6 DEF SettingsInv, Secret

LEMMA BranchCall ==
  ASSUME NEW row \in SettingsRow, NEW call, call = Reads(row)
  PROVE  /\ call \in SettingsCall /\ call.at = "branch" /\ call.row = row /\ call.typed = NotSet
         /\ call.older = {} /\ call.stale = FALSE
  BY FirstTyped DEF Reads, SettingsCall

LEMMA RowNow ==
  ASSUME SettingsInv
  PROVE  \E row \in SettingsRow, config \in [Providers -> Config] :
           /\ row = branchRow /\ config = row.config
           /\ \A p \in Providers : config[p] \in Config /\ config[p].under <= epoch
  BY SettingsTyped DEF SettingsInv, SettingsRow, KnownKeys

LEMMA SettingsUpdate == ASSUME SettingsInv, NEW c \in SettingsCalls, UpdateSettings(c) PROVE SettingsInv'
<1>1. PICK sent \in PostedLists \cup {{}}, typed \in Providers \cup {NotSet}, k \in Keys,
           e \in Descriptions, enabled \in PostedLists \cup {NotSet} :
        LET value(x) == IF x = typed THEN k ELSE IF x \in sent /\ page[x] # NoKey THEN page[x] ELSE NotSet
        IN Begins(c, [Reads([branchRow EXCEPT
                                !.config = [x \in Providers |-> Merged(x, branchRow.config[x], value(x))],
                                !.entry = [x \in Providers |-> IF x = typed THEN e ELSE branchRow.entry[x]],
                                !.listed = branchRow.listed \cup ((sent \cup {typed}) \cap Providers),
                                !.enabled = IF enabled = NotSet THEN branchRow.enabled ELSE enabled])
                        EXCEPT !.typed = typed, !.value = IF typed = NotSet THEN NoKey ELSE k,
                               !.older = { x \in (sent \cap Rsa) \ {typed} : page[x] # NoKey }])
  BY DEF UpdateSettings
<1>2. PICK row \in SettingsRow, config \in [Providers -> Config] :
        /\ row = branchRow /\ config = row.config
        /\ \A p \in Providers : config[p] \in Config /\ config[p].under <= epoch
  BY RowNow
<1>3. PICK posted : posted = [x \in Providers |->
                              IF x = typed THEN k ELSE IF x \in sent /\ page[x] # NoKey THEN page[x] ELSE NotSet]
  OBVIOUS
<1>4. \A x \in Providers : posted[x] \in Keys \cup {NoKey, Mask, NotSet}
  BY <1>3, SettingsTyped DEF SettingsInv
<1>5. PICK merged : merged = [x \in Providers |-> Merged(x, config[x], posted[x])]
  OBVIOUS
<1>6. \A x \in Providers : merged[x] = Merged(x, config[x], posted[x])
  BY <1>5
<1>7. epoch \in 0 .. MaxEpoch
  BY SettingsTyped DEF SettingsInv
<1>8. \A x \in Providers : merged[x] \in Config /\ merged[x].under <= epoch
  <2> SUFFICES ASSUME NEW x \in Providers PROVE merged[x] \in Config /\ merged[x].under <= epoch
    OBVIOUS
  <2>1. PICK was \in Config : was = config[x] /\ was.under <= epoch
    BY <1>2
  <2>2. PICK value \in Keys \cup {NoKey, Mask, NotSet} : value = posted[x]
    BY <1>4
  <2>3. merged[x] = Merged(x, was, value)
    BY <1>6, <2>1, <2>2
  <2>4. /\ value # NotSet => Merged(x, was, value) \in Config
        /\ value = NotSet => Merged(x, was, value) = was
        /\ was.under <= epoch => Merged(x, was, value).under <= epoch
    BY <1>7, MergeKeeps
  <2> QED
    BY <2>1, <2>3, <2>4
<1>9. merged \in [Providers -> Config]
  BY <1>5, <1>8
<1>10. PICK list : list = IF enabled = NotSet THEN row.enabled ELSE enabled
  OBVIOUS
<1>11. list \in (SUBSET Providers) \cup {NotSet}
  BY <1>10, SettingsAssumption DEF SettingsRow
<1>24. PICK described : described = [x \in Providers |-> IF x = typed THEN e ELSE row.entry[x]]
  OBVIOUS
<1>25. described \in [Providers -> Entry]
  <2>1. row.entry \in [Providers -> Entry]
    BY DEF SettingsRow
  <2>2. PICK es \in [Providers -> Entry] : es = row.entry
    BY <2>1
  <2>3. e \in Entry
    BY SettingsAssumption DEF Entry
  <2> QED
    BY <1>24, <2>2, <2>3
<1>26. PICK named \in SUBSET Providers : named = row.listed \cup ((sent \cup {typed}) \cap Providers)
  BY DEF SettingsRow
<1>12. PICK new : new = [row EXCEPT !.config = merged, !.entry = described, !.listed = named, !.enabled = list]
  OBVIOUS
<1>13. new \in SettingsRow /\ new.config = merged
  BY <1>9, <1>11, <1>12, <1>25, <1>26 DEF SettingsRow
<1>27. PICK kept : kept = IF typed = NotSet THEN NoKey ELSE k
  OBVIOUS
<1>14. PICK read : read = Reads(new)
  OBVIOUS
<1>15. read \in SettingsCall /\ read.at = "branch" /\ read.row = new /\ read.stale = FALSE
  BY <1>13, <1>14, BranchCall
<1>16. PICK older \in SUBSET Rsa : older = { x \in (sent \cap Rsa) \ {typed} : page[x] # NoKey }
  OBVIOUS
<1>17. PICK call : call = [read EXCEPT !.typed = typed, !.value = kept, !.older = older]
  OBVIOUS
<1>18. /\ call \in SettingsCall /\ call.at = "branch" /\ call.row = new /\ call.typed = typed
       /\ call.value = kept /\ call.older = older
  BY <1>15, <1>17, <1>27 DEF SettingsCall
<1>19. [branchRow EXCEPT !.config = [x \in Providers |-> Merged(x, branchRow.config[x],
                           IF x = typed THEN k ELSE IF x \in sent /\ page[x] # NoKey THEN page[x] ELSE NotSet)],
                         !.entry = [x \in Providers |-> IF x = typed THEN e ELSE branchRow.entry[x]],
                         !.listed = branchRow.listed \cup ((sent \cup {typed}) \cap Providers),
                         !.enabled = IF enabled = NotSet THEN branchRow.enabled ELSE enabled] = new
  <2>1. [x \in Providers |-> Merged(x, config[x],
           IF x = typed THEN k ELSE IF x \in sent /\ page[x] # NoKey THEN page[x] ELSE NotSet)] = merged
    BY <1>3, <1>5
  <2> QED
    BY <1>2, <1>10, <1>12, <1>24, <1>26, <2>1
<1>20. Begins(c, call)
  BY <1>1, <1>14, <1>16, <1>17, <1>19, <1>27
<1>21. typed # NotSet => merged[typed].key = k /\ kept = k
  <2> SUFFICES ASSUME typed \in Providers PROVE merged[typed].key = k
    BY <1>27
  <2>1. posted[typed] = k
    BY <1>3
  <2> QED
    BY <1>2, <1>4, <1>6, <1>7, <2>1, MergeKeeps
<1>22. ASSUME NEW x \in Providers, x # typed, x \notin older PROVE merged[x] = config[x]
  <2>1. posted[x] = NotSet \/ (Secret(x) /\ posted[x] = Mask)
    <3>1. CASE x \in sent /\ page[x] # NoKey
      <4>1. x \notin Rsa
        BY <1>16, <1>22, <3>1
      <4> QED
        BY <1>3, <1>22, <3>1, <4>1 DEF SettingsInv, Secret
    <3>2. CASE ~(x \in sent /\ page[x] # NoKey)
      BY <1>3, <1>22, <3>2
    <3> QED
      BY <3>1, <3>2
  <2> QED
    BY <1>2, <1>4, <1>6, <1>7, <2>1, MergeKeeps
<1>23. CallSound(call)
  <2>1. BranchSound(call)
    BY <1>2, <1>8, <1>13, <1>18, <1>21, <1>22 DEF BranchSound, KnownKeys
  <2> QED
    BY <1>18, <2>1 DEF CallSound
<1> QED
  BY <1>18, <1>20, <1>23, RequestBegins

(* The other requests on the settings keep every config as they read it. *)
LEMMA PlainRead ==
  ASSUME SettingsInv, NEW c \in SettingsCalls, NEW new \in SettingsRow, new.config = branchRow.config,
         Begins(c, Reads(new))
  PROVE  SettingsInv'
<1>1. PICK call : call = Reads(new)
  OBVIOUS
<1>2. call \in SettingsCall /\ call.at = "branch" /\ call.row = new /\ call.typed = NotSet
  BY <1>1, BranchCall
<1>3. CallSound(call)
  BY <1>2 DEF CallSound, BranchSound, KnownKeys, SettingsInv
<1> QED
  BY <1>1, <1>2, <1>3, RequestBegins

LEMMA PlainReads ==
  ASSUME SettingsInv, NEW c \in SettingsCalls, ChooseProvider(c) \/ UpdateFeatureFlags(c)
  PROVE  SettingsInv'
<1>1. PICK row \in SettingsRow : row = branchRow
  BY SettingsTyped DEF SettingsInv
<1>2. CASE ChooseProvider(c)
  <2>1. PICK p \in Providers : Begins(c, Reads([row EXCEPT !.provider = p]))
    BY <1>1, <1>2 DEF ChooseProvider
  <2>2. PICK new : new = [row EXCEPT !.provider = p]
    OBVIOUS
  <2>3. new \in SettingsRow /\ new.config = row.config
    BY <2>2 DEF SettingsRow
  <2> QED
    BY <1>1, <2>1, <2>2, <2>3, PlainRead
<1>3. CASE UpdateFeatureFlags(c)
  BY <1>1, <1>3, PlainRead DEF UpdateFeatureFlags
<1> QED
  BY <1>2, <1>3

LEMMA ProviderCreated == ASSUME SettingsInv, NEW c \in SettingsCalls, CreatePaymentProvider(c) PROVE SettingsInv'
<1>1. PICK p \in Providers, k \in Keys \cup {NoKey} :
        Begins(c, [IdleSettingsCall EXCEPT !.at = "insert", !.of = p, !.typed = p, !.value = k,
                     !.platform = [exists |-> TRUE, active |-> TRUE, config |-> Merged(p, Blank, k)]])
  BY DEF CreatePaymentProvider
<1>2. epoch \in 0 .. MaxEpoch
  BY SettingsTyped DEF SettingsInv
<1>3. PICK config : config = Merged(p, Blank, k)
  OBVIOUS
<1>4. config \in Config /\ config.key = k
  <2>1. CASE k \in Keys
    BY <1>2, <1>3, <2>1, FirstTyped, MergeKeeps, NamesApart
  <2>2. CASE k = NoKey
    BY <1>2, <1>3, <2>2, FirstTyped, MergeKeeps
  <2> QED
    BY <2>1, <2>2
<1>5. PICK platform : platform = [exists |-> TRUE, active |-> TRUE, config |-> config]
  OBVIOUS
<1>6. platform \in PlatformRow /\ platform.config = config
  BY <1>4, <1>5 DEF PlatformRow
<1>7. PICK call : call = [IdleSettingsCall EXCEPT !.at = "insert", !.of = p, !.typed = p, !.value = k, !.platform = platform]
  OBVIOUS
<1>8. /\ call \in SettingsCall /\ call.at = "insert" /\ call.of = p /\ call.typed = p /\ call.value = k
      /\ call.platform = platform /\ call.older = {}
  BY <1>6, <1>7, FirstTyped DEF SettingsCall
<1>9. CallSound(call)
  BY <1>4, <1>6, <1>8 DEF CallSound, InsertSound
<1>10. Begins(c, call)
  BY <1>1, <1>3, <1>5, <1>7
<1> QED
  BY <1>8, <1>9, <1>10, RequestBegins

LEMMA ProviderUpdated == ASSUME SettingsInv, NEW c \in SettingsCalls, UpdatePaymentProvider(c) PROVE SettingsInv'
<1>1. PICK p \in Providers, value \in Keys \cup {NotSet, Mask}, active \in BOOLEAN :
        LET offered == IF value = Mask THEN Shown(p, platformRows[p].config) ELSE value
        IN Begins(c, [IdleSettingsCall EXCEPT !.at = "platform", !.of = p,
                       !.typed = IF value \in Keys THEN p ELSE NotSet, !.value = IF value \in Keys THEN value ELSE NoKey,
                       !.platform = [exists |-> TRUE, active |-> active,
                                     config |-> Merged(p, platformRows[p].config, offered)]])
  BY DEF UpdatePaymentProvider
<1>2. epoch \in 0 .. MaxEpoch
  BY SettingsTyped DEF SettingsInv
<1>3. PICK old \in Config : old = platformRows[p].config
  BY SettingsTyped DEF SettingsInv, PlatformRow
<1>4. PICK offered : offered = IF value = Mask THEN Shown(p, old) ELSE value
  OBVIOUS
<1>5. /\ offered \in Keys \cup {NoKey, Mask, NotSet} /\ (value \in Keys => offered = value)
      /\ value \notin Keys => offered = NotSet \/ (Secret(p) /\ offered = Mask) \/ offered = old.key
  BY <1>4, NamesApart DEF Shown, Config
<1>6. PICK config : config = Merged(p, old, offered)
  OBVIOUS
<1>7. config \in Config
  BY <1>2, <1>5, <1>6, MergeKeeps
<1>8. value \in Keys => config.key = value
  BY <1>2, <1>5, <1>6, MergeKeeps
<1>9. value \notin Keys => config.key = old.key
  BY <1>2, <1>5, <1>6, MergeKeeps
<1>10. PICK platform : platform = [exists |-> TRUE, active |-> active, config |-> config]
  OBVIOUS
<1>11. platform \in PlatformRow /\ platform.config = config
  BY <1>7, <1>10 DEF PlatformRow
<1>12. PICK typed \in Providers \cup {NotSet}, v \in Keys \cup {NoKey} :
         typed = (IF value \in Keys THEN p ELSE NotSet) /\ v = IF value \in Keys THEN value ELSE NoKey
  OBVIOUS
<1>13. PICK call : call = [IdleSettingsCall EXCEPT !.at = "platform", !.of = p, !.typed = typed, !.value = v,
                                                   !.platform = platform]
  OBVIOUS
<1>14. /\ call \in SettingsCall /\ call.at = "platform" /\ call.of = p /\ call.typed = typed /\ call.value = v
       /\ call.platform = platform /\ call.older = {}
  BY <1>11, <1>13, FirstTyped DEF SettingsCall
<1>15. CallSound(call)
  <2>1. PlatformSound(call)
    BY <1>3, <1>8, <1>9, <1>11, <1>12, <1>14, NamesApart DEF PlatformSound
  <2> QED
    BY <1>14, <2>1 DEF CallSound
<1>16. Begins(c, call)
  BY <1>1, <1>3, <1>4, <1>6, <1>10, <1>12, <1>13
<1> QED
  BY <1>14, <1>15, <1>16, RequestBegins

---------------------------------------------------------------------------
(* A save ends its request, and every other is stale. *)
LEMMA OthersStale ==
  ASSUME SettingsInv, NEW c \in SettingsCalls, Saved(c), UNCHANGED epoch
  PROVE  /\ settingsCalls' \in [SettingsCalls -> SettingsCall]
         /\ \A d \in SettingsCalls : CallSound(settingsCalls[d])'
<1>1. settingsCalls' = [d \in SettingsCalls |->
        IF d = c THEN IdleSettingsCall
        ELSE [settingsCalls[d] EXCEPT !.stale = settingsCalls[d].at \in {"branch", "platform"}]]
  BY DEF Saved
<1>2. ASSUME NEW d \in SettingsCalls
      PROVE  settingsCalls'[d] \in SettingsCall /\ CallSound(settingsCalls[d])'
  <2>1. CASE d = c
    <3>1. settingsCalls'[d] = IdleSettingsCall
      BY <1>1, <2>1
    <3> QED
      BY <3>1, FirstTyped DEF CallSound
  <2>2. CASE d # c
    <3>1. PICK x \in SettingsCall : x = settingsCalls[d]
      BY SettingsTyped DEF SettingsInv
    <3>2. PICK s \in BOOLEAN : s <=> x.at \in {"branch", "platform"}
      OBVIOUS
    <3>3. PICK y : y = [x EXCEPT !.stale = s]
      OBVIOUS
    <3>4. settingsCalls'[d] = y
      BY <1>1, <2>2, <3>1, <3>2, <3>3
    <3>5. /\ y \in SettingsCall /\ y.at = x.at /\ y.row = x.row /\ y.of = x.of /\ y.platform = x.platform
          /\ y.typed = x.typed /\ y.value = x.value /\ y.older = x.older /\ y.stale = s
      BY <3>3 DEF SettingsCall
    <3>6. CallSound(x) /\ (x.at \in {"branch", "platform"} => s)
      BY <3>1, <3>2 DEF SettingsInv
    <3>7. CallSound(y)'
      <4>1. y.at = "branch" => BranchSound(y)'
        BY <3>5, <3>6 DEF CallSound, BranchSound, KnownKeys
      <4>2. y.at = "insert" => InsertSound(y)'
        BY <3>5, <3>6 DEF CallSound, InsertSound
      <4>3. y.at = "platform" => PlatformSound(y)'
        BY <3>5, <3>6 DEF CallSound, PlatformSound
      <4> QED
        BY <4>1, <4>2, <4>3 DEF CallSound
    <3> QED
      BY <3>4, <3>5, <3>7 DEF CallSound, BranchSound, InsertSound, PlatformSound, KnownKeys
  <2> QED
    BY <2>1, <2>2
<1>3. settingsCalls' \in [SettingsCalls -> SettingsCall]
  BY <1>1, <1>2
<1> QED
  BY <1>2, <1>3

(* What is entered and overtaken, with the key that was typed. *)
LEMMA EnteredIs ==
  ASSUME SettingsInv, NEW c \in SettingsCalls, NEW w \in Row, NEW written \in SUBSET Providers,
         Entered(w, c), Overtakes(w, c, written)
  PROVE  \E me \in SettingsCall :
           /\ me = settingsCalls[c]
           /\ entered' \in [Row -> [Providers -> Keys \cup {NoKey}]] /\ overtaken' \subseteq Row \X Providers
           /\ \A v \in Row, p \in Providers :
                /\ entered'[v][p] = IF v = w /\ p = me.typed THEN me.value ELSE entered[v][p]
                /\ <<v, p>> \in overtaken => <<v, p>> \in overtaken' \/ (v = w /\ p = me.typed)
                /\ v = w /\ p # me.typed /\ (IF me.stale THEN p \in written ELSE p \in me.older) => <<v, p>> \in overtaken'
<1>1. PICK me \in SettingsCall : me = settingsCalls[c]
  BY SettingsTyped DEF SettingsInv
<1>2. PICK e \in [Row -> [Providers -> Keys \cup {NoKey}]] : e = entered
  BY SettingsTyped DEF SettingsInv
<1>3. me.typed \in Providers \cup {NotSet} /\ me.value \in Keys \cup {NoKey} /\ me.older \subseteq Rsa
  BY DEF SettingsCall
<1>4. entered' = IF me.typed = NotSet THEN e ELSE [e EXCEPT ![w][me.typed] = me.value]
  BY <1>1, <1>2 DEF Entered
<1>5. /\ entered' \in [Row -> [Providers -> Keys \cup {NoKey}]]
      /\ \A v \in Row, p \in Providers :
           entered'[v][p] = IF v = w /\ p = me.typed THEN me.value ELSE entered[v][p]
  <2>1. CASE me.typed = NotSet
    <3>1. \A p \in Providers : p # me.typed
      BY <2>1, NamesApart
    <3> QED
      BY <1>2, <1>4, <2>1, <3>1
  <2>2. CASE me.typed # NotSet
    <3>1. PICK row \in [Providers -> Keys \cup {NoKey}] : row = e[w]
      OBVIOUS
    <3>2. PICK new \in [Providers -> Keys \cup {NoKey}] : new = [row EXCEPT ![me.typed] = me.value]
      BY <1>3
    <3>3. entered' = [e EXCEPT ![w] = new]
      BY <1>4, <2>2, <3>1, <3>2
    <3>4. \A p \in Providers : new[p] = IF p = me.typed THEN me.value ELSE row[p]
      BY <1>3, <2>2, <3>2
    <3>5. \A v \in Row : entered'[v] = IF v = w THEN new ELSE e[v]
      BY <3>3
    <3>6. entered' \in [Row -> [Providers -> Keys \cup {NoKey}]]
      BY <3>3
    <3> QED
      BY <1>2, <3>1, <3>4, <3>5, <3>6
  <2> QED
    BY <2>1, <2>2
<1>6. PICK kept : kept = { <<w, p>> : p \in written \ {me.typed} }
  OBVIOUS
<1>7. PICK old : old = { <<w, p>> : p \in me.older }
  OBVIOUS
<1>8. overtaken' = (overtaken \cup (IF me.stale THEN kept ELSE old)) \ {<<w, me.typed>>}
  BY <1>1, <1>6, <1>7 DEF Overtakes
<1>9. kept \subseteq Row \X Providers /\ old \subseteq Row \X Providers
  BY <1>3, <1>6, <1>7, SettingsAssumption
<1>10. overtaken' \subseteq Row \X Providers
  BY <1>8, <1>9, SettingsTyped DEF SettingsInv
<1>11. ASSUME NEW v \in Row, NEW p \in Providers
       PROVE  /\ <<v, p>> \in overtaken => <<v, p>> \in overtaken' \/ (v = w /\ p = me.typed)
              /\ v = w /\ p # me.typed /\ (IF me.stale THEN p \in written ELSE p \in me.older) => <<v, p>> \in overtaken'
  <2>1. <<v, p>> = <<w, me.typed>> <=> v = w /\ p = me.typed
    OBVIOUS
  <2>2. v = w /\ p # me.typed /\ p \in written => <<v, p>> \in kept
    BY <1>6
  <2>3. v = w /\ p \in me.older => <<v, p>> \in old
    BY <1>7
  <2> QED
    BY <1>8, <2>1, <2>2, <2>3
<1> QED
  BY <1>1, <1>5, <1>10, <1>11

LEMMA SettingsSaved == ASSUME SettingsInv, NEW c \in SettingsCalls, SaveSettings(c) PROVE SettingsInv'
<1>1. /\ settingsCalls[c].at = "branch" /\ branchRow' = settingsCalls[c].row
      /\ Entered("branch", c) /\ Overtakes("branch", c, Providers) /\ Saved(c)
      /\ UNCHANGED <<platformRows, epoch, settingsBegun, page>>
  BY DEF SaveSettings
<1>2. "branch" \in Row /\ "platform" \in Row /\ Providers \in SUBSET Providers
  BY DEF Row
<1>3. PICK me \in SettingsCall :
        /\ me = settingsCalls[c]
        /\ entered' \in [Row -> [Providers -> Keys \cup {NoKey}]] /\ overtaken' \subseteq Row \X Providers
        /\ \A v \in Row, p \in Providers :
             /\ entered'[v][p] = IF v = "branch" /\ p = me.typed THEN me.value ELSE entered[v][p]
             /\ <<v, p>> \in overtaken => <<v, p>> \in overtaken' \/ (v = "branch" /\ p = me.typed)
             /\ v = "branch" /\ p # me.typed /\ (IF me.stale THEN p \in Providers ELSE p \in me.older)
                => <<v, p>> \in overtaken'
  BY <1>1, <1>2, EnteredIs
<1>4. BranchSound(me) /\ me.row \in SettingsRow
  BY <1>1, <1>3 DEF SettingsInv, CallSound, SettingsCall
<1>5. settingsCalls' \in [SettingsCalls -> SettingsCall] /\ \A d \in SettingsCalls : CallSound(settingsCalls[d])'
  BY <1>1, OthersStale
<1>6. SettingsTypeOK'
  BY <1>1, <1>3, <1>4, <1>5 DEF SettingsInv, SettingsTypeOK, SettingsCall
<1>7. KnownKeys(branchRow)'
  BY <1>1, <1>3, <1>4 DEF BranchSound, KnownKeys
<1>8. ASSUME NEW p \in Providers
      PROVE  /\ branchRow'.config[p].key = entered'["branch"][p] \/ <<"branch", p>> \in overtaken'
             /\ platformRows'[p].config.key = entered'["platform"][p] \/ <<"platform", p>> \in overtaken'
  <2>1. platformRows'[p].config.key = entered'["platform"][p] \/ <<"platform", p>> \in overtaken'
    <3>1. entered'["platform"][p] = entered["platform"][p]
      BY <1>2, <1>3
    <3>2. <<"platform", p>> \in overtaken => <<"platform", p>> \in overtaken'
      BY <1>2, <1>3
    <3> QED
      BY <1>1, <3>1, <3>2 DEF SettingsInv, StoredKeyIsEntered
  <2>2. CASE p = me.typed
    <3>1. entered'["branch"][p] = me.value /\ me.row.config[p].key = me.value
      BY <1>2, <1>3, <1>4, <2>2, NamesApart DEF BranchSound
    <3> QED
      BY <1>1, <1>3, <2>1, <3>1
  <2>3. CASE p # me.typed /\ (me.stale \/ p \in me.older)
    BY <1>2, <1>3, <2>1, <2>3
  <2>4. CASE p # me.typed /\ ~me.stale /\ p \notin me.older
    <3>1. branchRow'.config[p].key = branchRow.config[p].key
      BY <1>1, <1>3, <1>4, <2>4 DEF BranchSound
    <3>2. entered'["branch"][p] = entered["branch"][p]
      BY <1>2, <1>3, <2>4
    <3>3. <<"branch", p>> \in overtaken => <<"branch", p>> \in overtaken'
      BY <1>2, <1>3, <2>4
    <3> QED
      BY <2>1, <3>1, <3>2, <3>3 DEF SettingsInv, StoredKeyIsEntered
  <2> QED
    BY <2>2, <2>3, <2>4
<1> QED
  BY <1>1, <1>5, <1>6, <1>7, <1>8 DEF SettingsInv, StoredKeyIsEntered, Secret

(* A row of the platform's list is written, with the key typed, the one it had, or an older one. *)
LEMMA PlatformWritten ==
  ASSUME SettingsInv, NEW c \in SettingsCalls, NEW me \in SettingsCall, me = settingsCalls[c],
         NEW of \in Providers, of = me.of, me.at \in {"insert", "platform"},
         platformRows' = [platformRows EXCEPT ![of] = me.platform],
         Entered("platform", c), Overtakes("platform", c, {of}), Saved(c),
         UNCHANGED <<branchRow, epoch, settingsBegun, page>>
  PROVE  SettingsInv'
<1>1. "branch" \in Row /\ "platform" \in Row /\ {of} \in SUBSET Providers
  BY DEF Row
<1>2. \E q \in SettingsCall :
        /\ q = settingsCalls[c]
        /\ entered' \in [Row -> [Providers -> Keys \cup {NoKey}]] /\ overtaken' \subseteq Row \X Providers
        /\ \A v \in Row, p \in Providers :
             /\ entered'[v][p] = IF v = "platform" /\ p = q.typed THEN q.value ELSE entered[v][p]
             /\ <<v, p>> \in overtaken => <<v, p>> \in overtaken' \/ (v = "platform" /\ p = q.typed)
             /\ v = "platform" /\ p # q.typed /\ (IF q.stale THEN p \in {of} ELSE p \in q.older)
                => <<v, p>> \in overtaken'
  BY <1>1, EnteredIs
<1>3. /\ entered' \in [Row -> [Providers -> Keys \cup {NoKey}]] /\ overtaken' \subseteq Row \X Providers
      /\ \A v \in Row, p \in Providers :
           /\ entered'[v][p] = IF v = "platform" /\ p = me.typed THEN me.value ELSE entered[v][p]
           /\ <<v, p>> \in overtaken => <<v, p>> \in overtaken' \/ (v = "platform" /\ p = me.typed)
           /\ v = "platform" /\ p # me.typed /\ (IF me.stale THEN p \in {of} ELSE p \in me.older)
              => <<v, p>> \in overtaken'
  BY <1>2
<1>4. CallSound(me) /\ me.platform \in PlatformRow
  BY DEF SettingsInv, SettingsCall
<1>5. settingsCalls' \in [SettingsCalls -> SettingsCall] /\ \A d \in SettingsCalls : CallSound(settingsCalls[d])'
  BY OthersStale
<1>6. /\ platformRows' \in [Providers -> PlatformRow] /\ platformRows'[of] = me.platform
      /\ \A p \in Providers \ {of} : platformRows'[p] = platformRows[p]
  BY <1>4, SettingsTyped DEF SettingsInv
<1>7. SettingsTypeOK'
  BY <1>3, <1>5, <1>6 DEF SettingsInv, SettingsTypeOK, SettingsCall
<1>8. /\ me.typed \in {of, NotSet} /\ (me.typed = of => me.platform.config.key = me.value)
      /\ me.typed # of /\ ~me.stale => me.platform.config.key = platformRows[of].config.key
  BY <1>4 DEF CallSound, InsertSound, PlatformSound
<1>9. ASSUME NEW p \in Providers
      PROVE  /\ branchRow'.config[p].key = entered'["branch"][p] \/ <<"branch", p>> \in overtaken'
             /\ platformRows'[p].config.key = entered'["platform"][p] \/ <<"platform", p>> \in overtaken'
  <2>1. branchRow'.config[p].key = entered'["branch"][p] \/ <<"branch", p>> \in overtaken'
    <3>1. entered'["branch"][p] = entered["branch"][p]
      BY <1>1, <1>3
    <3>2. <<"branch", p>> \in overtaken => <<"branch", p>> \in overtaken'
      BY <1>1, <1>3
    <3> QED
      BY <3>1, <3>2 DEF SettingsInv, StoredKeyIsEntered
  <2>2. CASE p = me.typed
    <3>1. p = of /\ entered'["platform"][p] = me.value
      BY <1>1, <1>3, <1>8, <2>2, NamesApart
    <3> QED
      BY <1>6, <1>8, <2>1, <2>2, <3>1
  <2>3. CASE p # me.typed /\ p = of /\ me.stale
    BY <1>1, <1>3, <2>1, <2>3
  <2>4. CASE p # me.typed /\ (p # of \/ ~me.stale)
    <3>1. platformRows'[p].config.key = platformRows[p].config.key
      BY <1>6, <1>8, <2>4
    <3>2. entered'["platform"][p] = entered["platform"][p]
      BY <1>1, <1>3, <2>4
    <3>3. <<"platform", p>> \in overtaken => <<"platform", p>> \in overtaken'
      BY <1>1, <1>3, <2>4
    <3> QED
      BY <2>1, <3>1, <3>2, <3>3 DEF SettingsInv, StoredKeyIsEntered
  <2> QED
    BY <2>2, <2>3, <2>4
<1> QED
  BY <1>5, <1>7, <1>9 DEF SettingsInv, StoredKeyIsEntered, Secret, KnownKeys

LEMMA ProviderSaved ==
  ASSUME SettingsInv, NEW c \in SettingsCalls, InsertProvider(c) \/ SaveProvider(c) PROVE SettingsInv'
<1>1. PICK me \in SettingsCall : me = settingsCalls[c]
  BY SettingsTyped DEF SettingsInv
<1>2. me.at \in {"insert", "platform"} /\ me.of \in Providers
  BY <1>1 DEF SettingsInv, CallSound, InsertSound, PlatformSound, InsertProvider, SaveProvider
<1>3. PICK of \in Providers : of = me.of
  BY <1>2
<1>4. \/ /\ UNCHANGED <<platformRows, entered, overtaken>>
         /\ Saved(c) /\ UNCHANGED <<branchRow, epoch, settingsBegun, page>>
      \/ /\ platformRows' = [platformRows EXCEPT ![of] = me.platform]
         /\ Entered("platform", c) /\ Overtakes("platform", c, {of}) /\ Saved(c)
         /\ UNCHANGED <<branchRow, epoch, settingsBegun, page>>
  BY <1>1, <1>3 DEF InsertProvider, SaveProvider
<1>5. CASE UNCHANGED <<platformRows, entered, overtaken>> /\ Saved(c) /\ UNCHANGED <<branchRow, epoch, settingsBegun, page>>
  <2>1. settingsCalls' \in [SettingsCalls -> SettingsCall] /\ \A d \in SettingsCalls : CallSound(settingsCalls[d])'
    BY <1>5, OthersStale
  <2>2. SettingsTypeOK'
    BY <1>5, <2>1 DEF SettingsInv, SettingsTypeOK, SettingsCall
  <2> QED
    BY <1>5, <2>1, <2>2 DEF SettingsInv, StoredKeyIsEntered, Secret, KnownKeys
<1> QED
  BY <1>1, <1>2, <1>3, <1>4, <1>5, PlatformWritten

LEMMA ProviderRemoved == ASSUME SettingsInv, NEW c \in SettingsCalls, RemovePaymentProvider(c) PROVE SettingsInv'
<1>1. PICK p \in Providers :
        /\ settingsBegun < MaxSettingsCalls /\ settingsBegun' = settingsBegun + 1
        /\ platformRows' = [platformRows EXCEPT ![p] = NoPlatformRow]
        /\ entered' = [entered EXCEPT !["platform"][p] = NoKey]
        /\ overtaken' = overtaken \ {<<"platform", p>>}
        /\ Saved(c)
        /\ UNCHANGED <<branchRow, epoch, page>>
  BY DEF RemovePaymentProvider
<1>2. settingsCalls' \in [SettingsCalls -> SettingsCall] /\ \A d \in SettingsCalls : CallSound(settingsCalls[d])'
  BY <1>1, OthersStale
<1>3. settingsBegun' \in 0 .. MaxSettingsCalls
  BY <1>1, SettingsAssumption, SettingsTyped DEF SettingsInv
<1>4. /\ platformRows' \in [Providers -> PlatformRow] /\ platformRows'[p] = NoPlatformRow
      /\ \A q \in Providers \ {p} : platformRows'[q] = platformRows[q]
  BY <1>1, FirstTyped, SettingsTyped DEF SettingsInv
<1>5. PICK e \in [Row -> [Providers -> Keys \cup {NoKey}]] : e = entered
  BY SettingsTyped DEF SettingsInv
<1>6. "branch" \in Row /\ "platform" \in Row
  BY DEF Row
<1>7. PICK row \in [Providers -> Keys \cup {NoKey}] : row = e["platform"]
  BY <1>6
<1>8. PICK new \in [Providers -> Keys \cup {NoKey}] : new = [row EXCEPT ![p] = NoKey]
  OBVIOUS
<1>9. entered' = [e EXCEPT !["platform"] = new]
  BY <1>1, <1>5, <1>7, <1>8
<1>10. /\ entered' \in [Row -> [Providers -> Keys \cup {NoKey}]] /\ entered'["branch"] = entered["branch"]
       /\ entered'["platform"] = new
  BY <1>5, <1>6, <1>9
<1>11. SettingsTypeOK'
  <2>1. overtaken' \subseteq Row \X Providers
    BY <1>1, SettingsTyped DEF SettingsInv
  <2> QED
    BY <1>1, <1>2, <1>3, <1>4, <1>10, <2>1 DEF SettingsInv, SettingsTypeOK, SettingsCall
<1>12. ASSUME NEW q \in Providers
       PROVE  /\ branchRow'.config[q].key = entered'["branch"][q] \/ <<"branch", q>> \in overtaken'
              /\ platformRows'[q].config.key = entered'["platform"][q] \/ <<"platform", q>> \in overtaken'
  <2>1. <<"branch", q>> # <<"platform", p>> /\ (<<"platform", q>> = <<"platform", p>> => q = p)
    OBVIOUS
  <2>2. branchRow'.config[q].key = entered'["branch"][q] \/ <<"branch", q>> \in overtaken'
    BY <1>1, <1>10, <2>1 DEF SettingsInv, StoredKeyIsEntered
  <2>3. CASE q = p
    BY <1>4, <1>8, <1>10, <2>2, <2>3, FirstTyped
  <2>4. CASE q # p
    <3>1. new[q] = entered["platform"][q]
      BY <1>5, <1>7, <1>8, <2>4
    <3> QED
      BY <1>1, <1>4, <1>10, <2>1, <2>2, <2>4, <3>1 DEF SettingsInv, StoredKeyIsEntered
  <2> QED
    BY <2>3, <2>4
<1> QED
  BY <1>1, <1>2, <1>11, <1>12 DEF SettingsInv, StoredKeyIsEntered, Secret, KnownKeys

LEMMA PageOpened == ASSUME SettingsInv, OpenPage PROVE SettingsInv'
<1>1. /\ page' = [p \in Providers |-> Shown(p, branchRow.config[p])]
      /\ UNCHANGED <<branchRow, platformRows, epoch, settingsCalls, settingsBegun, entered, overtaken>>
  BY DEF OpenPage
<1>2. ASSUME NEW p \in Providers
      PROVE  /\ page'[p] \in Keys \cup {NoKey, Mask} /\ (Secret(p) => page'[p] \in {NoKey, Mask})
  <2>1. PICK config \in Config : config = branchRow.config[p]
    BY SettingsTyped DEF SettingsInv, SettingsRow
  <2>2. page'[p] = Shown(p, config) /\ config.key \in Keys \cup {NoKey, Mask}
    BY <1>1, <2>1 DEF Config
  <2> QED
    BY <2>2 DEF Shown
<1>3. page' \in [Providers -> Keys \cup {NoKey, Mask}]
  BY <1>1, <1>2
<1>4. SettingsTypeOK'
  BY <1>1, <1>3 DEF SettingsInv, SettingsTypeOK
<1>5. \A c \in SettingsCalls : CallSound(settingsCalls[c])'
  BY <1>1 DEF SettingsInv, CallSound, BranchSound, InsertSound, PlatformSound, KnownKeys
<1> QED
  BY <1>1, <1>2, <1>4, <1>5 DEF SettingsInv, StoredKeyIsEntered, Secret, KnownKeys

LEMMA Restarted == ASSUME SettingsInv, RestartWithKey PROVE SettingsInv'
<1>1. /\ epoch < MaxEpoch /\ epoch' = epoch + 1 /\ settingsCalls' = [c \in SettingsCalls |-> IdleSettingsCall]
      /\ UNCHANGED <<branchRow, platformRows, settingsBegun, page, entered, overtaken>>
  BY DEF RestartWithKey
<1>2. epoch' \in 0 .. MaxEpoch /\ \A n \in 0 .. MaxEpoch : n <= epoch => n <= epoch'
  BY <1>1, SettingsAssumption, SettingsTyped DEF SettingsInv
<1>3. settingsCalls' \in [SettingsCalls -> SettingsCall] /\ \A c \in SettingsCalls : CallSound(settingsCalls[c])'
  BY <1>1, FirstTyped DEF CallSound
<1>4. SettingsTypeOK'
  BY <1>1, <1>2, <1>3 DEF SettingsInv, SettingsTypeOK, SettingsCall
<1>5. KnownKeys(branchRow)'
  <2>1. PICK row \in SettingsRow, config \in [Providers -> Config] :
          /\ row = branchRow /\ config = row.config
          /\ \A p \in Providers : config[p] \in Config /\ config[p].under <= epoch
    BY RowNow
  <2>2. \A p \in Providers : config[p].under \in 0 .. MaxEpoch
    BY <2>1 DEF Config
  <2>3. \A p \in Providers : config[p].under <= epoch'
    BY <1>2, <2>1, <2>2
  <2> QED
    BY <1>1, <2>1, <2>3 DEF KnownKeys
<1> QED
  BY <1>1, <1>3, <1>4, <1>5 DEF SettingsInv, StoredKeyIsEntered, Secret

LEMMA SettingsStep == ASSUME SettingsInv, [SettingsNext]_settingsVars PROVE SettingsInv'
<1>1. CASE UNCHANGED settingsVars
  BY <1>1 DEF SettingsInv, SettingsTypeOK, CallSound, BranchSound, InsertSound, PlatformSound, KnownKeys,
              StoredKeyIsEntered, Secret, settingsVars
<1>2. CASE SettingsNext
  BY <1>2, SettingsUpdate, PlainReads, ProviderCreated, ProviderUpdated, SettingsSaved, ProviderSaved,
     ProviderRemoved, PageOpened, Restarted DEF SettingsNext
<1> QED
  BY <1>1, <1>2

(* Whatever requests overlap, pages post back and restarts change, the settings stay as SettingsInv says *)
(* (branch/branch.controller.ts, admin/admin.service.ts).                                               *)
THEOREM SettingsInvariant == SettingsSpec => []SettingsInv
  BY SettingsInitial, SettingsStep, PTL DEF SettingsSpec

LEMMA KeysImplied == ASSUME SettingsInv PROVE KeysAreEntered
<1>1. ASSUME NEW p \in AutoConfirmed, branchRow.entry[p] = [type |-> "webhook", method |-> OwnMethod(p)]
      PROVE  \/ VerifiesWith(p) \in Keys /\ VerifiesWith(p) = entered["branch"][p]
             \/ <<"branch", p>> \in overtaken \/ branchRow.config[p].under < epoch
  <2>1. p \in Providers /\ Configured(p)
    BY SettingsTyped DEF SettingsInv, SettingsRow, AutoConfirmed
  <2>2. PICK row \in SettingsRow, config \in [Providers -> Config] :
          /\ row = branchRow /\ config = row.config
          /\ \A q \in Providers : config[q] \in Config /\ config[q].under <= epoch
    BY RowNow
  <2>3. PICK u \in 0 .. MaxEpoch, e \in 0 .. MaxEpoch : u = config[p].under /\ e = epoch
    BY <2>1, SettingsTyped DEF SettingsInv, Config
  <2>4. u = e \/ u < e
    BY <2>1, <2>2, <2>3
  <2>5. branchRow.entry[p].type = "webhook" /\ branchRow.entry[p].method = OwnMethod(p)
    BY <1>1
  <2>6. branchRow.config[p].key # NoKey
    BY <2>1, <2>5 DEF Configured
  <2>7. u = e => VerifiesWith(p) = branchRow.config[p].key
    BY <2>2, <2>3, <2>5 DEF VerifiesWith
  <2>8. entered["branch"][p] \in Keys \cup {NoKey}
    BY <2>1, SettingsTyped DEF SettingsInv, Row
  <2> QED
    BY <2>1, <2>2, <2>3, <2>4, <2>6, <2>7, <2>8 DEF SettingsInv, StoredKeyIsEntered
<1> QED
  BY <1>1 DEF SettingsInv, KeysAreEntered, AutoConfirmedIsVerified

(* Rows, requests and histories keep their types. *)
THEOREM SettingsTypeCorrect == SettingsSpec => []SettingsTypeOK
<1>1. SettingsInv => SettingsTypeOK
  BY DEF SettingsInv
<1> QED
  BY <1>1, SettingsInvariant, PTL

(* A provider's stored key is the last one somebody typed, but for saves of an older copy and old pages of    *)
(* public keys; a webhook whose type and method are its own, and which guests are told confirms itself, is   *)
(* verified with it, but for restarts under another key (updateSettings, the platform's providers,           *)
(* payment/provider-secrets.ts, buildPaymentMethods).                                                         *)
THEOREM KeysAreEnteredAlways == SettingsSpec => []KeysAreEntered
  BY KeysImplied, SettingsInvariant, PTL

---------------------------------------------------------------------------
(***************************************************************************)
(* Tracking.  A code that was not drawn twice has one holder: the tab it is *)
(* stored with, the guest whose page holds it, or the one request that has  *)
(* drawn it.  An order that opened a group has the terms its page was       *)
(* handed, unless no page sent it, and every other order has the terms of   *)
(* one that opened the group.  A scope once called paid has a bill that is  *)
(* paid, or that a stale save un-paid.                                      *)
(***************************************************************************)

TrackCall ==
  [at: {"idle", "drawn", "add", "page", "review"}, code: CodeNames \cup {NoCode}, tab: TrackedTabs \cup {NoTab},
   guest: Guests \cup {NoGuest}, mode: Modes, fee: Prices, opened: BOOLEAN,
   scope: Scopes \cup {NoScope}, wasPaid: BOOLEAN]

TrackedTab == [code: CodeNames \cup {NoCode}, status: {"none", "open", "paid"}]
Handed == [code: CodeNames \cup {NoCode}, mode: Modes, fee: Prices]
TrackBill == [scope: Scopes \cup {NoScope}, status: {"none", "pending", "paid", "voided"}, reopened: BOOLEAN]
ShownPage == [scope: Scopes \cup {NoScope}, status: {"none", "pending", "paid", "voided"}, wasPaid: BOOLEAN]

TrackTyped ==
  /\ tabs \in [TrackedTabs -> TrackedTab] /\ handed \in [Guests -> Handed]
  /\ groupRounds \subseteq Round
  /\ trackBills \in [TrackBills -> TrackBill] /\ reviews \in [Reviews -> Scopes \cup {NoScope}]
  /\ trackCalls \in [TrackCalls -> TrackCall] /\ trackBegun \in 0 .. MaxTrackCalls
  /\ drawnTwice \subseteq CodeNames /\ uninvited \subseteq CodeNames /\ reviewedAtOnce \subseteq Scopes /\ shown \in ShownPage

(* Who holds a code, from the draw on. *)
GuestHolds(g, code) ==
  handed[g].code = code \/ \E c \in TrackCalls : TrackCallAt(c, "drawn") /\ trackCalls[c].guest = g /\ trackCalls[c].code = code
TabHolds(t, code) ==
  tabs[t].code = code \/ \E c \in TrackCalls : TrackCallAt(c, "drawn") /\ trackCalls[c].tab = t /\ trackCalls[c].code = code
OneHolder(code) ==
  /\ \A g, h \in Guests : GuestHolds(g, code) /\ GuestHolds(h, code) => g = h
  /\ \A t, u \in TrackedTabs : TabHolds(t, code) /\ TabHolds(u, code) => t = u
  /\ \A g \in Guests, t \in TrackedTabs : ~(GuestHolds(g, code) /\ TabHolds(t, code))

(* A guest's draw is the only one, and comes before the answer. *)
DrawsSound ==
  \A c \in TrackCalls : TrackCallAt(c, "drawn") =>
    /\ trackCalls[c].code \in CodeNames
    /\ trackCalls[c].guest \in Guests =>
         /\ handed[trackCalls[c].guest].code = NoCode
         /\ \A d \in TrackCalls : TrackCallAt(d, "drawn") /\ trackCalls[d].guest = trackCalls[c].guest => d = c

CodesHeld == DrawsSound /\ \A code \in CodeNames \ drawnTwice : OneHolder(code)

(* A round, stored or about to be, opened its group on the terms its page was handed, or has the terms of one *)
(* that did open it.                                                                                          *)
Agrees(r, quote) == r.mode = quote.mode /\ (r.fee = quote.fee \/ (r.mode = "dispatch" /\ quote.fee = 0))
RoundSound(r) ==
  /\ r.guest \in Guests /\ r.code \in CodeNames /\ (r.mode = "dispatch" => r.fee # 0)
  /\ r.opened /\ r.code \notin uninvited => handed[r.guest].code = r.code /\ Agrees(r, handed[r.guest])
  /\ ~r.opened => \E o \in groupRounds : o.opened /\ o.code = r.code /\ o.mode = r.mode /\ o.fee = r.fee

RoundsSound ==
  /\ \A r \in groupRounds : RoundSound(r)
  /\ \A c \in TrackCalls : TrackCallAt(c, "add") => RoundSound(trackCalls[c])

Issued == { b \in TrackBills : trackBills[b].status # "none" }
BillsSound ==
  /\ IsFiniteSet(Issued)
  /\ \A b \in TrackBills : trackBills[b].status = "none" <=> trackBills[b].scope = NoScope
  /\ \A t \in TrackedTabs : tabs[t].status = "paid" => PaidOnce(t)

SeveralBills(s) == \E x, y \in BillsOf(s) : x # y
Reopened(s) == \E b \in BillsOf(s) : trackBills[b].reopened
PagesSound ==
  /\ \A c \in TrackCalls :
       TrackCallAt(c, "page") /\ trackCalls[c].wasPaid => trackCalls[c].scope \in Scopes /\ PaidOnce(trackCalls[c].scope)
  /\ shown.wasPaid => /\ shown.scope \in Scopes
                      /\ shown.status \in {"paid", "none"} \/ SeveralBills(shown.scope) \/ Reopened(shown.scope)

ReviewsSound ==
  \A s \in Scopes \ reviewedAtOnce :
    /\ \A r, q \in Reviewed(s) : r = q
    /\ \A c \in TrackCalls : TrackCallAt(c, "review") /\ trackCalls[c].scope = s =>
         /\ Reviewed(s) = {}
         /\ \A d \in TrackCalls : TrackCallAt(d, "review") /\ trackCalls[d].scope = s => d = c

TrackInv == TrackTyped /\ CodesHeld /\ RoundsSound /\ BillsSound /\ PagesSound /\ ReviewsSound

---------------------------------------------------------------------------
LEMMA IdleTrackCallTyped ==
  /\ IdleTrackCall \in TrackCall /\ IdleTrackCall.at = "idle" /\ IdleTrackCall.tab = NoTab
  /\ IdleTrackCall.guest = NoGuest /\ IdleTrackCall.code = NoCode
<1>1. FALSE \in BOOLEAN /\ "self" \in Modes /\ 0 \in Prices
  BY DEF Modes, Prices
<1> QED
  BY <1>1 DEF IdleTrackCall, TrackCall

LEMMA TrackInitial == TrackInit => TrackInv
<1> SUFFICES ASSUME TrackInit PROVE TrackInv
  OBVIOUS
<1>1. /\ groupRounds = {} /\ reviews = [r \in Reviews |-> NoScope] /\ trackCalls = [c \in TrackCalls |-> IdleTrackCall]
      /\ trackBegun = 0 /\ drawnTwice = {} /\ uninvited = {} /\ reviewedAtOnce = {}
  BY DEF TrackInit
<1>2. shown = [scope |-> NoScope, status |-> "none", wasPaid |-> FALSE]
  BY DEF TrackInit, Unshown
<1>3. PICK tab \in TrackedTab : tab = [code |-> NoCode, status |-> "none"]
  BY DEF TrackedTab
<1>4. PICK none \in Handed : none = [code |-> NoCode, mode |-> "self", fee |-> 0]
  BY DEF Handed, Modes, Prices
<1>5. PICK bill \in TrackBill : bill = [scope |-> NoScope, status |-> "none", reopened |-> FALSE]
  BY DEF TrackBill
<1>6. tabs = [t \in TrackedTabs |-> tab] /\ handed = [g \in Guests |-> none] /\ trackBills = [b \in TrackBills |-> bill]
  BY <1>3, <1>4, <1>5 DEF TrackInit
<1>7. /\ \A t \in TrackedTabs : tabs[t].code = NoCode /\ tabs[t].status = "none"
      /\ \A g \in Guests : handed[g].code = NoCode
      /\ \A b \in TrackBills : trackBills[b].status = "none" /\ trackBills[b].scope = NoScope
      /\ \A c \in TrackCalls : trackCalls[c].at = "idle"
      /\ \A r \in Reviews : reviews[r] = NoScope
  BY <1>1, <1>3, <1>4, <1>5, <1>6, IdleTrackCallTyped
<1>8. TrackTyped
  <2>1. shown \in ShownPage /\ shown.wasPaid = FALSE
    BY <1>2 DEF ShownPage
  <2>2. 0 \in 0 .. MaxTrackCalls
    BY TrackingAssumption
  <2>3. /\ tabs \in [TrackedTabs -> TrackedTab] /\ handed \in [Guests -> Handed]
        /\ trackBills \in [TrackBills -> TrackBill]
    BY <1>6
  <2>4. trackCalls \in [TrackCalls -> TrackCall] /\ reviews \in [Reviews -> Scopes \cup {NoScope}]
    BY <1>1, IdleTrackCallTyped
  <2> QED
    BY <1>1, <2>1, <2>2, <2>3, <2>4 DEF TrackTyped
<1>9. CodesHeld
  <2>1. \A g \in Guests, code \in CodeNames : ~GuestHolds(g, code)
    BY <1>7, TrackingAssumption DEF GuestHolds, TrackCallAt
  <2>2. \A t \in TrackedTabs, code \in CodeNames : ~TabHolds(t, code)
    BY <1>7, TrackingAssumption DEF TabHolds, TrackCallAt
  <2> QED
    BY <1>7, <2>1, <2>2 DEF CodesHeld, DrawsSound, OneHolder, TrackCallAt
<1>10. RoundsSound
  BY <1>1, <1>7 DEF RoundsSound, TrackCallAt
<1>11. BillsSound
  <2>1. Issued = {}
    BY <1>7 DEF Issued
  <2> QED
    BY <1>7, <2>1, FS_EmptySet DEF BillsSound
<1>12. PagesSound
  BY <1>2, <1>7 DEF PagesSound, TrackCallAt
<1>13. ReviewsSound
  BY <1>7, TrackingAssumption DEF ReviewsSound, Reviewed, TrackCallAt, Scopes
<1> QED
  BY <1>8, <1>9, <1>10, <1>11, <1>12, <1>13 DEF TrackInv

---------------------------------------------------------------------------
(* What the step of one call leaves as it was. *)

LEMMA TrackCallReplaced ==
  ASSUME TrackInv, NEW c \in TrackCalls, NEW call \in TrackCall, trackCalls' = [trackCalls EXCEPT ![c] = call]
  PROVE  /\ trackCalls' \in [TrackCalls -> TrackCall] /\ trackCalls'[c] = call
         /\ \A d \in TrackCalls \ {c} : trackCalls'[d] = trackCalls[d]
  BY DEF TrackInv, TrackTyped

LEMMA CodesStay ==
  ASSUME TrackInv, NEW c \in TrackCalls, NEW call \in TrackCall, call.at # "drawn",
         trackCalls' = [trackCalls EXCEPT ![c] = call], UNCHANGED <<handed, drawnTwice>>,
         \A t \in TrackedTabs : tabs'[t].code = tabs[t].code
  PROVE  CodesHeld'
<1>1. \A d \in TrackCalls : TrackCallAt(d, "drawn")' => TrackCallAt(d, "drawn") /\ trackCalls'[d] = trackCalls[d]
  BY TrackCallReplaced DEF TrackCallAt
<1>2. DrawsSound'
  BY <1>1 DEF TrackInv, CodesHeld, DrawsSound
<1>3. \A g \in Guests, code \in CodeNames : GuestHolds(g, code)' => GuestHolds(g, code)
  BY <1>1 DEF GuestHolds
<1>4. \A t \in TrackedTabs, code \in CodeNames : TabHolds(t, code)' => TabHolds(t, code)
  BY <1>1 DEF TabHolds
<1>5. \A code \in CodeNames : OneHolder(code) => OneHolder(code)'
  BY <1>3, <1>4 DEF OneHolder
<1> QED
  BY <1>2, <1>5 DEF TrackInv, CodesHeld

(* What was said of a round stays true. *)
LEMMA RoundStays ==
  ASSUME \A g \in Guests : handed[g].code \in CodeNames => handed'[g] = handed[g],
         groupRounds \subseteq groupRounds', uninvited \subseteq uninvited'
  PROVE  \A r : RoundSound(r) => RoundSound(r)'
  BY DEF RoundSound, Agrees

LEMMA GroupRoundsStay ==
  ASSUME TrackInv, NEW c \in TrackCalls, NEW call \in TrackCall, call.at # "add",
         trackCalls' = [trackCalls EXCEPT ![c] = call], UNCHANGED <<groupRounds, handed, uninvited>>
  PROVE  RoundsSound'
<1>1. \A d \in TrackCalls : TrackCallAt(d, "add")' => TrackCallAt(d, "add") /\ trackCalls'[d] = trackCalls[d]
  BY TrackCallReplaced DEF TrackCallAt
<1>2. \A r : RoundSound(r) => RoundSound(r)'
  BY RoundStays
<1>3. ASSUME NEW d \in TrackCalls, TrackCallAt(d, "add")' PROVE RoundSound(trackCalls[d])'
  <2>1. PICK r : r = trackCalls[d]
    OBVIOUS
  <2>2. RoundSound(r)'
    BY <1>1, <1>2, <1>3, <2>1 DEF TrackInv, RoundsSound
  <2>3. trackCalls'[d] = r
    BY <1>1, <1>3, <2>1
  <2> QED
    BY <2>2, <2>3 DEF RoundSound, Agrees
<1>4. \A r \in groupRounds' : RoundSound(r)'
  BY <1>2 DEF TrackInv, RoundsSound
<1> QED
  BY <1>3, <1>4 DEF RoundsSound

LEMMA PagesStay ==
  ASSUME TrackInv, NEW c \in TrackCalls, NEW call \in TrackCall, call.at # "page",
         trackCalls' = [trackCalls EXCEPT ![c] = call], UNCHANGED <<trackBills, shown>>
  PROVE  PagesSound'
<1>1. \A d \in TrackCalls : TrackCallAt(d, "page")' => TrackCallAt(d, "page") /\ trackCalls'[d] = trackCalls[d]
  BY TrackCallReplaced DEF TrackCallAt
<1>2. \A s : PaidOnce(s)' <=> PaidOnce(s)
  BY DEF PaidOnce, BillsOf
<1>3. \A s : (SeveralBills(s)' <=> SeveralBills(s)) /\ (Reopened(s)' <=> Reopened(s))
  BY DEF SeveralBills, Reopened, BillsOf
<1> QED
  BY <1>1, <1>2, <1>3 DEF TrackInv, PagesSound

LEMMA ReviewsStay ==
  ASSUME TrackInv, NEW c \in TrackCalls, NEW call \in TrackCall, call.at # "review",
         trackCalls' = [trackCalls EXCEPT ![c] = call], UNCHANGED reviews, reviewedAtOnce \subseteq reviewedAtOnce'
  PROVE  ReviewsSound'
<1>1. \A d \in TrackCalls : TrackCallAt(d, "review")' => TrackCallAt(d, "review") /\ trackCalls'[d] = trackCalls[d]
  BY TrackCallReplaced DEF TrackCallAt
<1>2. \A s : Reviewed(s)' = Reviewed(s)
  BY DEF Reviewed
<1> QED
  BY <1>1, <1>2 DEF TrackInv, ReviewsSound

LEMMA BillsAsTabs ==
  ASSUME TrackInv, UNCHANGED trackBills, \A t \in TrackedTabs : tabs'[t].status = "paid" => tabs[t].status = "paid"
  PROVE  BillsSound'
<1>1. \A s : PaidOnce(s)' <=> PaidOnce(s)
  BY DEF PaidOnce, BillsOf
<1> QED
  BY <1>1 DEF TrackInv, BillsSound, Issued

LEMMA BillsStay == ASSUME TrackInv, UNCHANGED tabs, UNCHANGED trackBills PROVE BillsSound'
  BY BillsAsTabs

LEMMA TrackCounted ==
  ASSUME TrackInv, NEW c \in TrackCalls, NEW call, BeginTrackCall(c, call)
  PROVE  trackBegun' \in 0 .. MaxTrackCalls /\ trackCalls[c].at = "idle" /\ trackCalls' = [trackCalls EXCEPT ![c] = call]
  BY TrackingAssumption DEF BeginTrackCall, TrackInv, TrackTyped, TrackCallAt

(* A call that ends with nothing written. *)
LEMMA TrackCallEnds ==
  ASSUME TrackInv, NEW c \in TrackCalls, trackCalls' = [trackCalls EXCEPT ![c] = IdleTrackCall],
         trackBegun' \in 0 .. MaxTrackCalls, reviewedAtOnce \subseteq reviewedAtOnce', reviewedAtOnce' \subseteq Scopes,
         UNCHANGED <<tabs, handed, groupRounds, trackBills, reviews, drawnTwice, uninvited, shown>>
  PROVE  TrackInv'
<1>1. trackCalls' \in [TrackCalls -> TrackCall]
  BY IdleTrackCallTyped, TrackCallReplaced
<1>2. CodesHeld' /\ RoundsSound' /\ PagesSound' /\ ReviewsSound' /\ BillsSound'
  BY IdleTrackCallTyped, CodesStay, GroupRoundsStay, PagesStay, ReviewsStay, BillsStay
<1>3. TrackTyped'
  BY <1>1 DEF TrackInv, TrackTyped
<1> QED
  BY <1>2, <1>3 DEF TrackInv

---------------------------------------------------------------------------
(* generateUniqueCode: a code that nobody held has one holder now. *)
LEMMA CodeDrawn ==
  ASSUME TrackInv, NEW c \in TrackCalls, NEW call \in TrackCall, NEW code \in CodeNames, FreeCode(code), Drawn(code),
         call.at = "drawn", call.code = code, BeginTrackCall(c, call),
         call.guest \in Guests => /\ handed[call.guest].code = NoCode
                                  /\ \A d \in TrackCalls : trackCalls[d].guest # call.guest \/ ~TrackCallAt(d, "drawn"),
         call.guest \in Guests => call.tab = NoTab,
         UNCHANGED <<tabs, handed, groupRounds, trackBills, reviews, uninvited, reviewedAtOnce, shown>>
  PROVE  TrackInv'
<1>1. trackBegun' \in 0 .. MaxTrackCalls /\ trackCalls[c].at = "idle" /\ trackCalls' = [trackCalls EXCEPT ![c] = call]
  BY TrackCounted
<1>2. /\ trackCalls' \in [TrackCalls -> TrackCall] /\ trackCalls'[c] = call
      /\ \A d \in TrackCalls \ {c} : trackCalls'[d] = trackCalls[d]
  BY <1>1, TrackCallReplaced
<1>3. drawnTwice \subseteq drawnTwice' /\ drawnTwice' \subseteq drawnTwice \cup {code}
  BY DEF Drawn
<1>4. RoundsSound' /\ PagesSound' /\ ReviewsSound' /\ BillsSound'
  BY <1>1, <1>3, GroupRoundsStay, PagesStay, ReviewsStay, BillsStay
<1>5. TrackTyped'
  BY <1>1, <1>2, <1>3 DEF TrackInv, TrackTyped
<1>6. \A d \in TrackCalls : TrackCallAt(d, "drawn")' =>
        d = c \/ (TrackCallAt(d, "drawn") /\ trackCalls'[d] = trackCalls[d])
  BY <1>2 DEF TrackCallAt
<1>7. DrawsSound'
  <2> SUFFICES ASSUME NEW d \in TrackCalls, TrackCallAt(d, "drawn")'
               PROVE  /\ trackCalls'[d].code \in CodeNames
                      /\ trackCalls'[d].guest \in Guests =>
                           /\ handed[trackCalls'[d].guest].code = NoCode
                           /\ \A e \in TrackCalls :
                                TrackCallAt(e, "drawn")' /\ trackCalls'[e].guest = trackCalls'[d].guest => e = d
    BY DEF DrawsSound
  <2>1. CASE d = c
    BY <1>2, <1>6, <2>1
  <2>2. CASE d # c
    BY <1>2, <1>6, <2>2 DEF TrackInv, CodesHeld, DrawsSound
  <2> QED
    BY <2>1, <2>2
<1>8. ASSUME NEW k \in CodeNames, k # code, OneHolder(k) PROVE OneHolder(k)'
  <2>1. \A g \in Guests : GuestHolds(g, k)' => GuestHolds(g, k)
    BY <1>2, <1>6, <1>8 DEF GuestHolds
  <2>2. \A t \in TrackedTabs : TabHolds(t, k)' => TabHolds(t, k)
    BY <1>2, <1>6, <1>8 DEF TabHolds
  <2> QED
    BY <1>8, <2>1, <2>2 DEF OneHolder
<1>9. ASSUME code \notin drawnTwice' PROVE OneHolder(code)'
  <2>1. ~HeldUnstored(code)
    BY <1>9 DEF Drawn
  <2>2. /\ \A g \in Guests : handed[g].code # code
        /\ \A d \in TrackCalls : ~(TrackCallAt(d, "drawn") /\ trackCalls[d].code = code)
        /\ \A t \in TrackedTabs : tabs[t].code # code
    BY <2>1 DEF HeldUnstored, FreeCode, TabWith
  <2>3. \A g \in Guests : GuestHolds(g, code)' => call.guest = g
    BY <1>2, <1>6, <2>2 DEF GuestHolds
  <2>4. \A t \in TrackedTabs : TabHolds(t, code)' => call.tab = t
    BY <1>2, <1>6, <2>2 DEF TabHolds
  <2> QED
    BY <2>3, <2>4, TrackingAssumption DEF OneHolder
<1>10. CodesHeld'
  BY <1>3, <1>7, <1>8, <1>9 DEF TrackInv, CodesHeld
<1> QED
  BY <1>4, <1>5, <1>10 DEF TrackInv

LEMMA TabDraws == ASSUME TrackInv, NEW c \in TrackCalls, OpenTabDraws(c) PROVE TrackInv'
<1>1. PICK t \in TrackedTabs, code \in { k \in CodeNames : FreeCode(k) } :
        /\ BeginTrackCall(c, [IdleTrackCall EXCEPT !.at = "drawn", !.code = code, !.tab = t])
        /\ Drawn(code)
        /\ UNCHANGED <<tabs, handed, groupRounds, trackBills, reviews, uninvited, reviewedAtOnce, shown>>
  BY DEF OpenTabDraws
<1>2. PICK call : call = [IdleTrackCall EXCEPT !.at = "drawn", !.code = code, !.tab = t]
  OBVIOUS
<1>3. call \in TrackCall /\ call.at = "drawn" /\ call.code = code /\ call.guest = NoGuest
  BY <1>2, IdleTrackCallTyped DEF TrackCall
<1>4. call.guest \notin Guests
  BY <1>3, TrackingAssumption
<1> QED
  BY <1>1, <1>2, <1>3, <1>4, CodeDrawn

LEMMA GroupDraws == ASSUME TrackInv, NEW c \in TrackCalls, OpenGroupDraws(c) PROVE TrackInv'
<1>1. PICK g \in Guests, code \in { k \in CodeNames : FreeCode(k) }, mode \in Modes, fee \in Prices :
        /\ handed[g].code = NoCode /\ \A d \in TrackCalls : trackCalls[d].guest # g \/ ~TrackCallAt(d, "drawn")
        /\ BeginTrackCall(c, [IdleTrackCall EXCEPT !.at = "drawn", !.code = code, !.guest = g, !.mode = mode, !.fee = fee])
        /\ Drawn(code)
        /\ UNCHANGED <<tabs, handed, groupRounds, trackBills, reviews, uninvited, reviewedAtOnce, shown>>
  BY DEF OpenGroupDraws
<1>2. PICK call : call = [IdleTrackCall EXCEPT !.at = "drawn", !.code = code, !.guest = g, !.mode = mode, !.fee = fee]
  OBVIOUS
<1>3. call \in TrackCall /\ call.at = "drawn" /\ call.code = code /\ call.guest = g /\ call.tab = NoTab
  BY <1>2, IdleTrackCallTyped DEF TrackCall
<1> QED
  BY <1>1, <1>2, <1>3, CodeDrawn

(* The row, and the answer, take over what the request held. *)
LEMMA TabInserted == ASSUME TrackInv, NEW c \in TrackCalls, InsertTab(c) PROVE TrackInv'
<1>1. PICK me \in TrackCall : me = trackCalls[c]
  BY DEF TrackInv, TrackTyped
<1>2. PICK t \in TrackedTabs : t = me.tab
  BY <1>1 DEF InsertTab, TrackCall
<1>3. PICK code \in CodeNames : code = me.code
  BY <1>1 DEF InsertTab, TrackInv, CodesHeld, DrawsSound
<1>4. PICK row \in TrackedTab : row = [code |-> code, status |-> "open"]
  BY DEF TrackedTab
<1>5. /\ trackCalls[c].at = "drawn" /\ tabs' = IF TabWith(code) THEN tabs ELSE [tabs EXCEPT ![t] = row]
      /\ trackCalls' = [trackCalls EXCEPT ![c] = IdleTrackCall]
      /\ UNCHANGED <<trackBegun, handed, groupRounds, trackBills, reviews, drawnTwice, uninvited, reviewedAtOnce, shown>>
  BY <1>1, <1>2, <1>3, <1>4 DEF InsertTab, EndTrackCall, TrackCallAt
<1>6. /\ tabs' \in [TrackedTabs -> TrackedTab]
      /\ \A u \in TrackedTabs : tabs'[u] = tabs[u] \/ (u = t /\ tabs'[u].code = code /\ tabs'[u].status = "open")
  BY <1>4, <1>5 DEF TrackInv, TrackTyped
<1>7. trackCalls' \in [TrackCalls -> TrackCall]
  BY <1>5, IdleTrackCallTyped, TrackCallReplaced
<1>8. RoundsSound' /\ PagesSound' /\ ReviewsSound' /\ BillsSound'
  <2>1. \A u \in TrackedTabs : tabs'[u].status = "paid" => tabs[u].status = "paid"
    BY <1>6
  <2>2. BillsSound'
    BY <1>5, <2>1, BillsAsTabs
  <2> QED
    BY <1>5, <2>2, IdleTrackCallTyped, GroupRoundsStay, PagesStay, ReviewsStay
<1>9. TrackTyped'
  BY <1>5, <1>6, <1>7 DEF TrackInv, TrackTyped
<1>10. \A d \in TrackCalls : TrackCallAt(d, "drawn")' => TrackCallAt(d, "drawn") /\ trackCalls'[d] = trackCalls[d]
  BY <1>5, IdleTrackCallTyped, TrackCallReplaced DEF TrackCallAt
<1>11. DrawsSound'
  BY <1>5, <1>10 DEF TrackInv, CodesHeld, DrawsSound
<1>12. \A g \in Guests, k \in CodeNames : GuestHolds(g, k)' => GuestHolds(g, k)
  BY <1>5, <1>10 DEF GuestHolds
<1>13. \A u \in TrackedTabs, k \in CodeNames : TabHolds(u, k)' => TabHolds(u, k)
  BY <1>1, <1>2, <1>3, <1>5, <1>6, <1>10 DEF TabHolds, TrackCallAt
<1>14. \A k \in CodeNames : OneHolder(k) => OneHolder(k)'
  BY <1>12, <1>13 DEF OneHolder
<1>15. CodesHeld'
  BY <1>5, <1>11, <1>14 DEF TrackInv, CodesHeld
<1> QED
  BY <1>8, <1>9, <1>15 DEF TrackInv

LEMMA GroupAnswered == ASSUME TrackInv, NEW c \in TrackCalls, AnswerGroup(c) PROVE TrackInv'
<1>1. PICK me \in TrackCall : me = trackCalls[c]
  BY DEF TrackInv, TrackTyped
<1>2. PICK g \in Guests : g = me.guest
  BY <1>1 DEF AnswerGroup, TrackCall
<1>3. PICK code \in CodeNames : code = me.code
  BY <1>1 DEF AnswerGroup, TrackInv, CodesHeld, DrawsSound
<1>4. PICK row \in Handed : row = [code |-> code, mode |-> me.mode, fee |-> me.fee]
  BY DEF Handed, TrackCall
<1>5. /\ trackCalls[c].at = "drawn" /\ handed' = [handed EXCEPT ![g] = row]
      /\ trackCalls' = [trackCalls EXCEPT ![c] = IdleTrackCall]
      /\ UNCHANGED <<trackBegun, tabs, groupRounds, trackBills, reviews, drawnTwice, uninvited, reviewedAtOnce, shown>>
  BY <1>1, <1>2, <1>3, <1>4 DEF AnswerGroup, EndTrackCall, TrackCallAt
<1>6. /\ handed[g].code = NoCode
      /\ \A d \in TrackCalls : TrackCallAt(d, "drawn") /\ trackCalls[d].guest = g => d = c
  BY <1>1, <1>2, <1>5 DEF TrackInv, CodesHeld, DrawsSound, TrackCallAt
<1>7. /\ handed' \in [Guests -> Handed] /\ handed'[g].code = code
      /\ \A h \in Guests \ {g} : handed'[h] = handed[h]
  BY <1>4, <1>5 DEF TrackInv, TrackTyped
<1>8. /\ trackCalls' \in [TrackCalls -> TrackCall] /\ trackCalls'[c].at = "idle"
      /\ \A d \in TrackCalls \ {c} : trackCalls'[d] = trackCalls[d]
  BY <1>5, IdleTrackCallTyped, TrackCallReplaced
<1>9. PagesSound' /\ ReviewsSound' /\ BillsSound'
  BY <1>5, IdleTrackCallTyped, PagesStay, ReviewsStay, BillsStay
<1>10. TrackTyped'
  BY <1>5, <1>7, <1>8 DEF TrackInv, TrackTyped
<1>11. \A r : RoundSound(r) => RoundSound(r)'
  BY <1>5, <1>6, <1>7, TrackingAssumption, RoundStays
<1>12. RoundsSound'
  <2>1. \A r \in groupRounds' : RoundSound(r)'
    BY <1>5, <1>11 DEF TrackInv, RoundsSound
  <2>2. ASSUME NEW d \in TrackCalls, TrackCallAt(d, "add")' PROVE RoundSound(trackCalls[d])'
    <3>1. TrackCallAt(d, "add") /\ trackCalls'[d] = trackCalls[d]
      BY <1>8, <2>2 DEF TrackCallAt
    <3>2. PICK r : r = trackCalls[d]
      OBVIOUS
    <3>3. RoundSound(r)'
      BY <1>11, <3>1, <3>2 DEF TrackInv, RoundsSound
    <3> QED
      BY <3>1, <3>2, <3>3 DEF RoundSound, Agrees
  <2> QED
    BY <2>1, <2>2 DEF RoundsSound
<1>13. \A d \in TrackCalls : TrackCallAt(d, "drawn")' =>
         d # c /\ TrackCallAt(d, "drawn") /\ trackCalls'[d] = trackCalls[d]
  BY <1>8 DEF TrackCallAt
<1>14. DrawsSound'
  <2> SUFFICES ASSUME NEW d \in TrackCalls, TrackCallAt(d, "drawn")'
               PROVE  /\ trackCalls'[d].code \in CodeNames
                      /\ trackCalls'[d].guest \in Guests =>
                           /\ handed'[trackCalls'[d].guest].code = NoCode
                           /\ \A e \in TrackCalls :
                                TrackCallAt(e, "drawn")' /\ trackCalls'[e].guest = trackCalls'[d].guest => e = d
    BY DEF DrawsSound
  <2>1. trackCalls[d].guest # g
    BY <1>6, <1>13
  <2> QED
    BY <1>7, <1>13, <2>1 DEF TrackInv, CodesHeld, DrawsSound
<1>15. \A h \in Guests, k \in CodeNames : GuestHolds(h, k)' => GuestHolds(h, k)
  <2> SUFFICES ASSUME NEW h \in Guests, NEW k \in CodeNames, GuestHolds(h, k)' PROVE GuestHolds(h, k)
    OBVIOUS
  <2>1. CASE handed'[h].code = k
    BY <1>1, <1>2, <1>3, <1>5, <1>7, <2>1 DEF GuestHolds, TrackCallAt
  <2>2. CASE handed'[h].code # k
    BY <1>13, <2>2 DEF GuestHolds
  <2> QED
    BY <2>1, <2>2
<1>16. \A u \in TrackedTabs, k \in CodeNames : TabHolds(u, k)' => TabHolds(u, k)
  BY <1>5, <1>13 DEF TabHolds
<1>17. \A k \in CodeNames : OneHolder(k) => OneHolder(k)'
  BY <1>15, <1>16 DEF OneHolder
<1>18. CodesHeld'
  BY <1>5, <1>14, <1>17 DEF TrackInv, CodesHeld
<1> QED
  BY <1>9, <1>10, <1>12, <1>18 DEF TrackInv

---------------------------------------------------------------------------
(* addItems *)

(* A request that begins carries a sound round. *)
LEMMA TermsAreSound ==
  ASSUME TrackInv, NEW g \in Guests, NEW code \in CodeNames, NEW sent \in [mode: Modes, fee: Prices],
         NEW asked \in Prices, NEW terms \in StandingTerms(code, sent), NEW fee, fee = Charged(terms, asked),
         terms.mode = "dispatch" => fee # 0, uninvited \subseteq uninvited',
         RoundsOf(code) = {} /\ ~SentByPage(g, code, sent) => code \in uninvited',
         UNCHANGED <<groupRounds, handed>>,
         NEW r, r.guest = g, r.code = code, r.mode = terms.mode, r.fee = fee, r.opened = (RoundsOf(code) = {})
  PROVE  /\ terms.mode \in Modes /\ fee \in Prices
         /\ RoundSound(r)'
<1>1. CASE RoundsOf(code) = {}
  <2>1. terms = sent
    BY <1>1 DEF StandingTerms
  <2>2. code \notin uninvited' => handed'[g] = [code |-> code, mode |-> sent.mode, fee |-> sent.fee]
    BY <1>1 DEF SentByPage
  <2>3. terms.mode \in Modes /\ fee \in Prices /\ (fee = terms.fee \/ (terms.mode = "dispatch" /\ terms.fee = 0))
    BY <2>1 DEF Charged
  <2>4. ASSUME code \notin uninvited' PROVE handed'[g].code = code /\ Agrees(r, handed'[g])
    BY <2>1, <2>2, <2>3, <2>4 DEF Agrees
  <2>5. RoundSound(r)'
    BY <1>1, <2>4 DEF RoundSound, Agrees
  <2> QED
    BY <2>3, <2>5
<1>2. CASE RoundsOf(code) # {}
  <2>1. PICK o \in Openings(code) : terms = [mode |-> o.mode, fee |-> o.fee]
    BY <1>2 DEF StandingTerms
  <2>2. o \in groupRounds /\ o.code = code /\ o.opened /\ RoundSound(o)
    BY <2>1 DEF Openings, RoundsOf, TrackInv, RoundsSound
  <2>3. terms.mode = o.mode /\ terms.fee = o.fee /\ o.mode \in Modes /\ o.fee \in Prices
    BY <2>1, <2>2 DEF TrackInv, TrackTyped, Round
  <2>4. fee = o.fee
    BY <2>2, <2>3 DEF Charged, RoundSound
  <2> QED
    BY <1>2, <2>2, <2>3, <2>4 DEF RoundSound
<1> QED
  BY <1>1, <1>2

LEMMA ItemsBegin == ASSUME TrackInv, NEW c \in TrackCalls, AddGroupItems(c) PROVE TrackInv'
<1>1. PICK g \in Guests, code \in CodeNames, sent \in [mode: Modes, fee: Prices], asked \in Prices :
        \E terms \in StandingTerms(code, sent) :
          /\ terms.mode = "dispatch" => Charged(terms, asked) # 0
          /\ BeginTrackCall(c, [IdleTrackCall EXCEPT !.at = "add", !.code = code, !.guest = g, !.mode = terms.mode,
                                                     !.fee = Charged(terms, asked), !.opened = RoundsOf(code) = {}])
          /\ uninvited' = IF RoundsOf(code) = {} /\ ~SentByPage(g, code, sent) THEN uninvited \cup {code} ELSE uninvited
          /\ UNCHANGED <<tabs, handed, groupRounds, trackBills, reviews, drawnTwice, reviewedAtOnce, shown>>
  BY DEF AddGroupItems
<1>2. PICK terms \in StandingTerms(code, sent) :
        /\ terms.mode = "dispatch" => Charged(terms, asked) # 0
        /\ BeginTrackCall(c, [IdleTrackCall EXCEPT !.at = "add", !.code = code, !.guest = g, !.mode = terms.mode,
                                                   !.fee = Charged(terms, asked), !.opened = RoundsOf(code) = {}])
        /\ uninvited' = IF RoundsOf(code) = {} /\ ~SentByPage(g, code, sent) THEN uninvited \cup {code} ELSE uninvited
        /\ UNCHANGED <<tabs, handed, groupRounds, trackBills, reviews, drawnTwice, reviewedAtOnce, shown>>
  BY <1>1
<1>3. PICK fee : fee = Charged(terms, asked)
  OBVIOUS
<1>4. PICK empty \in BOOLEAN : empty = (RoundsOf(code) = {})
  OBVIOUS
<1>5. /\ uninvited \subseteq uninvited' /\ uninvited' \subseteq CodeNames
      /\ (RoundsOf(code) = {} /\ ~SentByPage(g, code, sent) => code \in uninvited')
  BY <1>2 DEF TrackInv, TrackTyped
<1>6. PICK call : call = [IdleTrackCall EXCEPT !.at = "add", !.code = code, !.guest = g, !.mode = terms.mode,
                                               !.fee = fee, !.opened = empty]
  OBVIOUS
<1>7. /\ call.at = "add" /\ call.code = code /\ call.guest = g /\ call.mode = terms.mode /\ call.fee = fee
      /\ call.opened = empty
  BY <1>6, IdleTrackCallTyped DEF TrackCall
<1>8. terms.mode \in Modes /\ fee \in Prices /\ RoundSound(call)'
  BY <1>2, <1>3, <1>4, <1>5, <1>7, TermsAreSound
<1>9. call \in TrackCall
  BY <1>6, <1>8, IdleTrackCallTyped DEF TrackCall
<1>10. BeginTrackCall(c, call)
  BY <1>2, <1>3, <1>4, <1>6
<1>11. trackBegun' \in 0 .. MaxTrackCalls /\ trackCalls' = [trackCalls EXCEPT ![c] = call]
  BY <1>10, TrackCounted
<1>12. /\ trackCalls' \in [TrackCalls -> TrackCall] /\ trackCalls'[c] = call
       /\ \A d \in TrackCalls \ {c} : trackCalls'[d] = trackCalls[d]
  BY <1>9, <1>11, TrackCallReplaced
<1>13. CodesHeld' /\ PagesSound' /\ ReviewsSound' /\ BillsSound'
  BY <1>2, <1>7, <1>9, <1>11, CodesStay, PagesStay, ReviewsStay, BillsStay
<1>14. \A r : RoundSound(r) => RoundSound(r)'
  BY <1>2, <1>5, RoundStays
<1>15. RoundsSound'
  <2>1. \A r \in groupRounds' : RoundSound(r)'
    BY <1>2, <1>14 DEF TrackInv, RoundsSound
  <2>2. ASSUME NEW d \in TrackCalls, TrackCallAt(d, "add")' PROVE RoundSound(trackCalls[d])'
    <3>1. PICK r : r = trackCalls'[d]
      OBVIOUS
    <3>2. r = call \/ RoundSound(r)
      BY <1>12, <2>2, <3>1 DEF TrackInv, RoundsSound, TrackCallAt
    <3>3. RoundSound(r)'
      BY <1>8, <1>14, <3>2
    <3> QED
      BY <3>1, <3>3 DEF RoundSound, Agrees
  <2> QED
    BY <2>1, <2>2 DEF RoundsSound
<1>16. TrackTyped'
  BY <1>2, <1>5, <1>11, <1>12 DEF TrackInv, TrackTyped
<1> QED
  BY <1>13, <1>15, <1>16 DEF TrackInv

LEMMA ItemsCommitted == ASSUME TrackInv, NEW c \in TrackCalls, CommitItems(c) PROVE TrackInv'
<1>1. PICK me \in TrackCall : me = trackCalls[c]
  BY DEF TrackInv, TrackTyped
<1>2. trackCalls[c].at = "add" /\ RoundSound(me)
  BY <1>1 DEF CommitItems, TrackCallAt, TrackInv, RoundsSound
<1>3. PICK r : r = [code |-> me.code, guest |-> me.guest, mode |-> me.mode, fee |-> me.fee, opened |-> me.opened]
  OBVIOUS
<1>4. /\ r \in Round /\ r.code = me.code /\ r.guest = me.guest /\ r.mode = me.mode /\ r.fee = me.fee
      /\ r.opened = me.opened
  BY <1>2, <1>3 DEF Round, RoundSound, TrackCall
<1>5. /\ groupRounds' = groupRounds \cup {r}
      /\ trackCalls' = [trackCalls EXCEPT ![c] = IdleTrackCall]
      /\ UNCHANGED <<trackBegun, tabs, handed, trackBills, reviews, drawnTwice, uninvited, reviewedAtOnce, shown>>
  BY <1>1, <1>3 DEF CommitItems, EndTrackCall
<1>6. /\ trackCalls' \in [TrackCalls -> TrackCall] /\ trackCalls'[c].at = "idle"
      /\ \A d \in TrackCalls \ {c} : trackCalls'[d] = trackCalls[d]
  BY <1>5, IdleTrackCallTyped, TrackCallReplaced
<1>7. CodesHeld' /\ PagesSound' /\ ReviewsSound' /\ BillsSound'
  BY <1>5, IdleTrackCallTyped, CodesStay, PagesStay, ReviewsStay, BillsStay
<1>8. \A q : RoundSound(q) => RoundSound(q)'
  BY <1>5, RoundStays
<1>9. RoundSound(r)
  BY <1>2, <1>4 DEF RoundSound, Agrees
<1>10. RoundsSound'
  <2>1. \A q \in groupRounds' : RoundSound(q)'
    BY <1>5, <1>8, <1>9 DEF TrackInv, RoundsSound
  <2>2. ASSUME NEW d \in TrackCalls, TrackCallAt(d, "add")' PROVE RoundSound(trackCalls[d])'
    <3>1. PICK q : q = trackCalls'[d]
      OBVIOUS
    <3>2. RoundSound(q)
      BY <1>6, <2>2, <3>1 DEF TrackInv, RoundsSound, TrackCallAt
    <3>3. RoundSound(q)'
      BY <1>8, <3>2
    <3> QED
      BY <3>1, <3>3 DEF RoundSound, Agrees
  <2> QED
    BY <2>1, <2>2 DEF RoundsSound
<1>11. TrackTyped'
  BY <1>4, <1>5, <1>6 DEF TrackInv, TrackTyped
<1> QED
  BY <1>7, <1>10, <1>11 DEF TrackInv

---------------------------------------------------------------------------
(* getTrackingByCode *)

LEMMA PageAsked == ASSUME TrackInv, NEW c \in TrackCalls, AskPage(c) PROVE TrackInv'
<1>1. PICK code \in CodeNames :
        /\ BeginTrackCall(c, [IdleTrackCall EXCEPT !.at = "page", !.code = code, !.scope = Found(code),
                                                   !.wasPaid = CalledPaid(Found(code))])
        /\ UNCHANGED <<tabs, handed, groupRounds, trackBills, reviews, drawnTwice, uninvited, reviewedAtOnce, shown>>
  BY DEF AskPage
<1>2. Found(code) \in Scopes
  BY DEF Found, TabWith, Scopes
<1>3. PICK s \in Scopes : s = Found(code)
  BY <1>2
<1>4. PICK paid \in BOOLEAN : paid = CalledPaid(s)
  BY DEF CalledPaid, PaidOnce
<1>15. paid => PaidOnce(s)
  BY <1>4 DEF CalledPaid, TrackInv, BillsSound
<1>5. PICK call : call = [IdleTrackCall EXCEPT !.at = "page", !.code = code, !.scope = s, !.wasPaid = paid]
  OBVIOUS
<1>6. call \in TrackCall /\ call.at = "page" /\ call.scope = s /\ (call.wasPaid => PaidOnce(s))
  BY <1>15, <1>5, IdleTrackCallTyped DEF TrackCall
<1>7. BeginTrackCall(c, call)
  BY <1>1, <1>3, <1>4, <1>5
<1>8. trackBegun' \in 0 .. MaxTrackCalls /\ trackCalls' = [trackCalls EXCEPT ![c] = call]
  BY <1>7, TrackCounted
<1>9. /\ trackCalls' \in [TrackCalls -> TrackCall] /\ trackCalls'[c] = call
      /\ \A d \in TrackCalls \ {c} : trackCalls'[d] = trackCalls[d]
  BY <1>6, <1>8, TrackCallReplaced
<1>10. CodesHeld' /\ RoundsSound' /\ ReviewsSound' /\ BillsSound'
  BY <1>1, <1>6, <1>8, CodesStay, GroupRoundsStay, ReviewsStay, BillsStay
<1>11. PagesSound'
  <2>1. \A x : (PaidOnce(x)' <=> PaidOnce(x)) /\ (SeveralBills(x)' <=> SeveralBills(x)) /\ (Reopened(x)' <=> Reopened(x))
    BY <1>1 DEF PaidOnce, SeveralBills, Reopened, BillsOf
  <2>2. ASSUME NEW d \in TrackCalls, TrackCallAt(d, "page")', trackCalls'[d].wasPaid
        PROVE  trackCalls'[d].scope \in Scopes /\ PaidOnce(trackCalls'[d].scope)
    <3>1. CASE d = c
      BY <1>6, <1>9, <2>2, <3>1
    <3>2. CASE d # c
      BY <1>9, <2>2, <3>2 DEF TrackInv, PagesSound, TrackCallAt
    <3> QED
      BY <3>1, <3>2
  <2> QED
    BY <1>1, <2>1, <2>2 DEF TrackInv, PagesSound
<1>12. TrackTyped'
  BY <1>1, <1>8, <1>9 DEF TrackInv, TrackTyped
<1> QED
  BY <1>10, <1>11, <1>12 DEF TrackInv

LEMMA PageShown == ASSUME TrackInv, NEW c \in TrackCalls, ShowPage(c) PROVE TrackInv'
<1>1. PICK me \in TrackCall : me = trackCalls[c]
  BY DEF TrackInv, TrackTyped
<1>2. PICK statuses : statuses = {"none"} \cup { trackBills[b].status : b \in BillsOf(me.scope) }
  OBVIOUS
<1>3. PICK status \in statuses : shown' = [scope |-> me.scope, status |-> status, wasPaid |-> me.wasPaid]
  BY <1>1, <1>2 DEF ShowPage
<1>4. /\ trackCalls[c].at = "page" /\ trackCalls' = [trackCalls EXCEPT ![c] = IdleTrackCall]
      /\ UNCHANGED <<trackBegun, tabs, handed, groupRounds, trackBills, reviews, drawnTwice, uninvited, reviewedAtOnce>>
  BY DEF ShowPage, EndTrackCall, TrackCallAt
<1>5. status \in {"none", "pending", "paid", "voided"}
  BY <1>2 DEF BillsOf, TrackInv, TrackTyped, TrackBill
<1>6. /\ shown' \in ShownPage /\ shown'.scope = me.scope /\ shown'.status = status
      /\ shown'.wasPaid = me.wasPaid
  BY <1>3, <1>5 DEF ShownPage, TrackCall
<1>7. /\ trackCalls' \in [TrackCalls -> TrackCall] /\ trackCalls'[c].at = "idle"
      /\ \A d \in TrackCalls \ {c} : trackCalls'[d] = trackCalls[d]
  BY <1>4, IdleTrackCallTyped, TrackCallReplaced
<1>8. CodesHeld' /\ RoundsSound' /\ ReviewsSound' /\ BillsSound'
  BY <1>4, IdleTrackCallTyped, CodesStay, GroupRoundsStay, ReviewsStay, BillsStay
<1>9. ASSUME me.wasPaid
      PROVE  /\ me.scope \in Scopes
             /\ status \in {"paid", "none"} \/ SeveralBills(me.scope) \/ Reopened(me.scope)
  <2>1. me.scope \in Scopes /\ PaidOnce(me.scope)
    BY <1>1, <1>4, <1>9 DEF TrackInv, PagesSound, TrackCallAt
  <2>2. PICK paid \in BillsOf(me.scope) : trackBills[paid].status = "paid" \/ trackBills[paid].reopened
    BY <2>1 DEF PaidOnce
  <2>3. status = "none" \/ \E b \in BillsOf(me.scope) : trackBills[b].status = status
    BY <1>2
  <2> QED
    BY <2>1, <2>2, <2>3 DEF SeveralBills, Reopened
<1>10. PagesSound'
  <2>1. \A x : (PaidOnce(x)' <=> PaidOnce(x)) /\ (SeveralBills(x)' <=> SeveralBills(x)) /\ (Reopened(x)' <=> Reopened(x))
    BY <1>4 DEF PaidOnce, SeveralBills, Reopened, BillsOf
  <2>2. \A d \in TrackCalls : TrackCallAt(d, "page")' => TrackCallAt(d, "page") /\ trackCalls'[d] = trackCalls[d]
    BY <1>7 DEF TrackCallAt
  <2> QED
    BY <1>6, <1>9, <2>1, <2>2 DEF TrackInv, PagesSound
<1>11. TrackTyped'
  BY <1>4, <1>6, <1>7 DEF TrackInv, TrackTyped
<1> QED
  BY <1>8, <1>10, <1>11 DEF TrackInv

---------------------------------------------------------------------------
(* submitReview and saveReview *)

LEMMA ReviewSubmitted == ASSUME TrackInv, NEW c \in TrackCalls, SubmitReview(c) PROVE TrackInv'
<1>1. PICK s \in Scopes :
        /\ reviewedAtOnce' = IF \E d \in TrackCalls : TrackCallAt(d, "review") /\ trackCalls[d].scope = s
                             THEN reviewedAtOnce \cup {s} ELSE reviewedAtOnce
        /\ IF FoundReview(s)
           THEN BeginTrackCall(c, IdleTrackCall)
           ELSE BeginTrackCall(c, [IdleTrackCall EXCEPT !.at = "review", !.scope = s])
        /\ UNCHANGED <<tabs, handed, groupRounds, trackBills, reviews, drawnTwice, uninvited, shown>>
  BY DEF SubmitReview
<1>2. reviewedAtOnce \subseteq reviewedAtOnce' /\ reviewedAtOnce' \subseteq Scopes
  BY <1>1 DEF TrackInv, TrackTyped
<1>3. CASE FoundReview(s)
  <2>1. BeginTrackCall(c, IdleTrackCall)
    BY <1>1, <1>3
  <2>2. trackBegun' \in 0 .. MaxTrackCalls /\ trackCalls' = [trackCalls EXCEPT ![c] = IdleTrackCall]
    BY <2>1, TrackCounted
  <2> QED
    BY <1>1, <1>2, <2>2, TrackCallEnds
<1>4. CASE ~FoundReview(s)
  <2>1. PICK call : call = [IdleTrackCall EXCEPT !.at = "review", !.scope = s]
    OBVIOUS
  <2>2. call \in TrackCall /\ call.at = "review" /\ call.scope = s
    BY <2>1, IdleTrackCallTyped DEF TrackCall
  <2>3. BeginTrackCall(c, call)
    BY <1>1, <1>4, <2>1
  <2>4. trackBegun' \in 0 .. MaxTrackCalls /\ trackCalls' = [trackCalls EXCEPT ![c] = call]
    BY <2>3, TrackCounted
  <2>5. /\ trackCalls' \in [TrackCalls -> TrackCall] /\ trackCalls'[c] = call
        /\ \A d \in TrackCalls \ {c} : trackCalls'[d] = trackCalls[d]
    BY <2>2, <2>4, TrackCallReplaced
  <2>6. CodesHeld' /\ RoundsSound' /\ PagesSound' /\ BillsSound'
    BY <1>1, <2>2, <2>4, CodesStay, GroupRoundsStay, PagesStay, BillsStay
  <2>7. \A x : Reviewed(x)' = Reviewed(x)
    BY <1>1 DEF Reviewed
  <2>8. ReviewsSound'
    <3> SUFFICES ASSUME NEW x \in Scopes, x \notin reviewedAtOnce'
                 PROVE  /\ \A r, q \in Reviewed(x) : r = q
                        /\ \A d \in TrackCalls : TrackCallAt(d, "review")' /\ trackCalls'[d].scope = x =>
                             /\ Reviewed(x) = {}
                             /\ \A e \in TrackCalls : TrackCallAt(e, "review")' /\ trackCalls'[e].scope = x => e = d
      BY <2>7 DEF ReviewsSound
    <3>1. CASE x = s
      <4>1. \A d \in TrackCalls : ~(TrackCallAt(d, "review") /\ trackCalls[d].scope = s)
        BY <1>1, <3>1
      <4>2. Reviewed(x) = {}
        BY <1>4, <3>1 DEF FoundReview
      <4>3. \A d \in TrackCalls : TrackCallAt(d, "review")' /\ trackCalls'[d].scope = x => d = c
        BY <2>5, <3>1, <4>1 DEF TrackCallAt
      <4> QED
        BY <4>2, <4>3
    <3>2. CASE x # s
      <4>1. \A d \in TrackCalls : TrackCallAt(d, "review")' /\ trackCalls'[d].scope = x =>
              TrackCallAt(d, "review") /\ trackCalls[d].scope = x
        BY <2>2, <2>5, <3>2 DEF TrackCallAt
      <4> QED
        BY <1>2, <4>1 DEF TrackInv, ReviewsSound
    <3> QED
      BY <3>1, <3>2
  <2>9. TrackTyped'
    BY <1>1, <1>2, <2>4, <2>5 DEF TrackInv, TrackTyped
  <2> QED
    BY <2>6, <2>8, <2>9 DEF TrackInv
<1> QED
  BY <1>3, <1>4

LEMMA ReviewInserted == ASSUME TrackInv, NEW c \in TrackCalls, InsertReview(c) PROVE TrackInv'
<1>1. PICK r \in Reviews :
        /\ trackCalls[c].at = "review" /\ reviews[r] = NoScope
        /\ reviews' = [reviews EXCEPT ![r] = trackCalls[c].scope]
        /\ trackCalls' = [trackCalls EXCEPT ![c] = IdleTrackCall]
        /\ UNCHANGED <<trackBegun, tabs, handed, groupRounds, trackBills, drawnTwice, uninvited, reviewedAtOnce, shown>>
  BY DEF InsertReview, EndTrackCall, TrackCallAt
<1>2. PICK s \in Scopes \cup {NoScope} : s = trackCalls[c].scope
  BY DEF TrackInv, TrackTyped, TrackCall
<1>3. /\ reviews' \in [Reviews -> Scopes \cup {NoScope}] /\ reviews'[r] = s
      /\ \A q \in Reviews \ {r} : reviews'[q] = reviews[q]
  BY <1>1, <1>2 DEF TrackInv, TrackTyped
<1>4. /\ trackCalls' \in [TrackCalls -> TrackCall] /\ trackCalls'[c].at = "idle"
      /\ \A d \in TrackCalls \ {c} : trackCalls'[d] = trackCalls[d]
  BY <1>1, IdleTrackCallTyped, TrackCallReplaced
<1>5. CodesHeld' /\ RoundsSound' /\ PagesSound' /\ BillsSound'
  BY <1>1, IdleTrackCallTyped, CodesStay, GroupRoundsStay, PagesStay, BillsStay
<1>6. ReviewsSound'
  <2> SUFFICES ASSUME NEW x \in Scopes, x \notin reviewedAtOnce
               PROVE  /\ \A p, q \in Reviewed(x)' : p = q
                      /\ \A d \in TrackCalls : TrackCallAt(d, "review")' /\ trackCalls'[d].scope = x =>
                           /\ Reviewed(x)' = {}
                           /\ \A e \in TrackCalls : TrackCallAt(e, "review")' /\ trackCalls'[e].scope = x => e = d
    BY <1>1 DEF ReviewsSound
  <2>1. \A d \in TrackCalls : TrackCallAt(d, "review")' =>
          d # c /\ TrackCallAt(d, "review") /\ trackCalls'[d] = trackCalls[d]
    BY <1>4 DEF TrackCallAt
  <2>2. CASE x = s
    <3>1. TrackCallAt(c, "review") /\ trackCalls[c].scope = x
      BY <1>1, <1>2, <2>2 DEF TrackCallAt
    <3>2. Reviewed(x) = {} /\ \A d \in TrackCalls : TrackCallAt(d, "review") /\ trackCalls[d].scope = x => d = c
      BY <3>1 DEF TrackInv, ReviewsSound
    <3>3. Reviewed(x)' \subseteq {r}
      BY <1>3, <3>2 DEF Reviewed
    <3> QED
      BY <2>1, <3>2, <3>3
  <2>3. CASE x # s
    <3>1. Reviewed(x)' = Reviewed(x)
      BY <1>1, <1>3, <2>3, TrackingAssumption DEF Reviewed, Scopes
    <3> QED
      BY <2>1, <3>1 DEF TrackInv, ReviewsSound
  <2> QED
    BY <2>2, <2>3
<1>7. TrackTyped'
  BY <1>1, <1>3, <1>4 DEF TrackInv, TrackTyped
<1> QED
  BY <1>5, <1>6, <1>7 DEF TrackInv

---------------------------------------------------------------------------
(* The bills of a scope: no scope loses one, and one that is paid is un-paid only by a stale save. *)
LEMMA BillWritten ==
  ASSUME TrackInv, NEW b \in TrackBills, NEW row \in TrackBill, trackBills' = [trackBills EXCEPT ![b] = row],
         row.status # "none", row.scope \in Scopes, trackBills[b].status = "paid" => row.reopened,
         trackBills[b].status # "none" /\ trackBills[b].reopened => row.reopened,
         trackBills[b].status = "none" \/ row.scope = trackBills[b].scope,
         tabs' \in [TrackedTabs -> TrackedTab],
         \A t \in TrackedTabs : /\ tabs'[t].code = tabs[t].code
                                /\ \/ tabs'[t].status = tabs[t].status
                                   \/ row.scope = t /\ row.status = "paid",
         UNCHANGED <<handed, groupRounds, reviews, trackCalls, trackBegun, drawnTwice, uninvited, reviewedAtOnce, shown>>
  PROVE  TrackInv'
<1>1. /\ trackBills' \in [TrackBills -> TrackBill] /\ trackBills'[b] = row
      /\ \A x \in TrackBills \ {b} : trackBills'[x] = trackBills[x]
      /\ \A s \in Scopes : \A x \in BillsOf(s) : trackBills[x].status # "none"
  BY TrackingAssumption DEF TrackInv, TrackTyped, BillsOf, BillsSound, Scopes
<1>2. \A s \in Scopes : BillsOf(s) \subseteq BillsOf(s)'
  BY <1>1, TrackingAssumption DEF BillsOf, TrackInv, BillsSound, Scopes
<1>3. \A s \in Scopes : PaidOnce(s) => PaidOnce(s)'
  <2> SUFFICES ASSUME NEW s \in Scopes, NEW x \in BillsOf(s), trackBills[x].status = "paid" \/ trackBills[x].reopened
               PROVE  x \in BillsOf(s)' /\ (trackBills'[x].status = "paid" \/ trackBills'[x].reopened)
    BY DEF PaidOnce
  <2> QED
    BY <1>1, <1>2 DEF BillsOf
<1>4. \A s \in Scopes : (SeveralBills(s) => SeveralBills(s)') /\ (Reopened(s) => Reopened(s)')
  <2> SUFFICES ASSUME NEW s \in Scopes, NEW x \in BillsOf(s), trackBills[x].reopened
               PROVE  x \in BillsOf(s)' /\ trackBills'[x].reopened
    BY <1>2 DEF SeveralBills, Reopened
  <2> QED
    BY <1>1, <1>2 DEF BillsOf
<1>5. BillsSound'
  <2>1. Issued' = Issued \cup {b}
    BY <1>1 DEF Issued
  <2>2. IsFiniteSet(Issued')
    BY <2>1, FS_AddElement DEF TrackInv, BillsSound
  <2>3. \A x \in TrackBills : trackBills'[x].status = "none" <=> trackBills'[x].scope = NoScope
    BY <1>1, TrackingAssumption DEF TrackInv, BillsSound, Scopes
  <2>4. ASSUME NEW t \in TrackedTabs, tabs'[t].status = "paid" PROVE PaidOnce(t)'
    <3>1. CASE tabs'[t].status = tabs[t].status
      BY <1>3, <2>4, <3>1 DEF TrackInv, BillsSound, Scopes
    <3>2. CASE row.scope = t /\ row.status = "paid"
      BY <1>1, <3>2 DEF PaidOnce, BillsOf
    <3> QED
      BY <3>1, <3>2
  <2> QED
    BY <2>2, <2>3, <2>4 DEF BillsSound
<1>6. PagesSound'
  BY <1>3, <1>4 DEF TrackInv, PagesSound, TrackCallAt
<1>7. \A g, code : GuestHolds(g, code)' <=> GuestHolds(g, code)
  BY DEF GuestHolds, TrackCallAt
<1>8. \A t \in TrackedTabs : \A code : TabHolds(t, code)' <=> TabHolds(t, code)
  BY DEF TabHolds, TrackCallAt
<1>9. CodesHeld'
  BY <1>7, <1>8 DEF TrackInv, CodesHeld, DrawsSound, OneHolder, TrackCallAt
<1>10. RoundsSound' /\ ReviewsSound'
  BY DEF TrackInv, RoundsSound, RoundSound, Agrees, ReviewsSound, Reviewed, TrackCallAt
<1>11. TrackTyped'
  BY <1>1 DEF TrackInv, TrackTyped
<1> QED
  BY <1>5, <1>6, <1>9, <1>10, <1>11 DEF TrackInv

LEMMA BillIssued == ASSUME TrackInv, IssueBill PROVE TrackInv'
<1>1. PICK b \in TrackBills, s \in Scopes :
        /\ trackBills[b].status = "none"
        /\ trackBills' = [trackBills EXCEPT ![b] = [scope |-> s, status |-> "pending", reopened |-> FALSE]]
        /\ UNCHANGED <<tabs, handed, groupRounds, reviews, trackCalls, trackBegun, drawnTwice, uninvited, reviewedAtOnce, shown>>
  BY DEF IssueBill
<1>2. PICK row \in TrackBill : row = [scope |-> s, status |-> "pending", reopened |-> FALSE]
  BY DEF TrackBill
<1>3. row.scope \in Scopes /\ row.status = "pending"
  BY <1>2
<1>4. tabs' \in [TrackedTabs -> TrackedTab]
  BY <1>1 DEF TrackInv, TrackTyped
<1> QED
  BY <1>1, <1>2, <1>3, <1>4, BillWritten

LEMMA BillSettled == ASSUME TrackInv, SettleBill PROVE TrackInv'
<1>1. PICK b \in TrackBills :
        /\ trackBills[b].status \in {"pending", "voided"}
        /\ trackBills' = [trackBills EXCEPT ![b].status = "paid"]
        /\ tabs' = [t \in TrackedTabs |-> IF trackBills[b].scope = t THEN [tabs[t] EXCEPT !.status = "paid"] ELSE tabs[t]]
        /\ UNCHANGED <<handed, groupRounds, reviews, trackCalls, trackBegun, drawnTwice, uninvited, reviewedAtOnce, shown>>
  BY DEF SettleBill
<1>2. PICK was \in TrackBill : was = trackBills[b]
  BY DEF TrackInv, TrackTyped
<1>3. PICK row : row = [was EXCEPT !.status = "paid"]
  OBVIOUS
<1>4. row \in TrackBill /\ row.status = "paid" /\ row.scope = was.scope /\ row.reopened = was.reopened
  BY <1>3 DEF TrackBill
<1>5. row.scope \in Scopes
  BY <1>1, <1>2, <1>4 DEF TrackInv, BillsSound, TrackBill
<1>6. ASSUME NEW t \in TrackedTabs
      PROVE  /\ tabs'[t] \in TrackedTab /\ tabs'[t].code = tabs[t].code
             /\ (tabs'[t].status = tabs[t].status \/ row.scope = t)
  <2>1. PICK tab \in TrackedTab : tab = tabs[t]
    BY DEF TrackInv, TrackTyped
  <2>2. tabs'[t] = IF was.scope = t THEN [tab EXCEPT !.status = "paid"] ELSE tab
    BY <1>1, <1>2, <2>1
  <2>3. [tab EXCEPT !.status = "paid"] \in TrackedTab /\ [tab EXCEPT !.status = "paid"].code = tab.code
    BY DEF TrackedTab
  <2>4. tabs'[t].status = tabs[t].status \/ row.scope = t
    BY <1>4, <2>1, <2>2
  <2> QED
    BY <2>1, <2>2, <2>3, <2>4
<1>7. tabs' \in [TrackedTabs -> TrackedTab]
  BY <1>1, <1>6
<1>8. trackBills' = [trackBills EXCEPT ![b] = row]
  BY <1>1, <1>2, <1>3 DEF TrackInv, TrackTyped
<1>9. \A t \in TrackedTabs : /\ tabs'[t].code = tabs[t].code
                             /\ \/ tabs'[t].status = tabs[t].status
                                \/ row.scope = t /\ row.status = "paid"
  BY <1>4, <1>6
<1>10. row.status # "none" /\ trackBills[b].status # "paid" /\ row.scope = trackBills[b].scope
  BY <1>1, <1>2, <1>4
<1>11. trackBills[b].reopened => row.reopened
  BY <1>2, <1>4
<1> QED
  BY <1>1, <1>4, <1>5, <1>7, <1>8, <1>9, <1>10, <1>11, BillWritten

LEMMA BillVoided == ASSUME TrackInv, VoidBill PROVE TrackInv'
<1>1. PICK b \in TrackBills :
        /\ trackBills[b].status = "pending"
        /\ trackBills' = [trackBills EXCEPT ![b].status = "voided"]
        /\ UNCHANGED <<tabs, handed, groupRounds, reviews, trackCalls, trackBegun, drawnTwice, uninvited, reviewedAtOnce, shown>>
  BY DEF VoidBill
<1>2. PICK was \in TrackBill : was = trackBills[b]
  BY DEF TrackInv, TrackTyped
<1>3. PICK row : row = [was EXCEPT !.status = "voided"]
  OBVIOUS
<1>4. row \in TrackBill /\ row.status = "voided" /\ row.scope = was.scope /\ row.reopened = was.reopened
  BY <1>3 DEF TrackBill
<1>5. row.scope \in Scopes
  BY <1>1, <1>2, <1>4 DEF TrackInv, BillsSound, TrackBill
<1>6. tabs' \in [TrackedTabs -> TrackedTab]
  BY <1>1 DEF TrackInv, TrackTyped
<1>7. trackBills' = [trackBills EXCEPT ![b] = row]
  BY <1>1, <1>2, <1>3 DEF TrackInv, TrackTyped
<1> QED
  BY <1>1, <1>2, <1>4, <1>5, <1>6, <1>7, BillWritten

LEMMA BillUnpaid == ASSUME TrackInv, SaveStaleBill PROVE TrackInv'
<1>1. PICK b \in TrackBills :
        /\ trackBills[b].status = "paid"
        /\ trackBills' = [trackBills EXCEPT ![b].status = "pending", ![b].reopened = TRUE]
        /\ UNCHANGED <<tabs, handed, groupRounds, reviews, trackCalls, trackBegun, drawnTwice, uninvited, reviewedAtOnce, shown>>
  BY DEF SaveStaleBill
<1>2. PICK was \in TrackBill : was = trackBills[b]
  BY DEF TrackInv, TrackTyped
<1>8. TRUE \in BOOLEAN
  OBVIOUS
<1>3. PICK row : row = [was EXCEPT !.status = "pending", !.reopened = TRUE]
  OBVIOUS
<1>4. row \in TrackBill /\ row.status = "pending" /\ row.scope = was.scope /\ row.reopened
  BY <1>3, <1>8 DEF TrackBill
<1>5. row.scope \in Scopes
  BY <1>1, <1>2, <1>4 DEF TrackInv, BillsSound, TrackBill
<1>6. tabs' \in [TrackedTabs -> TrackedTab]
  BY <1>1 DEF TrackInv, TrackTyped
<1>7. trackBills' = [trackBills EXCEPT ![b] = row]
  BY <1>1, <1>2, <1>3 DEF TrackInv, TrackTyped
<1> QED
  BY <1>1, <1>2, <1>4, <1>5, <1>6, <1>7, BillWritten

---------------------------------------------------------------------------
LEMMA TrackCallCut == ASSUME TrackInv, NEW c \in TrackCalls, CutTrackCall(c) PROVE TrackInv'
<1>1. /\ trackCalls' = [trackCalls EXCEPT ![c] = IdleTrackCall]
      /\ UNCHANGED <<trackBegun, tabs, handed, groupRounds, trackBills, reviews, drawnTwice, uninvited, reviewedAtOnce, shown>>
  BY DEF CutTrackCall, EndTrackCall
<1>2. trackBegun' \in 0 .. MaxTrackCalls /\ reviewedAtOnce \subseteq Scopes
  BY <1>1 DEF TrackInv, TrackTyped
<1> QED
  BY <1>1, <1>2, TrackCallEnds

LEMMA TrackStutters == ASSUME TrackInv, UNCHANGED trackVars PROVE TrackInv'
<1>1. TrackTyped'
  BY DEF TrackInv, TrackTyped, trackVars
<1>2. CodesHeld'
  BY DEF TrackInv, CodesHeld, DrawsSound, OneHolder, GuestHolds, TabHolds, TrackCallAt, trackVars
<1>3. RoundsSound' /\ ReviewsSound'
  BY DEF TrackInv, RoundsSound, RoundSound, Agrees, ReviewsSound, Reviewed, TrackCallAt, trackVars
<1>4. \A s : (PaidOnce(s)' <=> PaidOnce(s)) /\ (SeveralBills(s)' <=> SeveralBills(s)) /\ (Reopened(s)' <=> Reopened(s))
  <2>1. trackBills' = trackBills
    BY DEF trackVars
  <2> QED
    BY <2>1 DEF PaidOnce, SeveralBills, Reopened, BillsOf
<1>5. BillsSound'
  BY BillsStay DEF trackVars
<1>6. PagesSound'
  BY <1>4 DEF TrackInv, PagesSound, TrackCallAt, trackVars
<1> QED
  BY <1>1, <1>2, <1>3, <1>5, <1>6 DEF TrackInv

LEMMA TrackStep == ASSUME TrackInv, [TrackNext]_trackVars PROVE TrackInv'
<1>1. CASE UNCHANGED trackVars
  BY <1>1, TrackStutters
<1>2. ASSUME NEW c \in TrackCalls,
             OpenTabDraws(c) \/ InsertTab(c) \/ OpenGroupDraws(c) \/ AnswerGroup(c) \/ AddGroupItems(c) \/ CommitItems(c)
      PROVE  TrackInv'
  BY <1>2, TabDraws, TabInserted, GroupDraws, GroupAnswered, ItemsBegin, ItemsCommitted
<1>3. ASSUME NEW c \in TrackCalls,
             AskPage(c) \/ ShowPage(c) \/ SubmitReview(c) \/ InsertReview(c) \/ CutTrackCall(c)
      PROVE  TrackInv'
  BY <1>3, PageAsked, PageShown, ReviewSubmitted, ReviewInserted, TrackCallCut
<1>4. CASE IssueBill \/ SettleBill \/ VoidBill \/ SaveStaleBill
  BY <1>4, BillIssued, BillSettled, BillVoided, BillUnpaid
<1> QED
  BY <1>1, <1>2, <1>3, <1>4 DEF TrackNext

(* Whatever guests, waiters and requests do to codes, groups, pages and reviews, TrackInv holds *)
(* (tracking/tracking.service.ts, public/customer.service.ts, review/review.service.ts).        *)
THEOREM TrackInvariant == TrackSpec => []TrackInv
  BY TrackInitial, TrackStep, PTL DEF TrackSpec

LEMMA AtMostOne == ASSUME NEW S, \A x, y \in S : x = y PROVE Cardinality(S) <= 1
<1>1. CASE S = {}
  <2>1. Cardinality(S) = 0
    BY <1>1, FS_EmptySet
  <2> QED
    BY <2>1
<1>2. CASE S # {}
  <2>1. PICK x : x \in S
    BY <1>2
  <2>2. S = {x}
    BY <2>1
  <2>3. Cardinality({x}) = 1
    BY FS_Singleton
  <2> QED
    BY <2>2, <2>3
<1> QED
  BY <1>1, <1>2

LEMMA CodesImplied == ASSUME TrackInv PROVE TrackTypeOK /\ CodesLeadRight
<1>1. TrackTypeOK
  <2>1. \A c \in TrackCalls : trackCalls[c].at \in {"idle", "drawn", "add", "page", "review"}
    BY DEF TrackInv, TrackTyped, TrackCall
  <2> QED
    BY <2>1 DEF TrackInv, TrackTyped, TrackTypeOK, TrackedTab, Handed, TrackBill
<1>2. CodeNamesOne
  <2> SUFFICES ASSUME NEW code \in CodeNames \ (drawnTwice \cup uninvited)
               PROVE  Cardinality({ r.guest : r \in Openings(code) } \cup { t \in TrackedTabs : tabs[t].code = code }) <= 1
    BY DEF CodeNamesOne
  <2>1. OneHolder(code)
    BY DEF TrackInv, CodesHeld
  <2>2. \A g \in { r.guest : r \in Openings(code) } : g \in Guests /\ GuestHolds(g, code)
    BY DEF Openings, RoundsOf, TrackInv, RoundsSound, RoundSound, GuestHolds
  <2>3. \A t \in { u \in TrackedTabs : tabs[u].code = code } : t \in TrackedTabs /\ TabHolds(t, code)
    BY DEF TabHolds
  <2>4. PICK S : S = { r.guest : r \in Openings(code) } \cup { t \in TrackedTabs : tabs[t].code = code }
    OBVIOUS
  <2>5. \A x, y \in S : x = y
    BY <2>1, <2>2, <2>3, <2>4 DEF OneHolder
  <2> QED
    BY <2>4, <2>5, AtMostOne
<1>3. ASSUME NEW r \in groupRounds
      PROVE  /\ r.mode = "dispatch" => r.fee # 0
             /\ \E o \in Openings(r.code) : o.mode = r.mode /\ o.fee = r.fee
  BY DEF TrackInv, RoundsSound, RoundSound, Openings, RoundsOf
<1>6. FeeIsQuoted
  <2> SUFFICES ASSUME NEW r \in groupRounds, NEW g \in Guests, handed[g].code = r.code,
                      r.code \notin drawnTwice \cup uninvited
               PROVE  Agrees(r, handed[g])
    BY DEF FeeIsQuoted, Agrees
  <2>1. PICK o \in Openings(r.code) : o.mode = r.mode /\ o.fee = r.fee
    BY <1>3
  <2>2. o \in groupRounds /\ o.code = r.code /\ o.opened
    BY <2>1 DEF Openings, RoundsOf
  <2>3. o.guest \in Guests /\ handed[o.guest].code = r.code /\ Agrees(o, handed[o.guest])
    BY <2>2 DEF TrackInv, RoundsSound, RoundSound
  <2>4. r.code \in CodeNames /\ OneHolder(r.code)
    BY DEF TrackInv, RoundsSound, RoundSound, CodesHeld
  <2>5. o.guest = g
    BY <2>3, <2>4 DEF OneHolder, GuestHolds
  <2> QED
    BY <2>1, <2>3, <2>5 DEF Agrees
<1>4. PageAgrees
  <2> SUFFICES ASSUME shown.wasPaid, shown.status \notin {"paid", "none"}, ~Reopened(shown.scope)
               PROVE  Cardinality(BillsOf(shown.scope)) > 1
    BY DEF PageAgrees, Reopened
  <2>1. PICK s \in Scopes : s = shown.scope
    BY DEF TrackInv, PagesSound
  <2>2. PICK x \in BillsOf(s), y \in BillsOf(s) : x # y
    BY <2>1 DEF TrackInv, PagesSound, SeveralBills
  <2>3. IsFiniteSet(BillsOf(s))
    <3>1. BillsOf(s) \subseteq Issued
      BY TrackingAssumption DEF BillsOf, Issued, TrackInv, BillsSound, Scopes
    <3> QED
      BY <3>1, FS_Subset DEF TrackInv, BillsSound
  <2>4. PICK n \in Nat : n = Cardinality(BillsOf(s))
    BY <2>3, FS_CardinalityType
  <2>5. Cardinality({x, y}) = 2 /\ {x, y} \subseteq BillsOf(s)
    <3>1. IsFiniteSet({x}) /\ Cardinality({x}) = 1 /\ y \notin {x}
      BY <2>2, FS_Singleton
    <3>2. PICK one : one = {x}
      OBVIOUS
    <3>3. IsFiniteSet(one) /\ Cardinality(one) = 1 /\ y \notin one
      BY <3>1, <3>2
    <3>4. Cardinality(one \cup {y}) = Cardinality(one) + 1
      BY <3>3, FS_AddElement
    <3>5. one \cup {y} = {x, y}
      BY <3>2
    <3> QED
      BY <2>2, <3>3, <3>4, <3>5
  <2>6. 2 <= n
    BY <2>3, <2>4, <2>5, FS_Subset
  <2> QED
    BY <2>1, <2>4, <2>6
<1>5. OneReview
  BY AtMostOne DEF TrackInv, ReviewsSound, OneReview
<1> QED
  BY <1>1, <1>2, <1>3, <1>4, <1>5, <1>6 DEF CodesLeadRight, GroupHasTerms

(* Rows, requests and histories keep their types. *)
THEOREM TrackTypeCorrect == TrackSpec => []TrackTypeOK
  BY TrackInvariant, CodesImplied, PTL

(* A code leads to the group of one guest or to one tab, unless it was drawn twice or no page opened it; an    *)
(* order has the terms of one that opened its group, which are those the page was quoted, but for a delivery   *)
(* quoted free and codes as above; a page that says paid shows no payment pending or voided, unless there are  *)
(* several or a stale save un-paid one; a scope has one review unless two were submitted at once.              *)
THEOREM CodesLeadRightAlways == TrackSpec => []CodesLeadRight
  BY TrackInvariant, CodesImplied, PTL

===========================================================================
