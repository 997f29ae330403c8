------------------------------ MODULE Bookings ------------------------------
(***************************************************************************)
(* Table reservations (reservations/reservations.service.ts and            *)
(* reservation-config.ts).  A booking holds a table for an interval.  Every *)
(* handler reads, decides, and only later writes the whole row it prepared, *)
(* so two guests may be given one table; seating a booking opens a tab in   *)
(* statements of its own, in an order that depends on the endpoint.         *)
(*                                                                         *)
(* A call holds the statements it still has to run in `todo`: "insert" and  *)
(* "save" write its row, "look" looks for a tab of the booking, "tab" opens *)
(* one.  The clock counts slots of the branch's slot interval.              *)
(***************************************************************************)
EXTENDS Naturals, Sequences, FiniteSets

CONSTANTS
  Tables, Capacity,      \* the branch's tables and their seats
  PartySizes,            \* the sizes the configuration allows
  Bookings,              \* rows of the reservations table
  BookingCalls,          \* handlers that may overlap
  NoBooking,             \* no row: what is excluded from a look-up by nobody
  Closing,               \* opening is 0; a booking ends by Closing
  Lengths, DefaultLength,\* durations a guest may ask for
  Advance,               \* how far ahead a booking may lie
  ReminderWindow,
  LastTick,              \* bound: the clock stops here
  MaxBookingCalls        \* bound: handlers begun in a behaviour

ASSUME BookingAssumption ==
  /\ Tables # {} /\ Capacity \in [Tables -> Nat]
  /\ PartySizes \subseteq Nat
  /\ NoBooking \notin Bookings
  /\ Closing \in Nat \ {0} /\ Advance \in Nat /\ ReminderWindow \in Nat
  /\ LastTick \in Nat /\ MaxBookingCalls \in Nat
  /\ Lengths \subseteq Nat \ {0}
  /\ DefaultLength \in Lengths

VARIABLES
  bookings,      \* the reservations table
  tabbed,        \* the bookings whose id a tab carries
  clock,
  bookingCalls,  \* the handlers in flight
  begun,         \* handlers begun so far
  misplaced,     \* history: bookings nobody checked against the table as it is
  cutOff         \* history: bookings whose seating stopped before its tab

bookingVars == <<bookings, tabbed, clock, bookingCalls, begun, misplaced, cutOff>>

StartTicks == 0 .. (Closing - 1)

(* "over" stands for completed, cancelled and no_show, which no handler tells apart. *)
BookingStatus == {"none", "pending", "confirmed", "seated", "over"}

Row == [status: BookingStatus, table: Tables, start: StartTicks, len: Lengths]

NoRow == [status |-> "none", table |-> CHOOSE t \in Tables : TRUE, start |-> 0, len |-> DefaultLength]

IdleBookingCall == [todo |-> <<>>, booking |-> NoBooking, row |-> NoRow, checked |-> FALSE, stale |-> FALSE]

BookingInit ==
  /\ bookings = [b \in Bookings |-> NoRow]
  /\ tabbed = {}
  /\ clock = 0
  /\ bookingCalls = [c \in BookingCalls |-> IdleBookingCall]
  /\ begun = 0
  /\ misplaced = {}
  /\ cutOff = {}

---------------------------------------------------------------------------
(* What a booking takes, and who is in the way. *)

Booked(b) == bookings[b].status # "none"
EndOf(r) == r.start + r.len

Holding == {"pending", "confirmed", "seated"}

(* Mutant: a booking that began earlier is not in the way. *)
InTheWayByStart(start, len, except) ==
  { b \in Bookings \ {except} :
      /\ bookings[b].status \in Holding
      /\ bookings[b].start < start + len
      /\ bookings[b].start >= start }

InTheWay(start, len, except) ==
  { b \in Bookings \ {except} :
      /\ bookings[b].status \in Holding
      /\ bookings[b].start < start + len
      /\ EndOf(bookings[b]) > start }

TakenTables(start, len, except) == { bookings[b].table : b \in InTheWay(start, len, except) }

(* Tables of exactly the party's size; larger ones only when there are none. *)
UsableTables(party) ==
  LET exact == { t \in Tables : Capacity[t] = party }
  IN  IF exact # {} THEN exact ELSE { t \in Tables : Capacity[t] > party }

(* The table the code assigns: any, as the query has no order. *)
FreeTables(party, start, len, except) ==
  IF start + len <= Closing THEN UsableTables(party) \ TakenTables(start, len, except) ELSE {}

(* The public availability endpoint's own loop over the slots of the day; the mutant drops the last one. *)
SlotTables(party, start, len) ==
  { t \in Tables : Capacity[t] >= party } \ TakenTables(start, len, NoBooking)

OfferedSlotsShort(party) ==
  { s \in StartTicks : s + DefaultLength < Closing /\ SlotTables(party, s, DefaultLength) # {} }

OfferedSlots(party) ==
  { s \in StartTicks : s + DefaultLength <= Closing /\ SlotTables(party, s, DefaultLength) # {} }

---------------------------------------------------------------------------
(* Calls. *)

Doing(c, step) == bookingCalls[c].todo # <<>> /\ Head(bookingCalls[c].todo) = step

Begin(c, b, row, todo, checked) ==
  /\ bookingCalls[c] = IdleBookingCall
  /\ begun < MaxBookingCalls
  /\ begun' = begun + 1
  /\ bookingCalls' = [bookingCalls EXCEPT
       ![c] = [todo |-> todo, booking |-> b, row |-> row, checked |-> checked, stale |-> FALSE]]
  /\ UNCHANGED <<bookings, tabbed, clock, misplaced, cutOff>>

(* The call without its next n statements. *)
Rest(call, n) ==
  IF Len(call.todo) = n THEN IdleBookingCall
  ELSE [call EXCEPT !.todo = SubSeq(@, n + 1, Len(@))]

(* A statement that writes c's row; whatever the others have read is now old. *)
WriteRow(c) ==
  LET call == bookingCalls[c]
      b == call.booking
      revived == call.row.status \in Holding /\ bookings[b].status \notin Holding
  IN /\ bookings' = [bookings EXCEPT ![b] = call.row]
     /\ bookingCalls' = [d \in BookingCalls |->
          IF d = c THEN Rest(call, 1)
          ELSE [bookingCalls[d] EXCEPT !.stale = bookingCalls[d] # IdleBookingCall]]
     /\ misplaced' = IF call.checked /\ ~call.stale THEN misplaced \ {b}
                     ELSE IF call.stale \/ revived THEN misplaced \cup {b}
                     ELSE misplaced
     /\ UNCHANGED <<tabbed, clock, begun, cutOff>>

---------------------------------------------------------------------------
(* The endpoints: what each reads and checks. *)

(* create: a guest (or staff) books. *)
BeginCreate(c) ==
  \E b \in Bookings, party \in PartySizes, start \in StartTicks, len \in Lengths,
     status \in {"pending", "confirmed"} :
    /\ ~Booked(b)
    /\ \A d \in BookingCalls : bookingCalls[d].booking # b
    /\ start >= clock
    /\ start <= clock + Advance
    /\ \E t \in FreeTables(party, start, len, NoBooking) :
         Begin(c, b, [status |-> status, table |-> t, start |-> start, len |-> len], <<"insert">>, TRUE)

(* createWalkin: guests at the door; hours and the booking window do not apply. *)
BeginWalkin(c) ==
  \E b \in Bookings, party \in PartySizes, len \in Lengths, t \in Tables :
    /\ ~Booked(b)
    /\ \A d \in BookingCalls : bookingCalls[d].booking # b
    /\ Capacity[t] >= party
    /\ t \notin TakenTables(clock, len, NoBooking)
    /\ clock \in StartTicks
    /\ Begin(c, b, [status |-> "seated", table |-> t, start |-> clock, len |-> len], <<"insert", "tab">>, TRUE)

(* update: a change of time, length or party is checked again ... *)
BeginMove(c) ==
  \E b \in Bookings, party \in PartySizes, start \in StartTicks, len \in Lengths :
    /\ Booked(b)
    /\ start <= clock + Advance
    /\ \E t \in FreeTables(party, start, len, b) :
         Begin(c, b, [bookings[b] EXCEPT !.table = t, !.start = start, !.len = len], <<"save">>, TRUE)

(* ... a change of status is not, whatever the status was. *)
BeginSetStatus(c) ==
  \E b \in Bookings, status \in BookingStatus \ {"none"} :
    /\ Booked(b)
    /\ status # bookings[b].status
    /\ Begin(c, b, [bookings[b] EXCEPT !.status = status],
             IF status = "seated" THEN <<"look", "tab", "save">> ELSE <<"save">>, FALSE)

ConfirmByCode(c) ==
  \E b \in Bookings :
    /\ bookings[b].status = "pending"
    /\ Begin(c, b, [bookings[b] EXCEPT !.status = "confirmed"], <<"save">>, FALSE)

CancelByCode(c) ==
  \E b \in Bookings :
    /\ bookings[b].status \in Holding
    /\ Begin(c, b, [bookings[b] EXCEPT !.status = "over"], <<"save">>, FALSE)

(* seatWalkin: saves first, then looks for a tab and opens one; the mutant does not. *)
SeatStepsNoTab == <<"save", "look">>
SeatSteps == <<"save", "look", "tab">>

SeatBooking(c) ==
  \E b \in Bookings :
    /\ bookings[b].status \in {"pending", "confirmed"}
    /\ Begin(c, b, [bookings[b] EXCEPT !.status = "seated"], SeatSteps, FALSE)

(* sendReminders: each booking of the batch is saved from the copy the batch read.  That a reminder was
   sent already is not kept: it may be sent again. *)
SendReminder(c) ==
  \E b \in Bookings :
    /\ bookings[b].status \in {"pending", "confirmed"}
    /\ bookings[b].start \in clock .. (clock + ReminderWindow)
    /\ Begin(c, b, bookings[b], <<"save">>, FALSE)

---------------------------------------------------------------------------
(* Their statements. *)

InsertBooking(c) == Doing(c, "insert") /\ WriteRow(c)

SaveBooking(c) == Doing(c, "save") /\ WriteRow(c)

LookForTab(c) ==
  /\ Doing(c, "look")
  /\ bookingCalls' = [bookingCalls EXCEPT
       ![c] = Rest(@, IF @.booking \in tabbed THEN 2 ELSE 1)]
  /\ UNCHANGED <<bookings, tabbed, clock, begun, misplaced, cutOff>>

(* createTabFromReservation: inserts the tab and marks the table occupied. *)
CreateTab(c) ==
  /\ Doing(c, "tab")
  /\ tabbed' = tabbed \cup {bookingCalls[c].booking}
  /\ bookingCalls' = [bookingCalls EXCEPT ![c] = Rest(@, 1)]
  /\ UNCHANGED <<bookings, clock, begun, misplaced, cutOff>>

(* The process stops, or a statement fails. *)
AbortBooking(c) ==
  /\ bookingCalls[c] # IdleBookingCall
  /\ bookingCalls' = [bookingCalls EXCEPT ![c] = IdleBookingCall]
  /\ cutOff' = IF \E i \in DOMAIN bookingCalls[c].todo : bookingCalls[c].todo[i] = "tab"
               THEN cutOff \cup {bookingCalls[c].booking} ELSE cutOff
  /\ UNCHANGED <<bookings, tabbed, clock, begun, misplaced>>

TimePasses ==
  /\ clock < LastTick
  /\ clock' = clock + 1
  /\ UNCHANGED <<bookings, tabbed, bookingCalls, begun, misplaced, cutOff>>

BookingNext ==
  \/ \E c \in BookingCalls :
       \/ BeginCreate(c) \/ BeginWalkin(c) \/ BeginMove(c) \/ BeginSetStatus(c)
       \/ ConfirmByCode(c) \/ CancelByCode(c) \/ SeatBooking(c) \/ SendReminder(c)
       \/ InsertBooking(c) \/ SaveBooking(c) \/ LookForTab(c) \/ CreateTab(c)
       \/ AbortBooking(c)
  \/ TimePasses

BookingSpec == BookingInit /\ [][BookingNext]_bookingVars

---------------------------------------------------------------------------
(* Rows, calls and histories have their types. *)
BookingTypeOK ==
  /\ bookings \in [Bookings -> Row]
  /\ tabbed \subseteq Bookings
  /\ clock \in 0 .. LastTick
  /\ begun \in 0 .. MaxBookingCalls
  /\ \A c \in BookingCalls :
       /\ bookingCalls[c].booking \in Bookings \cup {NoBooking}
       /\ bookingCalls[c].row \in Row
       /\ bookingCalls[c].checked \in BOOLEAN /\ bookingCalls[c].stale \in BOOLEAN
       /\ (bookingCalls[c].booking = NoBooking) <=> (bookingCalls[c].todo = <<>>)
  /\ misplaced \subseteq Bookings
  /\ cutOff \subseteq Bookings

Slots(b) == bookings[b].start .. (EndOf(bookings[b]) - 1)

(* Two bookings hold one table at one time only when one of them was written by a call that another *)
(* booking had overtaken since its look-up, or was brought back to life by a change of status: *)
(* checkAvailability, createWalkin and the exclusions of update leave no other way. *)
NoDoubleBooking ==
  \A a, b \in Bookings :
    /\ a # b
    /\ bookings[a].status \in {"pending", "confirmed", "seated"}
    /\ bookings[b].status \in {"pending", "confirmed", "seated"}
    /\ bookings[a].table = bookings[b].table
    /\ Slots(a) \cap Slots(b) # {}
    => a \in misplaced \/ b \in misplaced

(* A seated party has a tab to order on, or its handler is still about to open it, or stopped before *)
(* it could (createWalkin, update and seatWalkin write the two rows in separate transactions). *)
SeatedHasTab ==
  \A b \in Bookings :
    bookings[b].status = "seated" =>
      \/ b \in tabbed
      \/ b \in cutOff
      \/ \E c \in BookingCalls : /\ bookingCalls[c].booking = b
                                 /\ \E i \in DOMAIN bookingCalls[c].todo : bookingCalls[c].todo[i] = "tab"

(* Every slot that create() would accept at the default length is one the availability endpoint offers, *)
(* though the two look for tables in different ways. *)
BookableIsOffered ==
  \A party \in PartySizes, s \in StartTicks :
    FreeTables(party, s, DefaultLength, NoBooking) # {} => s \in OfferedSlots(party)

(* Nobody else is booked at one's table unless a write nobody checked put them there, and no time that   *)
(* create() would accept is missing from the slots shown.  The converse is not the code's: the slots take *)
(* any table large enough (reservation-config.ts:121), a booking only those of the exact size if there    *)
(* are any (reservations.service.ts:190), so a time may be offered that nobody can book.                  *)
TablesAreKept == NoDoubleBooking /\ BookableIsOffered

=============================================================================
