------------------------------ MODULE Tracking ------------------------------
(***************************************************************************)
(* Tracking codes (tracking/tracking.service.ts) and what guests do with     *)
(* them: they open a group, add items to it, follow it on the tracking page  *)
(* and review it (public/customer.service.ts, review/review.service.ts).     *)
(*                                                                           *)
(* A code is drawn where no tab, order or bill has it.  Only the code of a   *)
(* tab is stored with it, and is unique there; a takeaway group has no row   *)
(* before its first items, and the page that opened it holds its code and    *)
(* its terms until then, and sends both with every request.  The server      *)
(* takes any code no tab has, and the terms it is sent with it; only a       *)
(* delivery nobody priced is priced by the branch, at its fee of the moment. *)
(*                                                                           *)
(* Tables and shifts are in Floor and Shifts, the way an order takes in      *)
(* Kitchen, bills in BillDesk and GuestBill.                                 *)
(***************************************************************************)
EXTENDS Naturals, FiniteSets

CONSTANTS
  CodeNames,      \* tracking codes that may be drawn
  TrackedTabs,    \* ids of tabs
  Guests,         \* the pages of guests who open a takeaway group
  TrackFees,      \* delivery fees a branch may ask for, but for 0
  TrackBills,     \* ids of bills
  Reviews,        \* ids of reviews
  TrackCalls,     \* requests in flight at the same time
  MaxTrackCalls,  \* bound: requests begun in a behaviour
  NoCode, NoTab, NoGuest, NoScope

ASSUME TrackingAssumption ==
  /\ NoCode \notin CodeNames /\ NoTab \notin TrackedTabs /\ NoGuest \notin Guests
  /\ NoScope \notin CodeNames \cup TrackedTabs
  /\ TrackFees \subseteq Nat \ {0} /\ MaxTrackCalls \in Nat

VARIABLES
  tabs,         \* rows of tabs: tracking_code and status
  handed,       \* the code and the terms a guest's page was answered with
  groupRounds,  \* items added to groups: code, who added them, the terms on the orders, whether they found it empty
  trackBills,   \* rows of bills: their tab or code, payment_status, whether a stale save un-paid them
  reviews,      \* rows of reviews: their tab or code
  trackCalls,   \* the requests in flight
  trackBegun,
  drawnTwice,   \* history: codes drawn while another page held them and nothing was stored under them
  uninvited,      \* history: codes under which a request opened a group that no page sent so
  reviewedAtOnce, \* history: scopes two reviews were submitted for at once
  shown         \* history: the last tracking page

trackVars == <<tabs, handed, groupRounds, trackBills, reviews, trackCalls, trackBegun, drawnTwice, uninvited, reviewedAtOnce, shown>>

Scopes == TrackedTabs \cup CodeNames
Modes == {"self", "dispatch"}
Prices == TrackFees \cup {0}
Round == [code: CodeNames, guest: Guests, mode: Modes, fee: Prices, opened: BOOLEAN]
Unshown == [scope |-> NoScope, status |-> "none", wasPaid |-> FALSE]
IdleTrackCall == [at |-> "idle", code |-> NoCode, tab |-> NoTab, guest |-> NoGuest, mode |-> "self", fee |-> 0,
                  opened |-> FALSE, scope |-> NoScope, wasPaid |-> FALSE]

TrackInit ==
  /\ tabs = [t \in TrackedTabs |-> [code |-> NoCode, status |-> "none"]]
  /\ handed = [g \in Guests |-> [code |-> NoCode, mode |-> "self", fee |-> 0]]
  /\ groupRounds = {}
  /\ trackBills = [b \in TrackBills |-> [scope |-> NoScope, status |-> "none", reopened |-> FALSE]]
  /\ reviews = [r \in Reviews |-> NoScope]
  /\ trackCalls = [c \in TrackCalls |-> IdleTrackCall]
  /\ trackBegun = 0
  /\ drawnTwice = {} /\ uninvited = {} /\ reviewedAtOnce = {} /\ shown = Unshown

TrackCallAt(c, at) == trackCalls[c].at = at
BeginTrackCall(c, call) ==
  /\ TrackCallAt(c, "idle")
  /\ trackBegun < MaxTrackCalls /\ trackBegun' = trackBegun + 1
  /\ trackCalls' = [trackCalls EXCEPT ![c] = call]
EndTrackCall(c) == trackCalls' = [trackCalls EXCEPT ![c] = IdleTrackCall] /\ UNCHANGED trackBegun

RoundsOf(code) == { r \in groupRounds : r.code = code }
BillsOf(s) == { b \in TrackBills : trackBills[b].scope = s }
PaidOnce(s) == \E b \in BillsOf(s) : trackBills[b].status = "paid" \/ trackBills[b].reopened

---------------------------------------------------------------------------
(* generateUniqueCode *)

TabWith(code) == \E t \in TrackedTabs : tabs[t].code = code

FreeCode(code) == ~TabWith(code) /\ RoundsOf(code) = {} /\ BillsOf(code) = {}

HeldUnstored(code) ==
  /\ ~TabWith(code) /\ RoundsOf(code) = {} /\ BillsOf(code) = {}
  /\ \/ \E g \in Guests : handed[g].code = code
     \/ \E c \in TrackCalls : TrackCallAt(c, "drawn") /\ trackCalls[c].code = code
Drawn(code) == drawnTwice' = IF HeldUnstored(code) THEN drawnTwice \cup {code} ELSE drawnTwice

(* openTab of a table, by a waiter or by a guest *)
OpenTabDraws(c) ==
  \E t \in TrackedTabs, code \in { k \in CodeNames : FreeCode(k) } :
    /\ tabs[t].status = "none" /\ \A d \in TrackCalls : trackCalls[d].tab # t
    /\ BeginTrackCall(c, [IdleTrackCall EXCEPT !.at = "drawn", !.code = code, !.tab = t])
    /\ Drawn(code)
    /\ UNCHANGED <<tabs, handed, groupRounds, trackBills, reviews, uninvited, reviewedAtOnce, shown>>

InsertTab(c) ==
  LET me == trackCalls[c]
  IN /\ TrackCallAt(c, "drawn") /\ me.tab # NoTab
     /\ tabs' = IF TabWith(me.code) THEN tabs ELSE [tabs EXCEPT ![me.tab] = [code |-> me.code, status |-> "open"]]
     /\ EndTrackCall(c)
     /\ UNCHANGED <<handed, groupRounds, trackBills, reviews, drawnTwice, uninvited, reviewedAtOnce, shown>>

(* openTab of a group: of a delivery, the fee is the branch's of that moment, which may be 0. *)
OpenGroupDraws(c) ==
  \E g \in Guests, code \in { k \in CodeNames : FreeCode(k) }, mode \in Modes, fee \in Prices :
    /\ handed[g].code = NoCode /\ \A d \in TrackCalls : trackCalls[d].guest # g \/ ~TrackCallAt(d, "drawn")
    /\ mode = "self" => fee = 0
    /\ BeginTrackCall(c, [IdleTrackCall EXCEPT !.at = "drawn", !.code = code, !.guest = g, !.mode = mode, !.fee = fee])
    /\ Drawn(code)
    /\ UNCHANGED <<tabs, handed, groupRounds, trackBills, reviews, uninvited, reviewedAtOnce, shown>>

AnswerGroup(c) ==
  LET me == trackCalls[c]
  IN /\ TrackCallAt(c, "drawn") /\ me.guest # NoGuest
     /\ handed' = [handed EXCEPT ![me.guest] = [code |-> me.code, mode |-> me.mode, fee |-> me.fee]]
     /\ EndTrackCall(c)
     /\ UNCHANGED <<tabs, groupRounds, trackBills, reviews, drawnTwice, uninvited, reviewedAtOnce, shown>>

---------------------------------------------------------------------------
(* addItems to a group *)

Openings(code) == { r \in RoundsOf(code) : r.opened }

(* The terms of the earliest order hold for the group.  It is one of those whose request found the group     *)
(* empty, the earliest by its created_at, which need not be the first committed.  Before it, those sent hold. *)
(* Mutant: those sent come first.                                                                            *)
TermsSent(code, sent) == {sent}
StandingTerms(code, sent) ==
  IF RoundsOf(code) = {} THEN {sent} ELSE { [mode |-> r.mode, fee |-> r.fee] : r \in Openings(code) }

(* A delivery without a fee has the branch's of the moment, 0 where it does not deliver. *)
Charged(terms, asked) == IF terms.mode = "dispatch" /\ terms.fee = 0 THEN asked ELSE terms.fee

SentByPage(g, code, sent) == handed[g] = [code |-> code, mode |-> sent.mode, fee |-> sent.fee]

AddGroupItems(c) ==
  \E g \in Guests, code \in CodeNames, sent \in [mode: Modes, fee: Prices], asked \in Prices :
    \E terms \in StandingTerms(code, sent) :
      /\ ~TabWith(code)
      /\ terms.mode = "dispatch" => Charged(terms, asked) # 0
      /\ BeginTrackCall(c, [IdleTrackCall EXCEPT !.at = "add", !.code = code, !.guest = g, !.mode = terms.mode,
                                                 !.fee = Charged(terms, asked), !.opened = RoundsOf(code) = {}])
      /\ uninvited' = IF RoundsOf(code) = {} /\ ~SentByPage(g, code, sent) THEN uninvited \cup {code} ELSE uninvited
      /\ UNCHANGED <<tabs, handed, groupRounds, trackBills, reviews, drawnTwice, reviewedAtOnce, shown>>

CommitItems(c) ==
  LET me == trackCalls[c]
  IN /\ TrackCallAt(c, "add")
     /\ groupRounds' = groupRounds \cup
          {[code |-> me.code, guest |-> me.guest, mode |-> me.mode, fee |-> me.fee, opened |-> me.opened]}
     /\ EndTrackCall(c)
     /\ UNCHANGED <<tabs, handed, trackBills, reviews, drawnTwice, uninvited, reviewedAtOnce, shown>>

---------------------------------------------------------------------------
(* getTrackingByCode: a tab comes before a group; its status, or the first order's, is read before the bill, *)
(* which is whichever of the scope is found, or none when the look-up fails.                                 *)

Found(code) == IF TabWith(code) THEN CHOOSE t \in TrackedTabs : tabs[t].code = code ELSE code
CalledPaid(s) == IF s \in TrackedTabs THEN tabs[s].status = "paid" ELSE PaidOnce(s)

AskPage(c) ==
  \E code \in CodeNames :
    /\ TabWith(code) \/ RoundsOf(code) # {}
    /\ BeginTrackCall(c, [IdleTrackCall EXCEPT !.at = "page", !.code = code, !.scope = Found(code),
                                               !.wasPaid = CalledPaid(Found(code))])
    /\ UNCHANGED <<tabs, handed, groupRounds, trackBills, reviews, drawnTwice, uninvited, reviewedAtOnce, shown>>

ShowPage(c) ==
  LET me == trackCalls[c]
  IN /\ TrackCallAt(c, "page")
     /\ \E status \in {"none"} \cup { trackBills[b].status : b \in BillsOf(me.scope) } :
          shown' = [scope |-> me.scope, status |-> status, wasPaid |-> me.wasPaid]
     /\ EndTrackCall(c)
     /\ UNCHANGED <<tabs, handed, groupRounds, trackBills, reviews, drawnTwice, uninvited, reviewedAtOnce>>

---------------------------------------------------------------------------
(* submitReview and saveReview: the review there is changes, and another is made where there is none *)

Reviewed(s) == { r \in Reviews : reviews[r] = s }
MayReview(s) == IF s \in TrackedTabs THEN tabs[s].status \in {"open", "paid"} ELSE RoundsOf(s) # {}

FoundReview(s) == Reviewed(s) # {}

SubmitReview(c) ==
  \E s \in Scopes :
    /\ MayReview(s)
    /\ reviewedAtOnce' = IF \E d \in TrackCalls : TrackCallAt(d, "review") /\ trackCalls[d].scope = s
                         THEN reviewedAtOnce \cup {s} ELSE reviewedAtOnce
    /\ IF FoundReview(s)
       THEN BeginTrackCall(c, IdleTrackCall)
       ELSE BeginTrackCall(c, [IdleTrackCall EXCEPT !.at = "review", !.scope = s])
    /\ UNCHANGED <<tabs, handed, groupRounds, trackBills, reviews, drawnTwice, uninvited, shown>>

InsertReview(c) ==
  \E r \in Reviews :
    /\ TrackCallAt(c, "review") /\ reviews[r] = NoScope
    /\ reviews' = [reviews EXCEPT ![r] = trackCalls[c].scope]
    /\ EndTrackCall(c)
    /\ UNCHANGED <<tabs, handed, groupRounds, trackBills, drawnTwice, uninvited, reviewedAtOnce, shown>>

---------------------------------------------------------------------------
(* What the billing desk does to a scope: its running bill is one that is not voided.  A group that orders *)
(* after it paid has another.                                                                              *)
IssueBill ==
  \E b \in TrackBills, s \in Scopes :
    /\ trackBills[b].status = "none"
    /\ IF s \in TrackedTabs THEN tabs[s].status = "open" ELSE RoundsOf(s) # {}
    /\ \A x \in BillsOf(s) : trackBills[x].status = "voided" \/ (s \in CodeNames /\ trackBills[x].status = "paid")
    /\ trackBills' = [trackBills EXCEPT ![b] = [scope |-> s, status |-> "pending", reopened |-> FALSE]]
    /\ UNCHANGED <<tabs, handed, groupRounds, reviews, trackCalls, trackBegun, drawnTwice, uninvited, reviewedAtOnce, shown>>

(* A late webhook settles a voided bill as well. *)
SettleBill ==
  \E b \in TrackBills :
    /\ trackBills[b].status \in {"pending", "voided"}
    /\ trackBills' = [trackBills EXCEPT ![b].status = "paid"]
    /\ tabs' = [t \in TrackedTabs |-> IF trackBills[b].scope = t THEN [tabs[t] EXCEPT !.status = "paid"] ELSE tabs[t]]
    /\ UNCHANGED <<handed, groupRounds, reviews, trackCalls, trackBegun, drawnTwice, uninvited, reviewedAtOnce, shown>>

VoidBill ==
  \E b \in TrackBills :
    /\ trackBills[b].status = "pending"
    /\ trackBills' = [trackBills EXCEPT ![b].status = "voided"]
    /\ UNCHANGED <<tabs, handed, groupRounds, reviews, trackCalls, trackBegun, drawnTwice, uninvited, reviewedAtOnce, shown>>

(* An editor that read the bill before it was paid saves it whole (BillDesk): pending again, the status of *)
(* the tab and of the orders stays.                                                                        *)
SaveStaleBill ==
  \E b \in TrackBills :
    /\ trackBills[b].status = "paid"
    /\ trackBills' = [trackBills EXCEPT ![b].status = "pending", ![b].reopened = TRUE]
    /\ UNCHANGED <<tabs, handed, groupRounds, reviews, trackCalls, trackBegun, drawnTwice, uninvited, reviewedAtOnce, shown>>

(* A request fails, or the server stops, before its last step. *)
CutTrackCall(c) ==
  /\ ~TrackCallAt(c, "idle")
  /\ EndTrackCall(c)
  /\ UNCHANGED <<tabs, handed, groupRounds, trackBills, reviews, drawnTwice, uninvited, reviewedAtOnce, shown>>

TrackNext ==
  \/ \E c \in TrackCalls :
       \/ OpenTabDraws(c) \/ InsertTab(c) \/ OpenGroupDraws(c) \/ AnswerGroup(c)
       \/ AddGroupItems(c) \/ CommitItems(c) \/ AskPage(c) \/ ShowPage(c)
       \/ SubmitReview(c) \/ InsertReview(c) \/ CutTrackCall(c)
  \/ IssueBill \/ SettleBill \/ VoidBill \/ SaveStaleBill

TrackSpec == TrackInit /\ [][TrackNext]_trackVars

---------------------------------------------------------------------------
(* Rows, requests and histories have their types. *)
TrackTypeOK ==
  /\ tabs \in [TrackedTabs -> [code: CodeNames \cup {NoCode}, status: {"none", "open", "paid"}]]
  /\ handed \in [Guests -> [code: CodeNames \cup {NoCode}, mode: Modes, fee: Prices]]
  /\ groupRounds \subseteq Round
  /\ trackBills \in [TrackBills -> [scope: Scopes \cup {NoScope}, status: {"none", "pending", "paid", "voided"},
                                    reopened: BOOLEAN]]
  /\ reviews \in [Reviews -> Scopes \cup {NoScope}]
  /\ \A c \in TrackCalls : trackCalls[c].at \in {"idle", "drawn", "add", "page", "review"}
  /\ trackBegun \in 0 .. MaxTrackCalls
  /\ drawnTwice \subseteq CodeNames /\ uninvited \subseteq CodeNames /\ reviewedAtOnce \subseteq Scopes

(* A code leads to the group one guest opened or to one tab, never to two, unless it was drawn again while   *)
(* nothing was stored under it, or a request no page sent had opened a group under it.                       *)
CodeNamesOne ==
  \A code \in CodeNames \ (drawnTwice \cup uninvited) :
    Cardinality({ r.guest : r \in Openings(code) } \cup { t \in TrackedTabs : tabs[t].code = code }) <= 1

(* Whatever is sent, an order that joins a group has the terms of an order that opened it, so that the group *)
(* pays one fee unless two requests found it empty; and no delivery is free.                                 *)
GroupHasTerms ==
  \A r \in groupRounds :
    /\ r.mode = "dispatch" => r.fee # 0
    /\ \E o \in Openings(r.code) : o.mode = r.mode /\ o.fee = r.fee

(* The terms on the orders are those the page was quoted when it opened the group, but for a delivery quoted *)
(* free, which the branch prices later.  Codes as above.                                                     *)
FeeIsQuoted ==
  \A r \in groupRounds, g \in Guests :
    handed[g].code = r.code /\ r.code \notin drawnTwice \cup uninvited
      => r.mode = handed[g].mode /\ (r.fee = handed[g].fee \/ (r.mode = "dispatch" /\ handed[g].fee = 0))

(* A page that calls the tab or group paid, by the status it read first, shows no payment that is still     *)
(* pending or voided, unless the scope has several bills or a stale save un-paid one.                        *)
PageAgrees ==
  shown.wasPaid => \/ shown.status \in {"paid", "none"}
                   \/ Cardinality(BillsOf(shown.scope)) > 1
                   \/ \E b \in BillsOf(shown.scope) : trackBills[b].reopened

(* A tab or group has one review, unless two were submitted at once. *)
OneReview ==
  \A s \in Scopes \ reviewedAtOnce : Cardinality(Reviewed(s)) <= 1

(* All five: what a code leads to. *)
CodesLeadRight == CodeNamesOne /\ GroupHasTerms /\ FeeIsQuoted /\ PageAgrees /\ OneReview

=============================================================================
