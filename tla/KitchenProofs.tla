---------------------------- MODULE KitchenProofs ----------------------------
(***************************************************************************)
(* The two promises of the kitchen, proved for any number of orders, calls  *)
(* and restarts.                                                            *)
(*                                                                         *)
(* An order to be prepaid leaves "held" only by the release of its tab's    *)
(* payment.  While that has not happened -- the tab is not paid, or the     *)
(* payment still releases and a restart may take it back -- such an order   *)
(* is held, cancelled or removed, in the table and in every copy a call or  *)
(* the job has read.                                                        *)
(***************************************************************************)
EXTENDS Kitchen, TLAPS

Copies == UNION { [S -> KRow] : S \in SUBSET KOrders }
ApiKinds == {"nothing", "update", "receive", "remove", "release"}

CallTyped(call) ==
  /\ DOMAIN call.seen \subseteq KOrders
  /\ \A o \in DOMAIN call.seen : call.seen[o] \in KRow
  /\ (call.does = "nothing") <=> (call.seen = NoRows)

KitchenTyped ==
  /\ kds \in BOOLEAN /\ tabPaid \in BOOLEAN
  /\ kOrders \in [KOrders -> KRow]
  /\ timesUp \subseteq KOrders /\ readyBuffer \subseteq KOrders /\ announced \subseteq KOrders
  /\ announceFailed \subseteq KOrders
  /\ apiCalls \in [ApiCalls -> [does: ApiKinds, seen: Copies]]
  /\ cron \in [does: {"nothing", "ripen", "announce"}, seen: Copies]
  /\ (\A c \in ApiCalls : CallTyped(apiCalls[c])) /\ CallTyped(cron)
  /\ apiBegun \in 0 .. MaxApiCalls /\ restarts \in 0 .. MaxRestarts

Released == tabPaid /\ \A c \in ApiCalls : apiCalls[c].does # "release"

Withheld(row) == row.prepaid => row.status \in {"held", "cancelled", "removed"}

AllWithheld ==
  /\ \A o \in KOrders : Withheld(kOrders[o])
  /\ \A c \in ApiCalls : \A o \in DOMAIN apiCalls[c].seen : Withheld(apiCalls[c].seen[o])
  /\ \A o \in DOMAIN cron.seen : Withheld(cron.seen[o])

(* What each kind of call has read. *)
ReadAs(call) ==
  \A o \in DOMAIN call.seen :
    /\ call.does = "receive" => call.seen[o].status \in {"ready", "out"}
    /\ call.does = "remove" => call.seen[o].status = "pending"
    /\ call.does = "release" => call.seen[o].status = "held"
    /\ call.does = "ripen" => call.seen[o].status \in Cooking

OneRelease ==
  \A c, d \in ApiCalls : apiCalls[c].does = "release" => tabPaid /\ (apiCalls[d].does = "release" => c = d)

KitchenInv ==
  /\ KitchenTyped
  /\ (~Released => AllWithheld)
  /\ \A c \in ApiCalls : ReadAs(apiCalls[c])
  /\ ReadAs(cron)
  /\ OneRelease

---------------------------------------------------------------------------
LEMMA NoRowsIsCopy == NoRows \in Copies /\ DOMAIN NoRows = {} /\ NoKRow \in KRow
<1>1. {} \in SUBSET KOrders /\ NoRows \in [{} -> KRow]
  BY DEF NoRows
<1>2. NoKRow \in KRow
  BY DEF NoKRow, KRow, KStatus
<1> QED
  BY <1>1, <1>2 DEF Copies, NoRows

LEMMA TypedIsTypeOK == KitchenTyped => KitchenTypeOK
  BY DEF KitchenTyped, KitchenTypeOK, CallTyped

LEMMA KitchenInitInv == KitchenInit => KitchenInv
<1> SUFFICES ASSUME KitchenInit PROVE KitchenInv
  OBVIOUS
<1>1. KitchenTyped
  <2>1. /\ CallTyped(IdleApi) /\ IdleApi \in [does: ApiKinds, seen: Copies]
        /\ IdleApi \in [does: {"nothing", "ripen", "announce"}, seen: Copies]
    BY NoRowsIsCopy DEF CallTyped, IdleApi, ApiKinds
  <2>2. kOrders \in [KOrders -> KRow]
    BY NoRowsIsCopy DEF KitchenInit
  <2>3. /\ apiCalls \in [ApiCalls -> [does: ApiKinds, seen: Copies]] /\ cron = IdleApi
        /\ \A c \in ApiCalls : apiCalls[c] = IdleApi
    BY <2>1 DEF KitchenInit
  <2>4. apiBegun \in 0 .. MaxApiCalls /\ restarts \in 0 .. MaxRestarts
    BY KitchenAssumption DEF KitchenInit
  <2> QED
    BY <2>1, <2>2, <2>3, <2>4 DEF KitchenInit, KitchenTyped
<1>2. AllWithheld
  BY NoRowsIsCopy DEF KitchenInit, AllWithheld, Withheld, IdleApi, NoKRow
<1>3. /\ \A c \in ApiCalls : ReadAs(apiCalls[c])
      /\ ReadAs(cron) /\ OneRelease
  BY NoRowsIsCopy DEF KitchenInit, ReadAs, OneRelease, IdleApi
<1> QED
  BY <1>1, <1>2, <1>3 DEF KitchenInv

(* Rows as a call reads them. *)
LEMMA RowsAreCopies ==
  ASSUME KitchenInv, NEW S \in SUBSET KOrders
  PROVE /\ Rows(S) \in Copies /\ DOMAIN Rows(S) = S
        /\ \A o \in S : Rows(S)[o] = kOrders[o] /\ kOrders[o] \in KRow
        /\ S # {} => Rows(S) # NoRows
<1>1. kOrders \in [KOrders -> KRow]
  BY DEF KitchenInv, KitchenTyped, CallTyped
<1>2. Rows(S) \in [S -> KRow]
  BY <1>1 DEF Rows
<1> QED
  BY <1>1, <1>2, NoRowsIsCopy DEF Copies, Rows

---------------------------------------------------------------------------
(* A step that writes orders and nothing a call has read: placing an order, and the staff's changes. *)
LEMMA WritesOrder ==
  ASSUME KitchenInv, NEW o \in KOrders, NEW row \in KRow,
         kOrders' = [kOrders EXCEPT ![o] = row],
         ~Released => Withheld(row),
         UNCHANGED <<kds, tabPaid, apiCalls, apiBegun, cron, announced, announceFailed, restarts>>,
         timesUp' \subseteq KOrders, readyBuffer' \subseteq KOrders
  PROVE KitchenInv'
<1>1. KitchenTyped'
  BY DEF KitchenInv, KitchenTyped, CallTyped
<1>2. ~Released' => AllWithheld'
  BY DEF KitchenInv, Released, AllWithheld, KitchenTyped, CallTyped
<1>3. (\A c \in ApiCalls : ReadAs(apiCalls[c])') /\ ReadAs(cron)' /\ OneRelease'
  BY DEF KitchenInv, ReadAs, OneRelease
<1> QED
  BY <1>1, <1>2, <1>3 DEF KitchenInv

LEMMA StepStaff ==
  ASSUME KitchenInv, NEW o \in KOrders,
         \/ PlaceOrder(o) \/ Approve(o) \/ ChefAccept(o) \/ BumpReady(o)
         \/ Decline(o) \/ ConfirmPickup(o) \/ Deliver(o) \/ Cancel(o)
  PROVE KitchenInv'
<1>1. /\ kOrders \in [KOrders -> KRow] /\ kOrders[o] \in KRow /\ kds \in BOOLEAN
      /\ timesUp \subseteq KOrders /\ readyBuffer \subseteq KOrders
  BY DEF KitchenInv, KitchenTyped, CallTyped
<1>2. ~Released => Withheld(kOrders[o])
  BY DEF KitchenInv, AllWithheld
<1>3. CASE PlaceOrder(o)
  <2>1. PICK row \in { [NoKRow EXCEPT !.status = ForTheKitchen],
                       [NoKRow EXCEPT !.status = "ready", !.instant = TRUE],
                       [NoKRow EXCEPT !.status = "held", !.prepaid = TRUE] } :
          kOrders' = [kOrders EXCEPT ![o] = row]
    BY <1>3 DEF PlaceOrder
  <2>2. row \in KRow /\ Withheld(row)
    BY <1>1, <2>1 DEF Withheld, KRow, KStatus, NoKRow, ForTheKitchen
  <2> QED
    BY <1>1, <1>3, <2>1, <2>2, WritesOrder DEF PlaceOrder
<1>4. CASE Approve(o)
  <2>1. ApprovedRow(o) \in KRow /\ (~Released => Withheld(ApprovedRow(o)))
    BY <1>1, <1>2, <1>4 DEF Approve, Staff, Approvable, ApprovedRow, KRow, KStatus, Withheld
  <2> QED
    BY <1>1, <1>4, <2>1, WritesOrder DEF Approve, Staff
<1>5. CASE ChefAccept(o)
  <2> DEFINE row == [To(o, "preparing") EXCEPT !.timer = TRUE]
  <2>1. row \in KRow /\ (~Released => Withheld(row))
    BY <1>1, <1>2, <1>5 DEF ChefAccept, Staff, To, KRow, KStatus, Withheld
  <2> QED
    BY <1>1, <1>5, <2>1, WritesOrder DEF ChefAccept, Staff
<1>6. ASSUME NEW status \in KStatus, NEW from, Staff(o, from, To(o, status)),
             \/ from \cap {"held", "cancelled", "removed"} = {}
             \/ status = "cancelled",
             timesUp' = timesUp, readyBuffer' \subseteq KOrders
      PROVE KitchenInv'
  <2>1. To(o, status) \in KRow /\ (~Released => Withheld(To(o, status)))
    BY <1>1, <1>2, <1>6 DEF Staff, To, KRow, Withheld
  <2> QED
    BY <1>1, <1>6, <2>1, WritesOrder DEF Staff
<1>7. CASE BumpReady(o)
  BY <1>1, <1>6, <1>7 DEF BumpReady, Buffered, Cooking, KStatus
<1>8. CASE Decline(o) \/ ConfirmPickup(o) \/ Deliver(o)
  BY <1>1, <1>6, <1>8 DEF Decline, ConfirmPickup, Deliver, KStatus
<1>9. CASE Cancel(o)
  BY <1>1, <1>6, <1>9 DEF Cancel, KStatus
<1> QED
  BY <1>3, <1>4, <1>5, <1>7, <1>8, <1>9

---------------------------------------------------------------------------
(* A call that begins reads rows and writes none. *)
LEMMA BeginsApi ==
  ASSUME KitchenInv, NEW c \in ApiCalls, NEW does \in ApiKinds \ {"nothing"}, NEW S \in SUBSET KOrders,
         BeginApi(c, does, S), tabPaid' \in BOOLEAN,
         IF does = "release" THEN ~tabPaid /\ tabPaid' ELSE tabPaid' = tabPaid,
         does = "receive" => \A o \in S : kOrders[o].status \in {"ready", "out"},
         does = "remove" => \A o \in S : kOrders[o].status = "pending",
         does = "release" => \A o \in S : kOrders[o].status = "held"
  PROVE KitchenInv'
<1>1. /\ S # {} /\ apiBegun < MaxApiCalls /\ apiBegun' = apiBegun + 1
      /\ apiCalls' = [apiCalls EXCEPT ![c] = [does |-> does, seen |-> Rows(S)]]
      /\ UNCHANGED <<kds, kOrders, timesUp, cron, readyBuffer, announced, announceFailed, restarts>>
  BY DEF BeginApi
<1>2. /\ Rows(S) \in Copies /\ DOMAIN Rows(S) = S
      /\ \A o \in S : Rows(S)[o] = kOrders[o] /\ kOrders[o] \in KRow
      /\ Rows(S) # NoRows
  BY <1>1, RowsAreCopies
<1> DEFINE call == [does |-> does, seen |-> Rows(S)]
<1>3. call.does = does /\ call.seen = Rows(S) /\ call \in [does: ApiKinds, seen: Copies]
  BY <1>2
<1>4. /\ apiCalls' \in [ApiCalls -> [does: ApiKinds, seen: Copies]] /\ apiCalls'[c] = call
      /\ \A d \in ApiCalls \ {c} : apiCalls'[d] = apiCalls[d]
  BY <1>1, <1>3 DEF KitchenInv, KitchenTyped
<1> HIDE DEF call
<1>5. KitchenTyped'
  <2>1. ASSUME NEW d \in ApiCalls
        PROVE /\ DOMAIN apiCalls'[d].seen \subseteq KOrders
              /\ \A o \in DOMAIN apiCalls'[d].seen : apiCalls'[d].seen[o] \in KRow
              /\ (apiCalls'[d].does = "nothing") <=> (apiCalls'[d].seen = NoRows)
    BY <1>2, <1>3, <1>4, <2>1 DEF KitchenInv, KitchenTyped, CallTyped
  <2> QED
    BY <1>1, <1>4, <2>1, KitchenAssumption DEF KitchenInv, KitchenTyped, CallTyped
<1>6. ~Released' => ~Released
  BY <1>3, <1>4 DEF Released, KitchenInv, OneRelease
<1>7. ~Released' => AllWithheld'
  BY <1>1, <1>2, <1>3, <1>4, <1>6 DEF KitchenInv, AllWithheld
<1>8. (\A d \in ApiCalls : ReadAs(apiCalls[d])') /\ ReadAs(cron)'
  <2>1. \A d \in ApiCalls \ {c} : ReadAs(apiCalls[d])'
    BY <1>4 DEF KitchenInv, ReadAs
  <2>2. ReadAs(call)
    BY <1>2, <1>3 DEF ReadAs, ApiKinds
  <2>3. ReadAs(cron)'
    BY <1>1 DEF KitchenInv, ReadAs
  <2> QED
    BY <1>4, <2>1, <2>2, <2>3 DEF ReadAs
<1>9. OneRelease'
  BY <1>3, <1>4 DEF KitchenInv, OneRelease
<1> QED
  BY <1>5, <1>7, <1>8, <1>9 DEF KitchenInv

LEMMA StepBeginsApi ==
  ASSUME KitchenInv, NEW c \in ApiCalls,
         BeginUpdateOrder(c) \/ BeginConfirmReceived(c) \/ BeginRemoveOrder(c) \/ BeginRelease(c)
  PROVE KitchenInv'
<1>1. tabPaid \in BOOLEAN
  BY DEF KitchenInv, KitchenTyped, CallTyped
<1>2. CASE BeginUpdateOrder(c)
  BY <1>1, <1>2, BeginsApi DEF BeginUpdateOrder, WithStatus, ApiKinds
<1>3. CASE BeginConfirmReceived(c)
  BY <1>1, <1>3, BeginsApi DEF BeginConfirmReceived, WithStatus, ApiKinds
<1>4. CASE BeginRemoveOrder(c)
  BY <1>1, <1>4, BeginsApi DEF BeginRemoveOrder, WithStatus, ApiKinds
<1>5. CASE BeginRelease(c)
  BY <1>1, <1>5, BeginsApi DEF BeginRelease, WithStatus, ApiKinds
<1> QED
  BY <1>2, <1>3, <1>4, <1>5

---------------------------------------------------------------------------
(* What a call writes over a row it has read. *)
LEMMA WrittenRow ==
  ASSUME KitchenInv, NEW call, call = cron \/ (\E c \in ApiCalls : call = apiCalls[c]),
         NEW o \in DOMAIN call.seen
  PROVE /\ o \in KOrders /\ Written(call, o) \in KRow
        /\ (~Released /\ call.does # "release") => Withheld(Written(call, o))
        /\ (kOrders[o].status \in Ended /\ Written(call, o).status # kOrders[o].status) =>
             call.seen[o].status # kOrders[o].status
<1>1. /\ o \in KOrders /\ call.seen[o] \in KRow /\ kOrders[o] \in KRow /\ kds \in BOOLEAN
      /\ call.does \in ApiKinds \cup {"ripen", "announce"}
  <2>1. ASSUME call = cron PROVE call.does \in {"nothing", "ripen", "announce"} /\ CallTyped(call)
    BY <2>1 DEF KitchenInv, KitchenTyped
  <2>2. ASSUME NEW c \in ApiCalls, call = apiCalls[c] PROVE call.does \in ApiKinds /\ CallTyped(call)
    BY <2>2 DEF KitchenInv, KitchenTyped
  <2>3. CallTyped(call) /\ call.does \in ApiKinds \cup {"ripen", "announce"}
    BY <2>1, <2>2 DEF KitchenInv, KitchenTyped, ApiKinds
  <2> QED
    BY <2>3 DEF CallTyped, KitchenInv, KitchenTyped
<1>2. ~Released => Withheld(call.seen[o]) /\ Withheld(kOrders[o])
  BY <1>1 DEF KitchenInv, AllWithheld
<1>3. /\ call.does = "receive" => call.seen[o].status \in {"ready", "out"}
      /\ call.does = "remove" => call.seen[o].status = "pending"
      /\ call.does = "release" => call.seen[o].status = "held"
      /\ call.does = "ripen" => call.seen[o].status \in Cooking
  BY DEF KitchenInv, ReadAs
<1>4. CASE call.does = "update"
  BY <1>1, <1>2, <1>4 DEF Written
<1>5. CASE call.does = "receive"
  BY <1>1, <1>2, <1>3, <1>5 DEF Written, KRow, KStatus, Withheld, Ended
<1>6. CASE call.does = "ripen"
  BY <1>1, <1>2, <1>3, <1>6 DEF Written, KRow, KStatus, Withheld, Ended, Cooking
<1>7. CASE call.does = "release"
  BY <1>1, <1>3, <1>7 DEF Written, To, ForTheKitchen, KRow, KStatus, Ended
<1>8. CASE call.does = "remove"
  BY <1>1, <1>3, <1>8 DEF Written, To, KRow, KStatus, Withheld, Ended
<1>9. CASE call.does \in {"nothing", "announce"}
  BY <1>1, <1>2, <1>9 DEF Written
<1> QED
  BY <1>1, <1>4, <1>5, <1>6, <1>7, <1>8, <1>9 DEF ApiKinds

(* A save writes what its call or the job had read. *)
LEMMA SaveWrites ==
  ASSUME KitchenInv, NEW call, call = cron \/ (\E c \in ApiCalls : call = apiCalls[c]),
         kOrders' = Save(call)
  PROVE /\ kOrders' \in [KOrders -> KRow]
        /\ (~Released /\ call.does # "release") => \A o \in KOrders : Withheld(kOrders'[o])
        /\ \A o \in KOrders : kOrders[o].status \in Ended /\ kOrders'[o].status # kOrders[o].status =>
             /\ o \in DOMAIN call.seen /\ kOrders'[o] = Written(call, o)
             /\ call.seen[o].status # kOrders[o].status
<1>1. \A o \in KOrders : kOrders'[o] = IF o \in DOMAIN call.seen THEN Written(call, o) ELSE kOrders[o]
  BY DEF Save
<1>2. kOrders \in [KOrders -> KRow]
  BY DEF KitchenInv, KitchenTyped
<1>3. \A o \in KOrders : kOrders'[o] \in KRow
  BY <1>1, <1>2, WrittenRow
<1>4. kOrders' \in [KOrders -> KRow]
  BY <1>3 DEF Save
<1>5. (~Released /\ call.does # "release") => \A o \in KOrders : Withheld(kOrders'[o])
  BY <1>1, WrittenRow DEF KitchenInv, AllWithheld
<1> QED
  BY <1>1, <1>4, <1>5, WrittenRow

LEMMA StepSaves ==
  ASSUME KitchenInv, NEW c \in ApiCalls, SaveOrders(c)
  PROVE KitchenInv'
<1>1. /\ apiCalls[c] # IdleApi /\ kOrders' = Save(apiCalls[c])
      /\ apiCalls' = [apiCalls EXCEPT ![c] = IdleApi]
      /\ UNCHANGED <<kds, timesUp, tabPaid, apiBegun, cron, readyBuffer, announced, announceFailed, restarts>>
  BY DEF SaveOrders
<1>2. /\ kOrders' \in [KOrders -> KRow]
      /\ (~Released /\ apiCalls[c].does # "release") => \A o \in KOrders : Withheld(kOrders'[o])
  BY <1>1, SaveWrites
<1>3. IdleApi \in [does: ApiKinds, seen: Copies] /\ CallTyped(IdleApi) /\ DOMAIN IdleApi.seen = {}
      /\ IdleApi.does = "nothing"
  BY NoRowsIsCopy DEF IdleApi, ApiKinds, CallTyped
<1>4. /\ apiCalls' \in [ApiCalls -> [does: ApiKinds, seen: Copies]] /\ apiCalls'[c] = IdleApi
      /\ \A d \in ApiCalls \ {c} : apiCalls'[d] = apiCalls[d]
  BY <1>1, <1>3 DEF KitchenInv, KitchenTyped
<1>5. KitchenTyped'
  <2>1. \A d \in ApiCalls : CallTyped(apiCalls[d])'
    BY <1>3, <1>4 DEF KitchenInv, KitchenTyped, CallTyped
  <2> QED
    BY <1>1, <1>2, <1>4, <2>1 DEF KitchenInv, KitchenTyped, CallTyped
<1>6. ~Released' => AllWithheld'
  <2>1. SUFFICES ASSUME ~Released' PROVE AllWithheld'
    OBVIOUS
  <2>2. ~Released /\ apiCalls[c].does # "release"
    BY <1>1, <1>3, <1>4, <2>1 DEF Released, KitchenInv, OneRelease
  <2> QED
    BY <1>1, <1>2, <1>3, <1>4, <2>2 DEF KitchenInv, AllWithheld
<1>7. (\A d \in ApiCalls : ReadAs(apiCalls[d])') /\ ReadAs(cron)' /\ OneRelease'
  BY <1>1, <1>3, <1>4 DEF KitchenInv, ReadAs, OneRelease
<1> QED
  BY <1>5, <1>6, <1>7 DEF KitchenInv

---------------------------------------------------------------------------
(* The job reads orders on the stove, saves them as ready and announces them. *)
LEMMA StepJob ==
  ASSUME KitchenInv, ExpireOrderTimers
  PROVE KitchenInv'
<1>1. CASE ReadExpired
  <2> DEFINE expired == { o \in WithStatus(Cooking) \cap timesUp : kOrders[o].timer }
             call == [does |-> "ripen", seen |-> Rows(expired)]
  <2>1. /\ expired # {} /\ cron' = call
        /\ UNCHANGED <<kds, kOrders, timesUp, tabPaid, apiCalls, apiBegun, readyBuffer, announced, announceFailed, restarts>>
    BY <1>1 DEF ReadExpired
  <2>2. expired \in SUBSET KOrders /\ \A o \in expired : kOrders[o].status \in Cooking
    BY DEF WithStatus
  <2> HIDE DEF expired
  <2>3. /\ Rows(expired) \in Copies /\ DOMAIN Rows(expired) = expired
        /\ \A o \in expired : Rows(expired)[o] = kOrders[o] /\ kOrders[o] \in KRow
        /\ Rows(expired) # NoRows
    BY <2>1, <2>2, RowsAreCopies
  <2>4. /\ call.does = "ripen" /\ call.seen = Rows(expired) /\ CallTyped(call) /\ ReadAs(call)
        /\ call \in [does: {"nothing", "ripen", "announce"}, seen: Copies]
    BY <2>2, <2>3 DEF CallTyped, ReadAs
  <2> HIDE DEF call
  <2>5. KitchenTyped'
    BY <2>1, <2>4 DEF KitchenInv, KitchenTyped, CallTyped
  <2>6. ~Released' => AllWithheld'
    BY <2>1, <2>2, <2>3, <2>4 DEF KitchenInv, Released, AllWithheld
  <2>7. (\A c \in ApiCalls : ReadAs(apiCalls[c])') /\ ReadAs(cron)' /\ OneRelease'
    BY <2>1, <2>4 DEF KitchenInv, ReadAs, OneRelease
  <2> QED
    BY <2>5, <2>6, <2>7 DEF KitchenInv
<1>2. CASE SaveReady
  <2>1. /\ cron.does = "ripen" /\ kOrders' = Save(cron) /\ cron' = [cron EXCEPT !.does = "announce"]
        /\ UNCHANGED <<kds, timesUp, tabPaid, apiCalls, apiBegun, readyBuffer, announced, announceFailed, restarts>>
    BY <1>2 DEF SaveReady
  <2>2. /\ kOrders' \in [KOrders -> KRow]
        /\ ~Released => \A o \in KOrders : Withheld(kOrders'[o])
    BY <2>1, SaveWrites
  <2>3. /\ cron'.does = "announce" /\ cron'.seen = cron.seen
        /\ cron' \in [does: {"nothing", "ripen", "announce"}, seen: Copies]
    BY <2>1 DEF KitchenInv, KitchenTyped
  <2>4. KitchenTyped'
    BY <2>1, <2>2, <2>3 DEF KitchenInv, KitchenTyped, CallTyped
  <2>5. ~Released' => AllWithheld'
    BY <2>1, <2>2, <2>3 DEF KitchenInv, Released, AllWithheld
  <2>6. (\A c \in ApiCalls : ReadAs(apiCalls[c])') /\ ReadAs(cron)' /\ OneRelease'
    BY <2>1, <2>3 DEF KitchenInv, ReadAs, OneRelease
  <2> QED
    BY <2>4, <2>5, <2>6 DEF KitchenInv
<1>3. CASE AnnounceReady \/ AnnounceReadyThrows
  <2>1. /\ IdleApi \in [does: {"nothing"}, seen: Copies] /\ CallTyped(IdleApi) /\ DOMAIN IdleApi.seen = {}
    BY NoRowsIsCopy DEF IdleApi, CallTyped
  <2>2. /\ announced' \cup announceFailed' \subseteq announced \cup announceFailed \cup DOMAIN cron.seen
        /\ cron' = IdleApi
        /\ UNCHANGED <<kds, kOrders, timesUp, tabPaid, apiCalls, apiBegun, readyBuffer, restarts>>
    BY <1>3 DEF AnnounceReady, AnnounceReadyThrows
  <2>3. KitchenTyped'
    BY <2>1, <2>2 DEF KitchenInv, KitchenTyped, CallTyped
  <2>4. ~Released' => AllWithheld'
    BY <2>1, <2>2 DEF KitchenInv, Released, AllWithheld
  <2>5. (\A c \in ApiCalls : ReadAs(apiCalls[c])') /\ ReadAs(cron)' /\ OneRelease'
    BY <2>1, <2>2 DEF KitchenInv, ReadAs, OneRelease
  <2> QED
    BY <2>3, <2>4, <2>5 DEF KitchenInv
<1> QED
  BY <1>1, <1>2, <1>3 DEF ExpireOrderTimers

(* Time, the buffer, a settlement with nothing to release, and a restart, which may take a payment back *)
(* that was still releasing: nothing that must be prepaid was cooked yet.                              *)
LEMMA StepRest ==
  ASSUME KitchenInv, Settle \/ FlushReadyBuffer \/ LoseReadyBatch \/ Restart \/ (\E o \in KOrders : CountdownEnds(o))
  PROVE KitchenInv'
<1>1. CASE Settle \/ FlushReadyBuffer \/ LoseReadyBatch \/ (\E o \in KOrders : CountdownEnds(o))
  <2>1. UNCHANGED <<kds, kOrders, apiCalls, apiBegun, cron, restarts>> /\ (tabPaid => tabPaid')
    BY <1>1 DEF Settle, FlushReadyBuffer, LoseReadyBatch, CountdownEnds
  <2>2. KitchenTyped'
    BY <1>1, <2>1 DEF KitchenInv, KitchenTyped, CallTyped, Settle, FlushReadyBuffer, LoseReadyBatch, CountdownEnds
  <2>3. ~Released' => AllWithheld'
    BY <2>1 DEF KitchenInv, Released, AllWithheld
  <2>4. (\A c \in ApiCalls : ReadAs(apiCalls[c])') /\ ReadAs(cron)' /\ OneRelease'
    BY <2>1 DEF KitchenInv, ReadAs, OneRelease
  <2> QED
    BY <2>2, <2>3, <2>4 DEF KitchenInv
<1>2. CASE Restart
  <2>1. /\ IdleApi \in [does: {"nothing"}, seen: Copies] /\ CallTyped(IdleApi) /\ DOMAIN IdleApi.seen = {}
        /\ IdleApi.does = "nothing"
    BY NoRowsIsCopy DEF IdleApi, CallTyped
  <2>2. /\ restarts < MaxRestarts /\ restarts' = restarts + 1
        /\ tabPaid' = (tabPaid /\ \A c \in ApiCalls : apiCalls[c].does # "release")
        /\ \A c \in ApiCalls : apiCalls'[c] = IdleApi
        /\ apiCalls' \in [ApiCalls -> [does: ApiKinds, seen: Copies]]
        /\ cron' = IdleApi /\ readyBuffer' = {}
        /\ UNCHANGED <<kds, kOrders, timesUp, apiBegun, announced, announceFailed>>
    BY <1>2, <2>1 DEF Restart, ApiKinds
  <2>3. KitchenTyped'
    BY <2>1, <2>2, KitchenAssumption DEF KitchenInv, KitchenTyped, CallTyped
  <2>4. ~Released' => AllWithheld'
    BY <2>1, <2>2 DEF KitchenInv, Released, AllWithheld
  <2>5. (\A c \in ApiCalls : ReadAs(apiCalls[c])') /\ ReadAs(cron)' /\ OneRelease'
    BY <2>1, <2>2 DEF ReadAs, OneRelease
  <2> QED
    BY <2>3, <2>4, <2>5 DEF KitchenInv
<1> QED
  BY <1>1, <1>2

---------------------------------------------------------------------------
LEMMA KitchenStep == KitchenInv /\ [KitchenNext]_kitchenVars => KitchenInv'
<1> SUFFICES ASSUME KitchenInv, [KitchenNext]_kitchenVars PROVE KitchenInv'
  OBVIOUS
<1>1. ASSUME NEW o \in KOrders,
             \/ PlaceOrder(o) \/ Approve(o) \/ ChefAccept(o) \/ BumpReady(o)
             \/ Decline(o) \/ ConfirmPickup(o) \/ Deliver(o) \/ Cancel(o)
      PROVE KitchenInv'
  BY <1>1, StepStaff
<1>2. ASSUME NEW c \in ApiCalls,
             BeginUpdateOrder(c) \/ BeginConfirmReceived(c) \/ BeginRemoveOrder(c) \/ BeginRelease(c)
      PROVE KitchenInv'
  BY <1>2, StepBeginsApi
<1>3. ASSUME NEW c \in ApiCalls, SaveOrders(c) PROVE KitchenInv'
  BY <1>3, StepSaves
<1>4. CASE ExpireOrderTimers
  BY <1>4, StepJob
<1>5. CASE Settle \/ FlushReadyBuffer \/ LoseReadyBatch \/ Restart \/ (\E o \in KOrders : CountdownEnds(o))
  BY <1>5, StepRest
<1>6. CASE UNCHANGED kitchenVars
  BY <1>6 DEF kitchenVars, KitchenInv, KitchenTyped, CallTyped, Released, AllWithheld, ReadAs, OneRelease
<1> QED
  BY <1>1, <1>2, <1>3, <1>4, <1>5, <1>6 DEF KitchenNext

(* The inductive invariant holds in every reachable state. *)
THEOREM KitchenInvariant == KitchenSpec => []KitchenInv
  BY KitchenInitInv, KitchenStep, PTL DEF KitchenSpec

(* Orders, calls and buffers keep their types. *)
THEOREM KitchenTypeCorrect == KitchenSpec => []KitchenTypeOK
<1>1. KitchenInv => KitchenTypeOK
  BY TypedIsTypeOK DEF KitchenInv
<1> QED
  BY <1>1, KitchenInvariant, PTL

(* What a guest must prepay is not cooked, let alone served, before its tab is paid. *)
THEOREM HeldUntilPaidAlways == KitchenSpec => []HeldUntilPaid
<1>1. KitchenInv => HeldUntilPaid
  BY DEF KitchenInv, AllWithheld, Withheld, Released, HeldUntilPaid, Cooking
<1> QED
  BY <1>1, KitchenInvariant, PTL

(* An ended order comes back only by a save of the copy a call or the job had read before. *)
THEOREM EndedOrdersStayEndedAlways == KitchenSpec => EndedOrdersStayEnded
<1> DEFINE Stays ==
      \A o \in KOrders :
        kOrders[o].status \in Ended /\ kOrders'[o].status # kOrders[o].status =>
          \E call \in { apiCalls[c] : c \in ApiCalls } \cup {cron} :
            /\ o \in DOMAIN call.seen
            /\ call.seen[o].status # kOrders[o].status
            /\ kOrders'[o] = Written(call, o)
<1>1. KitchenInv /\ [KitchenNext]_kitchenVars => [Stays]_kitchenVars
  <2> SUFFICES ASSUME KitchenInv, KitchenNext PROVE Stays
    OBVIOUS
  <2>1. kOrders \in [KOrders -> KRow]
    BY DEF KitchenInv, KitchenTyped
  <2>2. ASSUME NEW o \in KOrders,
               \/ PlaceOrder(o) \/ Approve(o) \/ ChefAccept(o) \/ BumpReady(o)
               \/ Decline(o) \/ ConfirmPickup(o) \/ Deliver(o) \/ Cancel(o)
        PROVE Stays
    <3>1. kOrders[o].status \notin Ended
      BY <2>2 DEF PlaceOrder, Approve, ChefAccept, BumpReady, Decline, ConfirmPickup, Deliver, Cancel,
                  Staff, Approvable, Cancellable, Cooking, Ended
    <3>2. \A u \in KOrders \ {o} : kOrders'[u] = kOrders[u]
      BY <2>1, <2>2 DEF PlaceOrder, Approve, ChefAccept, BumpReady, Decline, ConfirmPickup, Deliver, Cancel, Staff
    <3> QED
      BY <3>1, <3>2
  <2>3. ASSUME NEW c \in ApiCalls, SaveOrders(c) PROVE Stays
    BY <2>3, SaveWrites DEF SaveOrders
  <2>4. CASE SaveReady
    BY <2>4, SaveWrites DEF SaveReady
  <2>5. CASE UNCHANGED kOrders
    BY <2>5
  <2> QED
    BY <2>2, <2>3, <2>4, <2>5 DEF KitchenNext, BeginUpdateOrder, BeginConfirmReceived, BeginRemoveOrder,
       BeginRelease, BeginApi, Settle, ExpireOrderTimers, ReadExpired, AnnounceReady, AnnounceReadyThrows,
       FlushReadyBuffer, LoseReadyBatch,
       Restart, CountdownEnds
<1> QED
  BY <1>1, KitchenInvariant, PTL DEF KitchenSpec, EndedOrdersStayEnded
=============================================================================
