---------------------------- MODULE HouseProofs ----------------------------
(***************************************************************************)
(* The life of the house beside its bills, proved for any number of tabs,  *)
(* waiters, keys, bookings and handlers: who serves a tab (module          *)
(* TabWaiters), the tables (module Floor), the offline queue (module       *)
(* SyncQueue), the calls for a waiter (module WaiterCalls), table          *)
(* reservations (module Bookings), the shifts (module Shifts), the paid    *)
(* plan (module Subscriptions) and the door of the webhooks (module        *)
(* WebhookDoor).                                                           *)
(***************************************************************************)
EXTENDS TabWaiters, Floor, Shifts, SyncQueue, WaiterCalls, Bookings, Subscriptions, WebhookDoor,
        FiniteSetTheorems, SequenceTheorems, TLAPS

---------------------------------------------------------------------------
(***************************************************************************)
(* Who serves a tab, proved for any number of tabs, waiters and handlers.   *)
(*                                                                         *)
(* The three promises need to know what a handler under way may rely on:    *)
(* one that opens a tab has it for itself; the others have a row of theirs   *)
(* that was there when they looked and of which origin and, for a guest's    *)
(* tab, waiter and shift have not changed since; and nobody hands a guest's  *)
(* tab over, because it has no shift.                                       *)
(***************************************************************************)

(* A guest's tab never gets a waiter or a shift. *)
Unserved(row) == row.origin = "guest" => row.waiter = NoWaiter /\ row.shift = "none"

GuestRows == \A t \in ServedTabs : Unserved(served[t])

Looking == {"round", "bill", "end", "update"}

OpensAlone(c) ==
  serveCalls[c].does = "open" =>
    /\ serveCalls[c].row.status = "open" /\ serveCalls[c].row.origin = "staff"
    /\ \E t \in ServedTabs :
         /\ serveCalls[c].tabs = {t} /\ served[t].status = "none"
         /\ \A d \in ServeCalls \ {c} : t \notin serveCalls[d].tabs

HasLooked(c) ==
  serveCalls[c].does \in Looking =>
    /\ serveCalls[c].row.status # "none" /\ Unserved(serveCalls[c].row)
    /\ \E t \in ServedTabs : serveCalls[c].tabs = {t} /\ served[t].status # "none"

HasAsked(c) ==
  serveCalls[c].does \in {"round", "bill", "end"} =>
    /\ serveCalls[c].row.status \in {"open", "billed"}
    /\ serveCalls[c].row.status = "open" => Belongs(serveCalls[c].row, serveCalls[c].by)

HandsOverStaffs(c) ==
  serveCalls[c].does = "handoff" =>
    \A t \in serveCalls[c].tabs : served[t].status # "none" /\ served[t].origin # "guest"

CallsKnow ==
  \A c \in ServeCalls :
    /\ OpensAlone(c) /\ HasLooked(c) /\ HasAsked(c) /\ HandsOverStaffs(c)
    /\ serveCalls[c].does \in {"open"} \cup Looking => serveCalls[c].tabs \subseteq ServedTabs
    /\ serveCalls[c].does = "update" =>
         \A t \in serveCalls[c].tabs : serveCalls[c].row.origin = served[t].origin

ServeInv == ServeTypeOK /\ GuestRows /\ CallsKnow /\ OnlyItsWaiter /\ EndedKeepsWaiter

---------------------------------------------------------------------------
(* The first state has no tab and no handler. *)
LEMMA ServeInitInv == ServeInit => ServeInv
<1> SUFFICES ASSUME ServeInit PROVE ServeInv
  OBVIOUS
<1> USE ServeAssumption
<1>1. ServeTypeOK
  BY DEF ServeInit, ServeTypeOK, ServedRow, NoServedRow, IdleServing, Staff, Supervision
<1>2. GuestRows
  BY DEF ServeInit, GuestRows, Unserved, NoServedRow
<1>3. CallsKnow
  BY DEF ServeInit, CallsKnow, OpensAlone, HasLooked, HasAsked, HandsOverStaffs, IdleServing, Looking
<1>4. OnlyItsWaiter /\ EndedKeepsWaiter
  BY DEF ServeInit, OnlyItsWaiter, EndedKeepsWaiter, NoServedRow
<1> QED
  BY <1>1, <1>2, <1>3, <1>4 DEF ServeInv

(* A step that writes no tab keeps what it says of tabs; its calls are the caller's business. *)
LEMMA SameTabs ==
  ASSUME ServeInv, UNCHANGED <<served, overtaken, credited, intruded>>
  PROVE GuestRows' /\ OnlyItsWaiter' /\ EndedKeepsWaiter'
  BY DEF ServeInv, GuestRows, OnlyItsWaiter, EndedKeepsWaiter, Unserved

(* A handler that begins with what its action asked for keeps the invariant. *)
LEMMA Begins ==
  ASSUME ServeInv, NEW c \in ServeCalls, NEW call, BeginServing(c, call),
         call \in [does: {"open", "round", "bill", "end", "update", "handoff"},
                   by: Staff \cup {NoWaiter}, tabs: SUBSET ServedTabs, row: ServedRow],
         call.does = "open" =>
           /\ call.row.status = "open" /\ call.row.origin = "staff"
           /\ \E t \in ServedTabs : call.tabs = {t} /\ Unopened(t),
         call.does \in Looking =>
           \E t \in ServedTabs : call.tabs = {t} /\ served[t].status # "none" /\ call.row = served[t],
         call.does \in {"round", "bill", "end"} =>
           /\ call.row.status \in {"open", "billed"}
           /\ call.row.status = "open" => Belongs(call.row, call.by),
         call.does = "handoff" =>
           \A t \in call.tabs : served[t].status # "none" /\ served[t].origin # "guest",
         call.does # "open" => \A t \in call.tabs : served[t].status # "none"
  PROVE ServeInv'
<1> DEFINE Mine(d) == serveCalls'[d]
<1>1. /\ serveCalls' = [serveCalls EXCEPT ![c] = call] /\ serveBegun' = serveBegun + 1
      /\ serveBegun < MaxServeCalls /\ serveCalls[c] = IdleServing
      /\ UNCHANGED <<served, overtaken, credited, intruded>>
  BY DEF BeginServing, Underway
<1>2. ServeTypeOK'
  BY <1>1, ServeAssumption DEF ServeInv, ServeTypeOK
<1>3. GuestRows' /\ OnlyItsWaiter' /\ EndedKeepsWaiter'
  BY <1>1, SameTabs
<1>4. ASSUME NEW d \in ServeCalls PROVE OpensAlone(d)'
  <2>1. CASE d = c
    <3>1. serveCalls'[d] = call
      BY <1>1, <2>1 DEF ServeInv, ServeTypeOK
    <3>2. \A e \in ServeCalls \ {c} : serveCalls'[e] = serveCalls[e]
      BY <1>1 DEF ServeInv, ServeTypeOK
    <3> QED
      BY <1>1, <2>1, <3>1, <3>2 DEF OpensAlone, Unopened
  <2>2. CASE d # c
    <3>1. serveCalls'[d] = serveCalls[d] /\ serveCalls'[c] = call
      BY <1>1, <2>2 DEF ServeInv, ServeTypeOK
    <3>2. \A e \in ServeCalls \ {c} : serveCalls'[e] = serveCalls[e]
      BY <1>1 DEF ServeInv, ServeTypeOK
    <3>3. OpensAlone(d)
      BY DEF ServeInv, CallsKnow
    <3>4. ASSUME NEW t \in ServedTabs, serveCalls[d].tabs = {t}, served[t].status = "none" PROVE t \notin call.tabs
      BY <3>4 DEF Unopened
    <3> QED
      BY <1>1, <3>1, <3>2, <3>3, <3>4 DEF OpensAlone
  <2> QED
    BY <2>1, <2>2
<1>5. ASSUME NEW d \in ServeCalls
      PROVE /\ HasLooked(d)' /\ HasAsked(d)' /\ HandsOverStaffs(d)'
            /\ serveCalls'[d].does \in {"open"} \cup Looking => serveCalls'[d].tabs \subseteq ServedTabs
            /\ serveCalls'[d].does = "update" =>
                 \A t \in serveCalls'[d].tabs : serveCalls'[d].row.origin = served'[t].origin
  <2>1. CASE d = c
    <3>1. serveCalls'[d] = call
      BY <1>1, <2>1 DEF ServeInv, ServeTypeOK
    <3> QED
      BY <1>1, <3>1 DEF HasLooked, HasAsked, HandsOverStaffs, Belongs, Looking, ServeInv, GuestRows, Unserved
  <2>2. CASE d # c
    <3>1. serveCalls'[d] = serveCalls[d]
      BY <1>1, <2>2 DEF ServeInv, ServeTypeOK
    <3> QED
      BY <1>1, <3>1 DEF HasLooked, HasAsked, HandsOverStaffs, Belongs, Looking, ServeInv, CallsKnow, Unserved
  <2> QED
    BY <2>1, <2>2
<1> QED
  BY <1>2, <1>3, <1>4, <1>5 DEF ServeInv, CallsKnow

(* The last statement of a handler keeps the invariant if it writes its own tabs only, creates or deletes *)
(* none that is there, gives no guest's tab away, and owns up to what it overtook.                        *)
LEMMA Writes ==
  ASSUME ServeInv, NEW c \in ServeCalls, NEW rows \in [ServedTabs -> ServedRow], NEW old \in SUBSET ServedTabs,
         Write(c, rows, old),
         \A t \in ServedTabs : rows[t] # served[t] => t \in serveCalls[c].tabs,
         \A t \in ServedTabs : served[t].status # "none" =>
           rows[t].status # "none" /\ rows[t].origin = served[t].origin,
         \A t \in ServedTabs : Unserved(rows[t]),
         \A t \in ServedTabs : rows[t].status = "ended" /\ served[t].status = "ended" =>
           rows[t].waiter = served[t].waiter \/ t \in old,
         intruded' \subseteq intruded \cup old
  PROVE ServeInv'
<1>1. /\ served' = rows /\ serveCalls' = [serveCalls EXCEPT ![c] = IdleServing]
      /\ overtaken' = overtaken \cup old /\ serveBegun' = serveBegun
      /\ credited' = [t \in ServedTabs |->
           IF rows[t].status = "ended" /\ served[t].status # "ended" THEN rows[t].waiter ELSE credited[t]]
  BY DEF Write
<1>2. IdleServing \in [does: {"nothing"}, by: Staff \cup {NoWaiter}, tabs: SUBSET ServedTabs, row: ServedRow]
  BY DEF IdleServing, NoServedRow, ServedRow, Staff, Supervision
<1>3. ServeTypeOK'
  <2>1. served' \in [ServedTabs -> ServedRow] /\ serveBegun' \in 0 .. MaxServeCalls
    BY <1>1 DEF ServeInv, ServeTypeOK
  <2>2. serveCalls' \in [ServeCalls -> [does: {"nothing", "open", "round", "bill", "end", "update", "handoff"},
                                        by: Staff \cup {NoWaiter}, tabs: SUBSET ServedTabs, row: ServedRow]]
    BY <1>1, <1>2 DEF ServeInv, ServeTypeOK
  <2>3. \A t \in ServedTabs : rows[t].waiter \in Crew \cup {NoWaiter, Supervision}
    BY DEF ServedRow
  <2>4. overtaken' \cup intruded' \subseteq ServedTabs
        /\ credited' \in [ServedTabs -> Crew \cup {NoWaiter, Supervision}]
    BY <1>1, <2>3 DEF ServeInv, ServeTypeOK
  <2> QED
    BY <2>1, <2>2, <2>4 DEF ServeTypeOK
<1>4. GuestRows' /\ OnlyItsWaiter'
  BY <1>1 DEF ServeInv, GuestRows, OnlyItsWaiter, Unserved
<1>5. EndedKeepsWaiter'
  BY <1>1 DEF ServeInv, EndedKeepsWaiter
<1>6. serveCalls'[c] = IdleServing /\ \A d \in ServeCalls \ {c} : serveCalls'[d] = serveCalls[d]
  BY <1>1 DEF ServeInv, ServeTypeOK
<1>7. ASSUME NEW d \in ServeCalls PROVE OpensAlone(d)'
  <2>1. CASE d = c
    BY <1>6, <2>1 DEF OpensAlone, IdleServing
  <2>2. CASE d # c
    <3>1. OpensAlone(d)
      BY DEF ServeInv, CallsKnow
    <3>2. ASSUME NEW t \in ServedTabs, t \notin serveCalls[c].tabs PROVE served'[t] = served[t]
      BY <1>1, <3>2
    <3>3. ASSUME NEW e \in ServeCalls, NEW t, t \notin serveCalls[e].tabs PROVE t \notin serveCalls'[e].tabs
      BY <1>6, <3>3 DEF IdleServing
    <3> QED
      BY <1>6, <2>2, <3>1, <3>2, <3>3 DEF OpensAlone
  <2> QED
    BY <2>1, <2>2
<1>8. ASSUME NEW d \in ServeCalls
      PROVE /\ HasLooked(d)' /\ HasAsked(d)' /\ HandsOverStaffs(d)'
            /\ serveCalls'[d].does \in {"open"} \cup Looking => serveCalls'[d].tabs \subseteq ServedTabs
            /\ serveCalls'[d].does = "update" =>
                 \A t \in serveCalls'[d].tabs : serveCalls'[d].row.origin = served'[t].origin
  <2>1. CASE d = c
    BY <1>6, <2>1 DEF HasLooked, HasAsked, HandsOverStaffs, Looking, IdleServing
  <2>2. CASE d # c
    <3>1. serveCalls'[d] = serveCalls[d] /\ serveCalls[d].tabs \subseteq ServedTabs
      BY <1>6, <2>2 DEF ServeInv, ServeTypeOK
    <3>2. \A t \in ServedTabs : served[t].status # "none" =>
            served'[t].status # "none" /\ served'[t].origin = served[t].origin
      BY <1>1
    <3>3. HasLooked(d)' /\ HasAsked(d)' /\ HandsOverStaffs(d)'
      BY <3>1, <3>2 DEF HasLooked, HasAsked, HandsOverStaffs, Belongs, Looking, Unserved, ServeInv, CallsKnow
    <3>4. serveCalls[d].does = "update" =>
            \E t \in ServedTabs : serveCalls[d].tabs = {t} /\ served[t].status # "none"
      BY DEF ServeInv, CallsKnow, HasLooked, Looking
    <3> QED
      BY <3>1, <3>2, <3>3, <3>4 DEF ServeInv, CallsKnow
  <2> QED
    BY <2>1, <2>2
<1> QED
  BY <1>3, <1>4, <1>5, <1>7, <1>8 DEF ServeInv, CallsKnow

---------------------------------------------------------------------------
(* Every handler that begins has asked for what Begins needs. *)
LEMMA StepBegins ==
  ASSUME ServeInv, NEW c \in ServeCalls,
         BeginStaffTab(c) \/ BeginServe(c) \/ BeginEditTab(c) \/ BeginHandoff(c)
  PROVE ServeInv'
<1> USE DEF Looking
<1>1. CASE BeginStaffTab(c)
  <2>1. PICK t \in ServedTabs, w \in Staff :
          /\ Unopened(t)
          /\ BeginServing(c, [does |-> "open", by |-> w, tabs |-> {t},
                              row |-> [status |-> "open", waiter |-> w, shift |-> "open", origin |-> "staff"]])
    BY <1>1 DEF BeginStaffTab
  <2>2. [status |-> "open", waiter |-> w, shift |-> "open", origin |-> "staff"] \in ServedRow
    BY DEF ServedRow, Staff
  <2> QED
    BY <2>1, <2>2, Begins
<1>2. CASE BeginServe(c)
  <2>1. PICK t \in ServedTabs, by \in Staff, does \in {"round", "bill", "end"} :
          /\ MayServe(does, served[t], by)
          /\ BeginServing(c, [does |-> does, by |-> by, tabs |-> {t}, row |-> served[t]])
    BY <1>2 DEF BeginServe
  <2>2. served[t] \in ServedRow
    BY DEF ServeInv, ServeTypeOK
  <2>3. /\ served[t].status \in {"open", "billed"}
        /\ served[t].status = "open" => Belongs(served[t], by)
    BY <2>1 DEF MayServe
  <2> QED
    BY <2>1, <2>2, <2>3, Begins
<1>3. CASE BeginEditTab(c)
  <2>1. PICK t \in ServedTabs :
          /\ served[t].status # "none"
          /\ BeginServing(c, [does |-> "update", by |-> Supervision, tabs |-> {t}, row |-> served[t]])
    BY <1>3 DEF BeginEditTab
  <2>2. served[t] \in ServedRow /\ Supervision \in Staff
    BY DEF ServeInv, ServeTypeOK, Staff
  <2> QED
    BY <2>1, <2>2, Begins
<1>4. CASE BeginHandoff(c)
  <2>1. PICK to \in Crew, from \in Crew \cup {NoWaiter} :
          BeginServing(c, [does |-> "handoff", by |-> to, tabs |-> ToHandOver(from), row |-> NoServedRow])
    BY <1>4 DEF BeginHandoff
  <2>2. \A t \in ToHandOver(from) : t \in ServedTabs /\ served[t].status # "none" /\ served[t].origin # "guest"
    BY DEF ToHandOver, ServeInv, GuestRows, Unserved
  <2>3. NoServedRow \in ServedRow /\ to \in Staff
    BY DEF NoServedRow, ServedRow, Staff
  <2> QED
    BY <2>1, <2>2, <2>3, Begins
<1> QED
  BY <1>1, <1>2, <1>3, <1>4

(* Every handler that ends writes what Writes asks for. *)
LEMMA StepWrites ==
  ASSUME ServeInv, NEW c \in ServeCalls,
         InsertStaffTab(c) \/ Serve(c) \/ SaveEditedTab(c) \/ HandOff(c)
  PROVE ServeInv'
<1> DEFINE me == serveCalls[c]
<1> USE DEF Looking
<1>0. me \in [does: {"nothing", "open", "round", "bill", "end", "update", "handoff"},
              by: Staff \cup {NoWaiter}, tabs: SUBSET ServedTabs, row: ServedRow]
      /\ served \in [ServedTabs -> ServedRow] /\ \A t \in ServedTabs : Unserved(served[t])
  BY DEF ServeInv, ServeTypeOK, GuestRows
<1>1. CASE InsertStaffTab(c)
  <2> DEFINE rows == [t \in ServedTabs |-> IF t \in me.tabs THEN me.row ELSE served[t]]
  <2>1. PICK t \in ServedTabs : me.tabs = {t} /\ served[t].status = "none"
    BY <1>1 DEF InsertStaffTab, ServeInv, CallsKnow, OpensAlone
  <2>2. me.row.status = "open" /\ me.row.origin = "staff"
    BY <1>1 DEF InsertStaffTab, ServeInv, CallsKnow, OpensAlone
  <2>3. Write(c, rows, {}) /\ intruded' = intruded
    BY <1>1 DEF InsertStaffTab
  <2>4. rows \in [ServedTabs -> ServedRow]
    BY <1>0
  <2>5. \A u \in ServedTabs : Unserved(rows[u])
    BY <1>0, <2>2 DEF Unserved
  <2> HIDE DEF me
  <2> QED
    BY <1>0, <2>1, <2>2, <2>3, <2>4, <2>5, Writes DEF me
<1>2. CASE Serve(c)
  <2>1. PICK t \in ServedTabs : me.tabs = {t} /\ served[t].status # "none"
    BY <1>2 DEF Serve, ServeInv, CallsKnow, HasLooked
  <2>2. (CHOOSE u \in me.tabs : TRUE) = t
    BY <2>1
  <2> DEFINE rows == [served EXCEPT ![t].status = After(me.does, me.row, @)]
             old == { u \in me.tabs : served[u] # me.row }
  <2>3. /\ me.does \in {"round", "bill", "end"}
        /\ Write(c, rows, old)
        /\ intruded' = IF Belongs(served[t], me.by) \/ me.row.status # "open" THEN intruded ELSE intruded \cup {t}
    BY <1>2, <2>2 DEF Serve
  <2>4. /\ me.row.status \in {"open", "billed"}
        /\ me.row.status = "open" => Belongs(me.row, me.by)
    BY <2>3 DEF ServeInv, CallsKnow, HasAsked
  <2>5. After(me.does, me.row, served[t].status) \in {"open", "billed", "ended", served[t].status}
    BY <2>3, <2>4 DEF After
  <2>6. \A u \in ServedTabs : /\ rows[u].waiter = served[u].waiter /\ rows[u].origin = served[u].origin
                              /\ rows[u].shift = served[u].shift
                              /\ u # t => rows[u] = served[u]
    BY <1>0 DEF ServedRow
  <2>7. rows[t].status # "none"
    BY <1>0, <2>1, <2>5 DEF ServedRow
  <2>8. rows \in [ServedTabs -> ServedRow]
    BY <1>0, <2>5 DEF ServedRow
  <2>9. intruded' \subseteq intruded \cup old
    BY <2>1, <2>3, <2>4
  <2>10. old \in SUBSET ServedTabs /\ \A u \in ServedTabs : Unserved(rows[u])
    BY <1>0, <2>1, <2>6 DEF Unserved
  <2>11. Write(c, rows, old) /\ serveCalls[c].tabs = {t}
    BY <2>1, <2>3
  <2> HIDE DEF me, rows, old
  <2> QED
    BY <2>6, <2>7, <2>8, <2>9, <2>10, <2>11, Writes
<1>3. CASE SaveEditedTab(c)
  <2> DEFINE rows == [t \in ServedTabs |-> IF t \in me.tabs THEN me.row ELSE served[t]]
             old == { t \in me.tabs : served[t] # me.row }
  <2>1. me.does = "update" /\ Write(c, rows, old) /\ intruded' = intruded
    BY <1>3 DEF SaveEditedTab
  <2>2. me.row.status # "none" /\ Unserved(me.row) /\ \A t \in me.tabs : me.row.origin = served[t].origin
    BY <2>1 DEF ServeInv, CallsKnow, HasLooked
  <2>3. rows \in [ServedTabs -> ServedRow] /\ old \in SUBSET ServedTabs
    BY <1>0
  <2>4. \A t \in ServedTabs : Unserved(rows[t])
    BY <1>0, <2>2
  <2>5. \A t \in ServedTabs : rows[t] # served[t] => t \in me.tabs /\ t \in old
    OBVIOUS
  <2>6. \A t \in ServedTabs : served[t].status # "none" =>
          rows[t].status # "none" /\ rows[t].origin = served[t].origin
    BY <2>2
  <2> HIDE DEF rows, old
  <2> QED
    BY <2>1, <2>3, <2>4, <2>5, <2>6, Writes
<1>4. CASE HandOff(c)
  <2> DEFINE rows == [t \in ServedTabs |-> IF t \in me.tabs THEN [served[t] EXCEPT !.waiter = me.by] ELSE served[t]]
             old == { t \in me.tabs : served[t].status # "open" }
  <2>1. me.does = "handoff" /\ Write(c, rows, old) /\ intruded' = intruded
    BY <1>4 DEF HandOff
  <2>2. \A t \in me.tabs : served[t].status # "none" /\ served[t].origin # "guest"
    BY <2>1 DEF ServeInv, CallsKnow, HandsOverStaffs
  <2>3. \A t \in ServedTabs : /\ rows[t] \in ServedRow
                              /\ rows[t].status = served[t].status /\ rows[t].origin = served[t].origin
                              /\ t \notin me.tabs => rows[t] = served[t]
    BY <1>0 DEF ServedRow, Staff
  <2>4. rows \in [ServedTabs -> ServedRow] /\ old \in SUBSET ServedTabs
    BY <1>0, <2>3
  <2>5. \A t \in ServedTabs : Unserved(rows[t])
    BY <1>0, <2>2, <2>3 DEF Unserved
  <2>6. \A t \in ServedTabs : rows[t].status = "ended" => rows[t] = served[t] \/ t \in old
    BY <2>3
  <2> HIDE DEF rows, old
  <2> QED
    BY <2>1, <2>3, <2>4, <2>5, <2>6, Writes
<1> QED
  BY <1>1, <1>2, <1>3, <1>4

(* A handler that is dropped leaves the tabs as they are. *)
LEMMA StepDrops ==
  ASSUME ServeInv, NEW c \in ServeCalls, DropServing(c)
  PROVE ServeInv'
<1>1. Write(c, served, {}) /\ intruded' = intruded
  <2>1. credited = [t \in ServedTabs |->
          IF served[t].status = "ended" /\ served[t].status # "ended" THEN served[t].waiter ELSE credited[t]]
    BY DEF ServeInv, ServeTypeOK
  <2> QED
    BY <2>1 DEF DropServing, Write
<1>2. served \in [ServedTabs -> ServedRow] /\ \A t \in ServedTabs : Unserved(served[t])
  BY DEF ServeInv, ServeTypeOK, GuestRows
<1> QED
  BY <1>1, <1>2, Writes

(* Shifts end and begin: rows, and the copies of rows, age alike. *)
LEMMA StepNextShift ==
  ASSUME ServeInv, NextShift
  PROVE ServeInv'
<1> DEFINE older(row) == IF row.shift = "open" THEN [row EXCEPT !.shift = "earlier"] ELSE row
<1>1. /\ served' = [t \in ServedTabs |-> older(served[t])]
      /\ serveCalls' = [c \in ServeCalls |-> [serveCalls[c] EXCEPT !.row = older(@)]]
      /\ UNCHANGED <<serveBegun, overtaken, credited, intruded>>
  BY DEF NextShift
<1>2. ASSUME NEW row \in ServedRow
      PROVE /\ older(row) \in ServedRow /\ older(row).status = row.status /\ older(row).waiter = row.waiter
            /\ older(row).origin = row.origin /\ (row.shift = "none" => older(row) = row)
  BY DEF ServedRow
<1>3. ASSUME NEW t \in ServedTabs
      PROVE /\ served'[t] \in ServedRow /\ served'[t].status = served[t].status
            /\ served'[t].waiter = served[t].waiter /\ served'[t].origin = served[t].origin
            /\ served[t].shift = "none" => served'[t].shift = "none"
  <2>1. served[t] \in ServedRow /\ served'[t] = older(served[t])
    BY <1>1 DEF ServeInv, ServeTypeOK
  <2> HIDE DEF older
  <2> QED
    BY <1>2, <2>1
<1>4. ASSUME NEW c \in ServeCalls
      PROVE /\ serveCalls'[c].does = serveCalls[c].does /\ serveCalls'[c].by = serveCalls[c].by
            /\ serveCalls'[c].tabs = serveCalls[c].tabs
            /\ serveCalls'[c].row \in ServedRow /\ serveCalls'[c].row.status = serveCalls[c].row.status
            /\ serveCalls'[c].row.waiter = serveCalls[c].row.waiter
            /\ serveCalls'[c].row.origin = serveCalls[c].row.origin
            /\ serveCalls[c].row.shift = "none" => serveCalls'[c].row.shift = "none"
            /\ serveCalls'[c] \in [does: {"nothing", "open", "round", "bill", "end", "update", "handoff"},
                                    by: Staff \cup {NoWaiter}, tabs: SUBSET ServedTabs, row: ServedRow]
  <2>1. serveCalls[c] \in [does: {"nothing", "open", "round", "bill", "end", "update", "handoff"},
                           by: Staff \cup {NoWaiter}, tabs: SUBSET ServedTabs, row: ServedRow]
        /\ serveCalls[c].row \in ServedRow
    BY DEF ServeInv, ServeTypeOK
  <2>2. serveCalls'[c] = [serveCalls[c] EXCEPT !.row = older(serveCalls[c].row)]
    BY <1>1
  <2> HIDE DEF older
  <2> QED
    BY <1>2, <2>1, <2>2
<1> HIDE DEF older
<1>5. ServeTypeOK'
  <2>1. served' \in [ServedTabs -> ServedRow]
    BY <1>1, <1>3
  <2>2. serveCalls' \in [ServeCalls -> [does: {"nothing", "open", "round", "bill", "end", "update", "handoff"},
                                        by: Staff \cup {NoWaiter}, tabs: SUBSET ServedTabs, row: ServedRow]]
    BY <1>1, <1>4
  <2> QED
    BY <1>1, <2>1, <2>2 DEF ServeInv, ServeTypeOK
<1>6. GuestRows' /\ OnlyItsWaiter' /\ EndedKeepsWaiter'
  BY <1>1, <1>3 DEF ServeInv, GuestRows, Unserved, OnlyItsWaiter, EndedKeepsWaiter
<1>7. CallsKnow'
  <2>1. ASSUME NEW c \in ServeCalls PROVE OpensAlone(c)'
    BY <1>3, <1>4 DEF ServeInv, CallsKnow, OpensAlone
  <2>2. ASSUME NEW c \in ServeCalls PROVE HasLooked(c)' /\ HasAsked(c)'
    BY <1>3, <1>4 DEF ServeInv, CallsKnow, HasLooked, HasAsked, Looking, Unserved, Belongs
  <2>3. ASSUME NEW c \in ServeCalls
        PROVE /\ HandsOverStaffs(c)'
              /\ serveCalls'[c].does = "update" =>
                   \A t \in serveCalls'[c].tabs : serveCalls'[c].row.origin = served'[t].origin
    <3>1. serveCalls[c].tabs \subseteq ServedTabs
      BY DEF ServeInv, ServeTypeOK
    <3> QED
      BY <1>3, <1>4, <3>1 DEF ServeInv, CallsKnow, HandsOverStaffs
  <2> QED
    BY <1>4, <2>1, <2>2, <2>3 DEF ServeInv, CallsKnow
<1> QED
  BY <1>5, <1>6, <1>7 DEF ServeInv

(* A tab that a guest or a booking opens is nobody's: no handler had it. *)
LEMMA StepOpenUnserved ==
  ASSUME ServeInv, OpenUnserved
  PROVE ServeInv'
<1>1. PICK t \in ServedTabs, origin \in {"guest", "booking"} :
        /\ Unopened(t)
        /\ served' = [served EXCEPT ![t] = [status |-> "open", waiter |-> NoWaiter, origin |-> origin,
                                            shift |-> IF origin = "guest" THEN "none" ELSE "open"]]
        /\ UNCHANGED <<serveCalls, serveBegun, overtaken, credited, intruded>>
  BY DEF OpenUnserved
<1> DEFINE row == [status |-> "open", waiter |-> NoWaiter, origin |-> origin,
                   shift |-> IF origin = "guest" THEN "none" ELSE "open"]
<1>2. row \in ServedRow /\ Unserved(row) /\ row.status = "open"
  BY DEF ServedRow, Unserved
<1> HIDE DEF row
<1>3. served \in [ServedTabs -> ServedRow] /\ served' = [served EXCEPT ![t] = row]
  BY <1>1 DEF ServeInv, ServeTypeOK, row
<1>4. served'[t] = row /\ \A u \in ServedTabs \ {t} : served'[u] = served[u]
  BY <1>3
<1>5. ServeTypeOK'
  BY <1>1, <1>2, <1>3 DEF ServeInv, ServeTypeOK
<1>6. GuestRows' /\ OnlyItsWaiter' /\ EndedKeepsWaiter'
  BY <1>1, <1>2, <1>4 DEF ServeInv, GuestRows, OnlyItsWaiter, EndedKeepsWaiter, Unserved
<1>7. \A c \in ServeCalls : t \notin serveCalls[c].tabs /\ serveCalls[c].tabs \subseteq ServedTabs
  BY <1>1 DEF Unopened, ServeInv, ServeTypeOK
<1>8. \A c \in ServeCalls : \A u \in serveCalls[c].tabs : served'[u] = served[u]
  BY <1>4, <1>7
<1>9. ASSUME NEW c \in ServeCalls
      PROVE OpensAlone(c)' /\ HasLooked(c)' /\ HasAsked(c)' /\ HandsOverStaffs(c)'
  BY <1>1, <1>8 DEF ServeInv, CallsKnow, OpensAlone, HasLooked, HasAsked, HandsOverStaffs, Unserved, Belongs, Looking
<1> QED
  BY <1>1, <1>5, <1>6, <1>8, <1>9 DEF ServeInv, CallsKnow

---------------------------------------------------------------------------
(* The inductive invariant holds in every reachable state. *)
THEOREM ServeInvariant == ServeSpec => []ServeInv
<1>1. ServeInv /\ [ServeNext]_serveVars => ServeInv'
  <2> SUFFICES ASSUME ServeInv, [ServeNext]_serveVars PROVE ServeInv'
    OBVIOUS
  <2>1. ASSUME NEW c \in ServeCalls,
               \/ BeginStaffTab(c) \/ BeginServe(c) \/ BeginEditTab(c) \/ BeginHandoff(c)
        PROVE ServeInv'
    BY <2>1, StepBegins
  <2>2. ASSUME NEW c \in ServeCalls, InsertStaffTab(c) \/ Serve(c) \/ SaveEditedTab(c) \/ HandOff(c)
        PROVE ServeInv'
    BY <2>2, StepWrites
  <2>3. ASSUME NEW c \in ServeCalls, DropServing(c) PROVE ServeInv'
    BY <2>3, StepDrops
  <2>4. CASE OpenUnserved
    BY <2>4, StepOpenUnserved
  <2>5. CASE NextShift
    BY <2>5, StepNextShift
  <2>6. CASE UNCHANGED serveVars
    BY <2>6 DEF serveVars, ServeInv, ServeTypeOK, GuestRows, OnlyItsWaiter, EndedKeepsWaiter, CallsKnow,
                OpensAlone, HasLooked, HasAsked, HandsOverStaffs, Unserved, Belongs
  <2> QED
    BY <2>1, <2>2, <2>3, <2>4, <2>5, <2>6 DEF ServeNext
<1> QED
  BY <1>1, ServeInitInv, PTL DEF ServeSpec

(* Tabs, calls and histories keep their types. *)
THEOREM ServeTypeCorrect == ServeSpec => []ServeTypeOK
<1>1. ServeInv => ServeTypeOK
  BY DEF ServeInv
<1> QED
  BY <1>1, ServeInvariant, PTL

(* Guests may order on the tabs they opened, a waiter works on an open tab of another one only if the tab *)
(* was written after he was asked, and an ended tab keeps its waiter but for a hand-over or an edit that   *)
(* had looked before.                                                                                     *)
THEOREM TabsStayServedAlways == ServeSpec => []TabsStayServed
<1>1. ServeInv => TabsStayServed
  BY DEF ServeInv, TabsStayServed, GuestRows, Unserved, GuestsAreNotLockedOut, GuestMayOrder
<1> QED
  BY <1>1, ServeInvariant, PTL

---------------------------------------------------------------------------
(***************************************************************************)
(* Floor.  A handler that no statement of somebody else came between still  *)
(* knows its tab and its table; and the tab a handler is about to insert is *)
(* nobody else's.  That is enough for every statement to leave the tables   *)
(* it changes as the floor plan says, or to mark them.                      *)
(***************************************************************************)

LiveStatus == {"open", "billed"}
Inserting == {"insert", "guestInsert"}
OnATab == Inserting \cup {"guestOccupy", "close", "transfer", "merge", "void", "save", "remove", "insertBill",
                          "markBilled", "reopen", "settle"}

(* What a handler knows of its tab and table. *)
FloorCallSound(q, statuses, tabs) ==
  /\ q.pc \in OnATab => q.tab \in FloorTabs
  /\ ~q.stale =>
       /\ q.pc \in {"close", "merge", "void", "settle"} => tabs[q.tab].table = q.table
       /\ q.pc = "save" => tabs[q.tab].status = q.row.status /\ tabs[q.tab].table = q.row.table
       /\ q.pc \in {"insertBill", "markBilled"} => tabs[q.tab].status \in LiveStatus
       /\ q.pc = "reopen" => tabs[q.tab].status = "billed"
       /\ q.pc = "transfer" => tabs[q.tab].status = "open" /\ tabs[q.tab].table = q.row.table
       /\ q.pc = "guestOccupy" => tabs[q.tab].status \in LiveStatus /\ tabs[q.tab].table = q.table
       /\ q.pc = "saveTable" => statuses[q.table] = q.seen
       /\ q.pc = "release" => q.tab = NoTab \/ tabs[q.tab].table = q.table

(* A tab about to be inserted has no row, and no other handler has its id. *)
InsertsAlone ==
  \A c \in FloorCalls : floorCalls[c].pc \in Inserting =>
    /\ floorTabs[floorCalls[c].tab].status = "none"
    /\ \A d \in FloorCalls : floorCalls[d].tab = floorCalls[c].tab => d = c

(* The floor plan at one table. *)
PlanAt(t, statuses, tabs, taken) ==
  /\ \A i, j \in SittingIn(tabs, t) : i = j
  /\ SittingIn(tabs, t) # {} => statuses[t] = "occupied" \/ taken
  /\ statuses[t] = "occupied" => SittingIn(tabs, t) # {}

FloorInv ==
  /\ FloorTypeOK
  /\ \A c \in FloorCalls : FloorCallSound(floorCalls[c], tableStatus, floorTabs)
  /\ InsertsAlone
  /\ \A t \in FloorTables \ muddled : PlanAt(t, tableStatus, floorTabs, BeingTaken(t))

---------------------------------------------------------------------------
LEMMA IdleFloorCallTyped ==
  /\ AnyTable \in FloorTables /\ NoTabRow \in FloorTabRow /\ NoTabRow.status = "none"
  /\ IdleFloorCall \in FloorCall /\ IdleFloorCall.pc = "idle" /\ IdleFloorCall.tab = NoTab
  /\ IdleFloorCall.stale = FALSE
<1>1. FALSE \in BOOLEAN
  OBVIOUS
<1>2. AnyTable \in FloorTables
  BY FloorAssumption DEF AnyTable
<1>3. NoTabRow \in FloorTabRow /\ NoTabRow.status = "none"
  BY <1>2 DEF NoTabRow, FloorTabRow, FloorTabStatus
<1>4. /\ IdleFloorCall \in FloorCall /\ IdleFloorCall.pc = "idle" /\ IdleFloorCall.tab = NoTab
      /\ IdleFloorCall.stale = FALSE
  BY <1>1, <1>2, <1>3 DEF IdleFloorCall, FloorCall, TableStatus
<1> QED
  BY <1>2, <1>3, <1>4

LEMMA IdleIsSound == \A statuses, tabs : FloorCallSound(IdleFloorCall, statuses, tabs)
  BY IdleFloorCallTyped DEF FloorCallSound, OnATab, Inserting

LEMMA FloorInitial == FloorInit => FloorInv
<1> SUFFICES ASSUME FloorInit PROVE FloorInv
  OBVIOUS
<1>1. /\ tableStatus = [t \in FloorTables |-> "available"] /\ floorTabs = [i \in FloorTabs |-> NoTabRow]
      /\ floorCalls = [c \in FloorCalls |-> IdleFloorCall] /\ floorBegun = 0 /\ muddled = {}
  BY DEF FloorInit
<1>2. FloorTypeOK
  <2>1. tableStatus \in [FloorTables -> TableStatus]
    BY <1>1 DEF TableStatus
  <2>2. floorTabs \in [FloorTabs -> FloorTabRow] /\ floorCalls \in [FloorCalls -> FloorCall]
    BY <1>1, IdleFloorCallTyped
  <2>3. floorBegun \in 0 .. MaxFloorCalls
    BY <1>1, FloorAssumption
  <2> QED
    BY <1>1, <2>1, <2>2, <2>3 DEF FloorTypeOK
<1>3. \A c \in FloorCalls : floorCalls[c] = IdleFloorCall /\ floorCalls[c].pc = "idle"
  BY <1>1, IdleFloorCallTyped
<1>4. \A c \in FloorCalls : FloorCallSound(floorCalls[c], tableStatus, floorTabs)
  BY <1>3, IdleIsSound
<1>5. InsertsAlone
  BY <1>3 DEF InsertsAlone, Inserting
<1>6. \A t \in FloorTables : SittingIn(floorTabs, t) = {} /\ tableStatus[t] = "available"
  BY <1>1, IdleFloorCallTyped DEF SittingIn
<1>7. \A t \in FloorTables : PlanAt(t, tableStatus, floorTabs, BeingTaken(t))
  BY <1>6 DEF PlanAt
<1> QED
  BY <1>2, <1>4, <1>5, <1>7 DEF FloorInv

---------------------------------------------------------------------------
(* A handler begins: it reads, and nothing else changes. *)
LEMMA HandlerBegins ==
  ASSUME FloorInv, NEW c \in FloorCalls, NEW call \in FloorCall, BeginFloor(c, call),
         FloorCallSound(call, tableStatus, floorTabs), call.pc # "guestOccupy",
         call.pc \in Inserting => Unused(call.tab),
         call.pc \notin Inserting => call.tab = NoTab \/ floorTabs[call.tab].status # "none"
  PROVE  FloorInv'
<1>1. /\ floorCalls[c] = IdleFloorCall /\ floorBegun' \in 0 .. MaxFloorCalls
      /\ floorCalls' = [floorCalls EXCEPT ![c] = call]
      /\ UNCHANGED <<tableStatus, floorTabs, muddled>>
  BY FloorAssumption DEF BeginFloor, FloorInv, FloorTypeOK
<1>2. /\ floorCalls' \in [FloorCalls -> FloorCall] /\ floorCalls'[c] = call
      /\ \A d \in FloorCalls \ {c} : floorCalls'[d] = floorCalls[d]
  BY <1>1 DEF FloorInv, FloorTypeOK
<1>3. FloorTypeOK'
  BY <1>1, <1>2 DEF FloorInv, FloorTypeOK
<1>4. \A d \in FloorCalls : FloorCallSound(floorCalls'[d], tableStatus, floorTabs)
  BY <1>2 DEF FloorInv
<1>5. InsertsAlone'
  <2> SUFFICES ASSUME NEW d \in FloorCalls, floorCalls'[d].pc \in Inserting
               PROVE  /\ floorTabs[floorCalls'[d].tab].status = "none"
                      /\ \A e \in FloorCalls : floorCalls'[e].tab = floorCalls'[d].tab => e = d
    BY <1>1 DEF InsertsAlone
  <2>1. CASE d = c
    BY <1>2, <2>1 DEF Unused
  <2>2. CASE d # c
    <3>1. floorCalls[d].tab \in FloorTabs /\ floorCalls[d].pc \in Inserting
      BY <1>2, <2>2 DEF FloorInv, FloorCallSound, OnATab
    <3>2. /\ floorTabs[floorCalls[d].tab].status = "none"
          /\ \A e \in FloorCalls : floorCalls[e].tab = floorCalls[d].tab => e = d
      BY <3>1 DEF FloorInv, InsertsAlone
    <3>3. call.tab # floorCalls[d].tab
      BY <3>1, <3>2, FloorAssumption DEF Unused
    <3> QED
      BY <1>2, <2>2, <3>2, <3>3
  <2> QED
    BY <2>1, <2>2
<1>6. \A t \in FloorTables : BeingTaken(t)' <=> BeingTaken(t)
  BY <1>1, <1>2, IdleFloorCallTyped DEF BeingTaken
<1>7. \A t \in FloorTables \ muddled : PlanAt(t, tableStatus, floorTabs, BeingTaken(t)')
  BY <1>6 DEF FloorInv, PlanAt
<1> QED
  BY <1>1, <1>3, <1>4, <1>5, <1>7 DEF FloorInv

(* The calls that begin have their types. *)
LEMMA OnTabCall ==
  ASSUME FloorInv, NEW c \in FloorCalls, NEW i \in FloorTabs,
         NEW pc \in {"close", "merge", "void", "save", "remove", "insertBill", "reopen", "settle"}, BeginOnTab(c, i, pc),
         pc = "insertBill" => Live(i), pc = "reopen" => floorTabs[i].status = "billed"
  PROVE  FloorInv'
<1>1. PICK row \in FloorTabRow : row = floorTabs[i]
  BY DEF FloorInv, FloorTypeOK
<1>2. PICK call : call = [IdleFloorCall EXCEPT !.pc = pc, !.tab = i, !.row = row, !.table = row.table]
  OBVIOUS
<1>3. /\ call \in FloorCall /\ call.pc = pc /\ call.tab = i /\ call.row = row /\ call.table = row.table
      /\ call.stale = FALSE
  BY <1>2, IdleFloorCallTyped DEF FloorCall, FloorTabRow
<1>4. FloorCallSound(call, tableStatus, floorTabs)
  BY <1>1, <1>3 DEF FloorCallSound, Live, LiveStatus
<1>5. BeginFloor(c, call) /\ floorTabs[call.tab].status # "none"
  BY <1>1, <1>2, <1>3 DEF BeginOnTab
<1> QED
  BY <1>3, <1>4, <1>5, HandlerBegins DEF Inserting

LEMMA OpeningBegins ==
  ASSUME FloorInv, NEW c \in FloorCalls, BeginOpenTab(c) \/ BeginGuestTab(c)
  PROVE  FloorInv'
<1>1. PICK i \in FloorTabs, t \in FloorTables, pc \in Inserting :
        Unused(i) /\ BeginFloor(c, [IdleFloorCall EXCEPT !.pc = pc, !.tab = i, !.table = t])
  BY DEF BeginOpenTab, BeginGuestTab, Inserting
<1>2. PICK call : call = [IdleFloorCall EXCEPT !.pc = pc, !.tab = i, !.table = t]
  OBVIOUS
<1>3. call \in FloorCall /\ call.pc = pc /\ call.tab = i /\ pc \in {"insert", "guestInsert"}
  BY <1>2, IdleFloorCallTyped DEF FloorCall, Inserting
<1>4. FloorCallSound(call, tableStatus, floorTabs)
  BY <1>3 DEF FloorCallSound
<1> QED
  BY <1>1, <1>2, <1>3, <1>4, HandlerBegins

LEMMA MoveBegins == ASSUME FloorInv, NEW c \in FloorCalls, BeginTransfer(c) PROVE FloorInv'
<1>1. PICK i \in FloorTabs, t \in FloorTables :
        /\ floorTabs[i].status = "open"
        /\ BeginFloor(c, [IdleFloorCall EXCEPT !.pc = "transfer", !.tab = i, !.row = floorTabs[i], !.table = t])
  BY DEF BeginTransfer
<1>2. PICK row \in FloorTabRow : row = floorTabs[i]
  BY DEF FloorInv, FloorTypeOK
<1>3. PICK call : call = [IdleFloorCall EXCEPT !.pc = "transfer", !.tab = i, !.row = row, !.table = t]
  OBVIOUS
<1>4. call \in FloorCall /\ call.pc = "transfer" /\ call.tab = i /\ call.row = row
  BY <1>3, IdleFloorCallTyped DEF FloorCall
<1>5. FloorCallSound(call, tableStatus, floorTabs)
  BY <1>1, <1>2, <1>4 DEF FloorCallSound
<1> QED
  BY <1>1, <1>2, <1>3, <1>4, <1>5, HandlerBegins DEF Inserting

LEMMA TableEditBegins == ASSUME FloorInv, NEW c \in FloorCalls, BeginUpdateTable(c) PROVE FloorInv'
<1>1. PICK t \in FloorTables :
        BeginFloor(c, [IdleFloorCall EXCEPT !.pc = "saveTable", !.table = t, !.seen = tableStatus[t]])
  BY DEF BeginUpdateTable
<1>2. PICK s \in TableStatus : s = tableStatus[t]
  BY DEF FloorInv, FloorTypeOK
<1>3. PICK call : call = [IdleFloorCall EXCEPT !.pc = "saveTable", !.table = t, !.seen = s]
  OBVIOUS
<1>4. call \in FloorCall /\ call.pc = "saveTable" /\ call.table = t /\ call.seen = s /\ call.tab = NoTab
  BY <1>3, IdleFloorCallTyped DEF FloorCall
<1>5. FloorCallSound(call, tableStatus, floorTabs)
  BY <1>2, <1>4 DEF FloorCallSound, OnATab, Inserting
<1> QED
  BY <1>1, <1>2, <1>3, <1>4, <1>5, HandlerBegins DEF Inserting

LEMMA ReleaseBegins == ASSUME FloorInv, NEW c \in FloorCalls, BeginRelease(c) PROVE FloorInv'
<1>1. PICK t \in FloorTables, i \in FloorTabs \cup {NoTab} :
        /\ i = NoTab \/ i \in OpenTabsAt(t)
        /\ BeginFloor(c, [IdleFloorCall EXCEPT !.pc = "release", !.tab = i, !.table = t])
  BY DEF BeginRelease
<1>2. PICK call : call = [IdleFloorCall EXCEPT !.pc = "release", !.tab = i, !.table = t]
  OBVIOUS
<1>3. call \in FloorCall /\ call.pc = "release" /\ call.table = t /\ call.tab = i
  BY <1>2, IdleFloorCallTyped DEF FloorCall
<1>4. i = NoTab \/ (floorTabs[i].status = "open" /\ floorTabs[i].table = t)
  BY <1>1 DEF OpenTabsAt
<1>5. FloorCallSound(call, tableStatus, floorTabs)
  BY <1>3, <1>4 DEF FloorCallSound, OnATab, Inserting
<1> QED
  BY <1>1, <1>2, <1>3, <1>4, <1>5, HandlerBegins DEF Inserting

---------------------------------------------------------------------------
(* A statement. *)

(* Everybody else's reads are old: what remains to show is of the handler itself, and of the tables it changes. *)
Statement(c, next, statuses, tabs, when) ==
  /\ tableStatus' = statuses
  /\ floorTabs' = tabs
  /\ floorCalls' = [d \in FloorCalls |->
       IF d = c THEN next ELSE [floorCalls[d] EXCEPT !.stale = floorCalls[d] # IdleFloorCall]]
  /\ muddled' = IF when \/ floorCalls[c].stale THEN muddled \cup Changed(statuses, tabs) ELSE muddled
  /\ floorBegun' \in 0 .. MaxFloorCalls

LEMMA StatementWritten ==
  ASSUME FloorInv, NEW c \in FloorCalls, NEW next \in FloorCall, NEW statuses \in [FloorTables -> TableStatus],
         NEW tabs \in [FloorTabs -> FloorTabRow], NEW when, Statement(c, next, statuses, tabs, when),
         FloorCallSound(next, statuses, tabs), next.pc \notin Inserting, next.tab \in {NoTab, floorCalls[c].tab},
         \A d \in FloorCalls \ {c} : floorCalls[d].pc \in Inserting => tabs[floorCalls[d].tab].status = "none",
         floorCalls[c].pc = "guestOccupy" => statuses[floorCalls[c].table] = "occupied",
         ~when /\ ~floorCalls[c].stale =>
           \A t \in Changed(statuses, tabs) \ muddled :
             PlanAt(t, statuses, tabs, next.pc = "guestOccupy" /\ next.table = t)
  PROVE  FloorInv'
<1>1. /\ tableStatus' = statuses /\ floorTabs' = tabs /\ floorBegun' \in 0 .. MaxFloorCalls
      /\ floorCalls' = [d \in FloorCalls |->
           IF d = c THEN next ELSE [floorCalls[d] EXCEPT !.stale = floorCalls[d] # IdleFloorCall]]
      /\ muddled' = IF when \/ floorCalls[c].stale THEN muddled \cup Changed(statuses, tabs) ELSE muddled
  BY DEF Statement
<1>2. ASSUME NEW d \in FloorCalls, d # c
      PROVE  /\ floorCalls'[d] \in FloorCall /\ floorCalls'[d].pc = floorCalls[d].pc
             /\ floorCalls'[d].tab = floorCalls[d].tab /\ floorCalls'[d].table = floorCalls[d].table
             /\ floorCalls'[d].pc # "idle" => floorCalls'[d].stale
  <2>1. PICK x \in FloorCall : x = floorCalls[d]
    BY DEF FloorInv, FloorTypeOK
  <2>2. PICK s \in BOOLEAN : s <=> x # IdleFloorCall
    OBVIOUS
  <2>3. PICK y : y = [x EXCEPT !.stale = s]
    OBVIOUS
  <2>4. floorCalls'[d] = y
    BY <1>1, <1>2, <2>1, <2>2, <2>3
  <2>5. y \in FloorCall /\ y.pc = x.pc /\ y.tab = x.tab /\ y.table = x.table /\ y.stale = s
    BY <2>3 DEF FloorCall
  <2>6. x.pc # "idle" => s
    BY <2>2, IdleFloorCallTyped
  <2> QED
    BY <2>1, <2>4, <2>5, <2>6
<1>3. floorCalls' \in [FloorCalls -> FloorCall] /\ floorCalls'[c] = next
  BY <1>1, <1>2
<1>4. Changed(statuses, tabs) \subseteq FloorTables
  BY DEF Changed
<1>5. FloorTypeOK'
  BY <1>1, <1>3, <1>4 DEF FloorInv, FloorTypeOK
<1>6. ASSUME NEW d \in FloorCalls PROVE FloorCallSound(floorCalls'[d], statuses, tabs)
  <2>1. CASE d = c
    BY <1>3, <2>1
  <2>2. CASE d # c
    <3>1. PICK q : q = floorCalls'[d]
      OBVIOUS
    <3>2. (q.pc \in OnATab => q.tab \in FloorTabs) /\ (q.pc # "idle" => q.stale)
      BY <1>2, <2>2, <3>1 DEF FloorInv, FloorCallSound
    <3>3. FloorCallSound(q, statuses, tabs)
      BY <3>2 DEF FloorCallSound
    <3> QED
      BY <3>1, <3>3
  <2> QED
    BY <2>1, <2>2
<1>7. InsertsAlone'
  <2> SUFFICES ASSUME NEW d \in FloorCalls, floorCalls'[d].pc \in Inserting
               PROVE  /\ tabs[floorCalls'[d].tab].status = "none"
                      /\ \A e \in FloorCalls : floorCalls'[e].tab = floorCalls'[d].tab => e = d
    BY <1>1 DEF InsertsAlone
  <2>1. d # c /\ floorCalls[d].pc \in Inserting /\ floorCalls'[d].tab = floorCalls[d].tab
    BY <1>2, <1>3
  <2>2. floorCalls[d].tab \in FloorTabs /\ \A e \in FloorCalls : floorCalls[e].tab = floorCalls[d].tab => e = d
    BY <2>1 DEF FloorInv, InsertsAlone, FloorCallSound, OnATab
  <2>3. next.tab # floorCalls[d].tab
    BY <2>1, <2>2, FloorAssumption
  <2> QED
    BY <1>2, <1>3, <2>1, <2>2, <2>3
<1>8. ASSUME NEW t \in FloorTables, t \notin muddled' PROVE PlanAt(t, statuses, tabs, BeingTaken(t)')
  <2>1. CASE t \in Changed(statuses, tabs)
    <3>1. ~when /\ ~floorCalls[c].stale /\ t \notin muddled
      BY <1>1, <1>8, <2>1
    <3>2. PlanAt(t, statuses, tabs, next.pc = "guestOccupy" /\ next.table = t)
      BY <2>1, <3>1
    <3>3. next.pc = "guestOccupy" /\ next.table = t => BeingTaken(t)'
      BY <1>3 DEF BeingTaken
    <3> QED
      BY <3>2, <3>3 DEF PlanAt
  <2>2. CASE t \notin Changed(statuses, tabs)
    <3>1. statuses[t] = tableStatus[t] /\ SittingIn(tabs, t) = SittingIn(floorTabs, t)
      BY <2>2 DEF Changed, SittingAt
    <3>2. t \notin muddled
      BY <1>1, <1>8
    <3>3. PlanAt(t, tableStatus, floorTabs, BeingTaken(t))
      BY <3>2 DEF FloorInv
    <3>4. BeingTaken(t) => BeingTaken(t)' \/ statuses[t] = "occupied"
      BY <1>2 DEF BeingTaken
    <3> QED
      BY <3>1, <3>3, <3>4 DEF PlanAt
  <2> QED
    BY <2>1, <2>2
<1> QED
  BY <1>1, <1>5, <1>6, <1>7, <1>8 DEF FloorInv

LEMMA FloorWritten ==
  ASSUME FloorInv, NEW c \in FloorCalls, NEW next \in FloorCall, NEW statuses \in [FloorTables -> TableStatus],
         NEW tabs \in [FloorTabs -> FloorTabRow], NEW when, WriteFloor(c, next, statuses, tabs, when),
         FloorCallSound(next, statuses, tabs), next.pc \notin Inserting, next.tab \in {NoTab, floorCalls[c].tab},
         \A d \in FloorCalls \ {c} : floorCalls[d].pc \in Inserting => tabs[floorCalls[d].tab].status = "none",
         floorCalls[c].pc = "guestOccupy" => statuses[floorCalls[c].table] = "occupied",
         ~when /\ ~floorCalls[c].stale =>
           \A t \in Changed(statuses, tabs) \ muddled :
             PlanAt(t, statuses, tabs, next.pc = "guestOccupy" /\ next.table = t)
  PROVE  FloorInv'
<1>1. Statement(c, next, statuses, tabs, when)
  BY DEF WriteFloor, Statement, FloorInv, FloorTypeOK
<1> QED
  BY <1>1, StatementWritten

(* Who sits where after one row was written. *)
LEMMA SittingAfter ==
  ASSUME NEW i \in FloorTabs, NEW tabs, \A j \in FloorTabs \ {i} : tabs[j] = floorTabs[j]
  PROVE  \A t \in FloorTables : SittingIn(tabs, t) =
           (SittingIn(floorTabs, t) \ {i}) \cup { j \in {i} : tabs[i].status \in LiveStatus /\ tabs[i].table = t }
  BY DEF SittingIn, LiveStatus

LEMMA OthersInsert ==
  ASSUME FloorInv, NEW c \in FloorCalls, NEW i \in FloorTabs, NEW row \in FloorTabRow,
         i = floorCalls[c].tab \/ Unused(i)
  PROVE  \A d \in FloorCalls \ {c} : floorCalls[d].pc \in Inserting =>
           floorCalls[d].tab \in FloorTabs /\ floorTabs[floorCalls[d].tab].status = "none" /\ floorCalls[d].tab # i
  BY DEF FloorInv, InsertsAlone, Unused, FloorCallSound, OnATab

LEMMA NobodyInserts ==
  ASSUME FloorInv, NEW c \in FloorCalls
  PROVE  \A d \in FloorCalls \ {c} : floorCalls[d].pc \in Inserting => floorTabs[floorCalls[d].tab].status = "none"
  BY DEF FloorInv, InsertsAlone

(* A statement that writes one row. *)
LEMMA RowWritten ==
  ASSUME FloorInv, NEW c \in FloorCalls, NEW next \in FloorCall, NEW statuses \in [FloorTables -> TableStatus],
         NEW i \in FloorTabs, NEW row \in FloorTabRow, NEW tabs, tabs = [floorTabs EXCEPT ![i] = row],
         i = floorCalls[c].tab \/ Unused(i),
         NEW when, WriteFloor(c, next, statuses, tabs, when),
         FloorCallSound(next, statuses, tabs), next.pc \notin Inserting, next.tab \in {NoTab, floorCalls[c].tab},
         floorCalls[c].pc # "guestOccupy",
         ~when /\ ~floorCalls[c].stale =>
           \A t \in Changed(statuses, tabs) \ muddled :
             PlanAt(t, statuses, tabs, next.pc = "guestOccupy" /\ next.table = t)
  PROVE  FloorInv'
<1>1. tabs \in [FloorTabs -> FloorTabRow] /\ \A j \in FloorTabs \ {i} : tabs[j] = floorTabs[j]
  BY DEF FloorInv, FloorTypeOK
<1>2. \A d \in FloorCalls \ {c} : floorCalls[d].pc \in Inserting => tabs[floorCalls[d].tab].status = "none"
  BY <1>1, OthersInsert
<1> QED
  BY <1>1, <1>2, FloorWritten

(* A party sits down at a table nobody sat at. *)
LEMMA PartySits ==
  ASSUME FloorInv, NEW c \in FloorCalls, NEW next \in FloorCall, NEW statuses \in [FloorTables -> TableStatus],
         NEW i \in FloorTabs, NEW t \in FloorTables,
         (i = floorCalls[c].tab /\ floorCalls[c].pc \in Inserting) \/ Unused(i),
         WriteFloor(c, next, statuses, [floorTabs EXCEPT ![i] = NewTab(t)], SittingAt(t) # {}),
         next = IdleFloorCall \/ (next.pc = "guestOccupy" /\ next.table = t /\ next.tab = i /\ i = floorCalls[c].tab),
         statuses[t] = "occupied" \/ (statuses[t] = tableStatus[t] /\ next.pc = "guestOccupy"),
         \A u \in FloorTables \ {t} : statuses[u] = tableStatus[u],
         floorCalls[c].pc # "guestOccupy"
  PROVE  FloorInv'
<1>1. PICK row \in FloorTabRow : row = NewTab(t)
  BY DEF NewTab, FloorTabRow, FloorTabStatus
<1>2. row.status = "open" /\ row.table = t
  BY <1>1 DEF NewTab
<1>3. PICK tabs : tabs = [floorTabs EXCEPT ![i] = row]
  OBVIOUS
<1>4. /\ tabs[i] = row
      /\ \A u \in FloorTables : SittingIn(tabs, u) =
           (SittingIn(floorTabs, u) \ {i}) \cup { j \in {i} : row.status \in LiveStatus /\ row.table = u }
  <2>1. tabs[i] = row /\ \A j \in FloorTabs \ {i} : tabs[j] = floorTabs[j]
    BY <1>3 DEF FloorInv, FloorTypeOK
  <2> QED
    BY <2>1, SittingAfter
<1>5. floorTabs[i].status = "none"
  BY DEF FloorInv, InsertsAlone, Unused
<1>6. \A u \in FloorTables : i \notin SittingIn(floorTabs, u)
  BY <1>5 DEF SittingIn
<1>7. /\ SittingIn(tabs, t) = SittingIn(floorTabs, t) \cup {i}
      /\ \A u \in FloorTables \ {t} : SittingIn(tabs, u) = SittingIn(floorTabs, u)
  BY <1>2, <1>4, <1>6 DEF LiveStatus
<1>8. FloorCallSound(next, statuses, tabs) /\ next.pc \notin Inserting /\ next.tab \in {NoTab, floorCalls[c].tab}
  BY <1>2, <1>4, IdleIsSound, IdleFloorCallTyped DEF FloorCallSound, LiveStatus, Inserting
<1>9. ASSUME ~(SittingAt(t) # {}), NEW u \in Changed(statuses, tabs)
      PROVE  PlanAt(u, statuses, tabs, next.pc = "guestOccupy" /\ next.table = u)
  <2>1. u = t
    BY <1>7 DEF Changed, SittingAt
  <2>2. SittingIn(tabs, t) = {i}
    BY <1>7, <1>9 DEF SittingAt
  <2>3. next = IdleFloorCall => statuses[t] = "occupied"
    BY IdleFloorCallTyped
  <2> QED
    BY <2>1, <2>2, <2>3 DEF PlanAt
<1>10. WriteFloor(c, next, statuses, tabs, SittingAt(t) # {})
  BY <1>1, <1>3
<1> QED
  BY <1>3, <1>8, <1>9, <1>10, RowWritten

LEMMA TableSet ==
  ASSUME FloorInv, NEW t \in FloorTables, NEW s \in TableStatus
  PROVE  /\ SetTable(t, s) \in [FloorTables -> TableStatus] /\ SetTable(t, s)[t] = s
         /\ \A u \in FloorTables \ {t} : SetTable(t, s)[u] = tableStatus[u]
  BY DEF SetTable, FloorInv, FloorTypeOK

LEMMA CallNow ==
  ASSUME FloorInv, NEW c \in FloorCalls
  PROVE  \E q \in FloorCall : q = floorCalls[c] /\ FloorCallSound(q, tableStatus, floorTabs)
  BY DEF FloorInv, FloorTypeOK

LEMMA TabOpened == ASSUME FloorInv, NEW c \in FloorCalls, OpenTab(c) PROVE FloorInv'
<1>1. PICK q \in FloorCall : q = floorCalls[c] /\ FloorCallSound(q, tableStatus, floorTabs)
  BY CallNow
<1>2. PICK i \in FloorTabs, t \in FloorTables : i = q.tab /\ t = q.table
  BY <1>1 DEF OpenTab, FloorCallSound, OnATab, Inserting, FloorCall
<1>3. PICK statuses : statuses = SetTable(t, "occupied")
  OBVIOUS
<1>4. /\ statuses \in [FloorTables -> TableStatus] /\ statuses[t] = "occupied"
      /\ \A u \in FloorTables \ {t} : statuses[u] = tableStatus[u]
  BY <1>3, TableSet DEF TableStatus
<1>5. /\ q.pc = "insert"
      /\ WriteFloor(c, IdleFloorCall, statuses, [floorTabs EXCEPT ![i] = NewTab(t)], SittingAt(t) # {})
  BY <1>1, <1>2, <1>3 DEF OpenTab
<1> QED
  BY <1>1, <1>2, <1>4, <1>5, IdleFloorCallTyped, PartySits DEF Inserting

LEMMA GuestTabOpened == ASSUME FloorInv, NEW c \in FloorCalls, GuestInsert(c) PROVE FloorInv'
<1>1. PICK q \in FloorCall : q = floorCalls[c] /\ FloorCallSound(q, tableStatus, floorTabs)
  BY CallNow
<1>2. PICK i \in FloorTabs, t \in FloorTables : i = q.tab /\ t = q.table
  BY <1>1 DEF GuestInsert, FloorCallSound, OnATab, Inserting, FloorCall
<1>3. PICK next : next = [q EXCEPT !.pc = "guestOccupy"]
  OBVIOUS
<1>4. next \in FloorCall /\ next.pc = "guestOccupy" /\ next.tab = i /\ next.table = t
  BY <1>2, <1>3 DEF FloorCall
<1>5. PICK statuses : statuses = tableStatus
  OBVIOUS
<1>6. /\ q.pc = "guestInsert"
      /\ WriteFloor(c, next, statuses, [floorTabs EXCEPT ![i] = NewTab(t)], SittingAt(t) # {})
  BY <1>1, <1>2, <1>3, <1>5 DEF GuestInsert
<1>7. statuses \in [FloorTables -> TableStatus] /\ \A u \in FloorTables : statuses[u] = tableStatus[u]
  BY <1>5 DEF FloorInv, FloorTypeOK
<1> QED
  BY <1>1, <1>2, <1>4, <1>6, <1>7, PartySits DEF Inserting

LEMMA PartySeated == ASSUME FloorInv, NEW c \in FloorCalls, SeatParty(c) PROVE FloorInv'
<1>1. PICK i \in FloorTabs, t \in FloorTables :
        /\ floorCalls[c] = IdleFloorCall /\ Unused(i)
        /\ WriteFloor(c, IdleFloorCall, SetTable(t, "occupied"), [floorTabs EXCEPT ![i] = NewTab(t)],
                      SittingAt(t) # {})
  BY DEF SeatParty
<1>2. PICK statuses : statuses = SetTable(t, "occupied")
  OBVIOUS
<1>3. /\ statuses \in [FloorTables -> TableStatus] /\ statuses[t] = "occupied"
      /\ \A u \in FloorTables \ {t} : statuses[u] = tableStatus[u]
  BY <1>2, TableSet DEF TableStatus
<1> QED
  BY <1>1, <1>2, <1>3, IdleFloorCallTyped, PartySits

(* The guest's table is marked taken after his tab is there. *)
LEMMA GuestTableTaken == ASSUME FloorInv, NEW c \in FloorCalls, GuestOccupy(c) PROVE FloorInv'
<1>1. PICK q \in FloorCall : q = floorCalls[c] /\ FloorCallSound(q, tableStatus, floorTabs)
  BY CallNow
<1>2. PICK i \in FloorTabs, t \in FloorTables : i = q.tab /\ t = q.table
  BY <1>1 DEF GuestOccupy, FloorCallSound, OnATab, Inserting, FloorCall
<1>3. PICK statuses : statuses = SetTable(t, "occupied")
  OBVIOUS
<1>4. /\ statuses \in [FloorTables -> TableStatus] /\ statuses[t] = "occupied"
      /\ \A u \in FloorTables \ {t} : statuses[u] = tableStatus[u]
  BY <1>3, TableSet DEF TableStatus
<1>5. PICK tabs \in [FloorTabs -> FloorTabRow] : tabs = floorTabs
  BY DEF FloorInv, FloorTypeOK
<1>6. q.pc = "guestOccupy" /\ WriteFloor(c, IdleFloorCall, statuses, tabs, FALSE)
  BY <1>1, <1>2, <1>3, <1>5 DEF GuestOccupy
<1>7. ASSUME ~q.stale, NEW u \in Changed(statuses, tabs) \ muddled PROVE PlanAt(u, statuses, tabs, FALSE)
  <2>1. u = t
    BY <1>4, <1>5, <1>7 DEF Changed, SittingAt
  <2>2. i \in SittingIn(tabs, t)
    BY <1>1, <1>2, <1>5, <1>6, <1>7 DEF FloorCallSound, SittingIn, LiveStatus
  <2>3. \A j, k \in SittingIn(tabs, t) : j = k
    BY <1>5, <1>7, <2>1 DEF FloorInv, PlanAt, Changed
  <2> QED
    BY <1>4, <2>1, <2>2, <2>3 DEF PlanAt
<1>8. \A d \in FloorCalls \ {c} : floorCalls[d].pc \in Inserting => tabs[floorCalls[d].tab].status = "none"
  BY <1>5, NobodyInserts
<1> QED
  BY <1>1, <1>2, <1>4, <1>6, <1>7, <1>8, IdleFloorCallTyped, IdleIsSound, FloorWritten DEF Inserting

---------------------------------------------------------------------------
(* A handler lets its tab go, and the table it read with it. *)
LEMMA TabLeaves ==
  ASSUME FloorInv, NEW c \in FloorCalls, NEW i \in FloorTabs, i = floorCalls[c].tab, floorCalls[c].pc # "guestOccupy",
         NEW row \in FloorTabRow, row.status \notin LiveStatus,
         NEW t \in FloorTables, NEW s \in TableStatus, s # "occupied", NEW when,
         WriteFloor(c, IdleFloorCall, SetTable(t, s), [floorTabs EXCEPT ![i] = row], when),
         ~when /\ ~floorCalls[c].stale =>
           floorTabs[i].table = t /\ (t \in muddled \/ SittingIn(floorTabs, t) \subseteq {i})
  PROVE  FloorInv'
<1>1. PICK statuses : statuses = SetTable(t, s)
  OBVIOUS
<1>2. /\ statuses \in [FloorTables -> TableStatus] /\ statuses[t] = s
      /\ \A u \in FloorTables \ {t} : statuses[u] = tableStatus[u]
  BY <1>1, TableSet
<1>3. PICK tabs : tabs = [floorTabs EXCEPT ![i] = row]
  OBVIOUS
<1>4. tabs[i] = row /\ \A j \in FloorTabs \ {i} : tabs[j] = floorTabs[j]
  BY <1>3 DEF FloorInv, FloorTypeOK
<1>5. \A u \in FloorTables : SittingIn(tabs, u) = SittingIn(floorTabs, u) \ {i}
  BY <1>4, SittingAfter
<1>6. ASSUME ~when /\ ~floorCalls[c].stale, NEW u \in Changed(statuses, tabs) \ muddled
      PROVE  PlanAt(u, statuses, tabs, FALSE)
  <2>1. u = t
    BY <1>2, <1>5, <1>6 DEF Changed, SittingAt, SittingIn
  <2>2. SittingIn(tabs, t) = {}
    BY <1>5, <1>6, <2>1
  <2> QED
    BY <1>2, <2>1, <2>2 DEF PlanAt
<1>7. WriteFloor(c, IdleFloorCall, statuses, tabs, when)
  BY <1>1, <1>3
<1> QED
  BY <1>2, <1>3, <1>6, <1>7, IdleFloorCallTyped, IdleIsSound, RowWritten DEF Inserting

(* A handler edits its tab: nobody sits down or gets up, but by old reads or where `when` says so. *)
LEMMA TabEdited ==
  ASSUME FloorInv, NEW c \in FloorCalls, NEW i \in FloorTabs, i = floorCalls[c].tab, floorCalls[c].pc # "guestOccupy",
         NEW row \in FloorTabRow, NEW next \in FloorCall, NEW when,
         WriteFloor(c, next, tableStatus, [floorTabs EXCEPT ![i] = row], when),
         next = IdleFloorCall
         \/ (next.pc = "markBilled" /\ next.tab = i /\ (~next.stale => row.status \in LiveStatus)),
         ~when /\ ~floorCalls[c].stale =>
           /\ row.status \in LiveStatus <=> floorTabs[i].status \in LiveStatus
           /\ row.table = floorTabs[i].table
  PROVE  FloorInv'
<1>1. PICK statuses \in [FloorTables -> TableStatus] : statuses = tableStatus
  BY DEF FloorInv, FloorTypeOK
<1>2. PICK tabs : tabs = [floorTabs EXCEPT ![i] = row]
  OBVIOUS
<1>3. tabs[i] = row /\ \A j \in FloorTabs \ {i} : tabs[j] = floorTabs[j]
  BY <1>2 DEF FloorInv, FloorTypeOK
<1>4. ~when /\ ~floorCalls[c].stale => Changed(statuses, tabs) = {}
  BY <1>1, <1>3, SittingAfter DEF Changed, SittingAt, SittingIn, LiveStatus
<1>5. FloorCallSound(next, statuses, tabs) /\ next.pc \notin Inserting /\ next.tab \in {NoTab, floorCalls[c].tab}
  BY <1>3, IdleIsSound, IdleFloorCallTyped DEF FloorCallSound, Inserting
<1>6. WriteFloor(c, next, statuses, tabs, when)
  BY <1>1, <1>2
<1> QED
  BY <1>1, <1>2, <1>4, <1>5, <1>6, RowWritten

LEMMA TabStatusSet ==
  ASSUME FloorInv, NEW i \in FloorTabs, NEW st \in FloorTabStatus
  PROVE  \E row \in FloorTabRow :
           /\ SetTab(i, st) = [floorTabs EXCEPT ![i] = row]
           /\ row.status = (IF floorTabs[i].status = "removed" THEN "removed" ELSE st)
           /\ row.table = floorTabs[i].table /\ row.bill = floorTabs[i].bill
<1>1. PICK old \in FloorTabRow : old = floorTabs[i]
  BY DEF FloorInv, FloorTypeOK
<1>2. PICK new \in FloorTabStatus : new = (IF old.status = "removed" THEN "removed" ELSE st)
  BY DEF FloorTabStatus
<1>3. PICK row : row = [old EXCEPT !.status = new]
  OBVIOUS
<1>4. row \in FloorTabRow /\ row.status = new /\ row.table = old.table /\ row.bill = old.bill
  BY <1>3 DEF FloorTabRow
<1>5. SetTab(i, st) = [floorTabs EXCEPT ![i] = row]
  BY <1>1, <1>2, <1>3 DEF SetTab, FloorInv, FloorTypeOK
<1> QED
  BY <1>1, <1>2, <1>4, <1>5

(* Merge, void, close and settle. *)
LEMMA TabEnded == ASSUME FloorInv, NEW c \in FloorCalls, EndTab(c) PROVE FloorInv'
<1>1. PICK q \in FloorCall : q = floorCalls[c] /\ FloorCallSound(q, tableStatus, floorTabs)
  BY CallNow
<1>2. q.pc \in {"merge", "void", "close", "settle"}
  BY <1>1 DEF EndTab, Ending
<1>3. PICK i \in FloorTabs, t \in FloorTables : i = q.tab /\ t = q.table
  BY <1>1, <1>2 DEF FloorCallSound, OnATab, FloorCall
<1>4. PICK e \in {"voided", "paid"} : e = Ending[q.pc]
  BY <1>2 DEF Ending
<1>5. PICK s \in {"inactive", "available"} : s = Leaving[q.pc]
  BY <1>2 DEF Leaving
<1>6. PICK row \in FloorTabRow :
        /\ SetTab(i, e) = [floorTabs EXCEPT ![i] = row]
        /\ row.status = (IF floorTabs[i].status = "removed" THEN "removed" ELSE e)
  BY TabStatusSet DEF FloorTabStatus
<1>7. row.status \notin LiveStatus
  BY <1>6 DEF LiveStatus
<1>8. PICK paid : paid = [row EXCEPT !.bill = "paid"]
  OBVIOUS
<1>9. paid \in FloorTabRow /\ paid.status = row.status
  BY <1>8 DEF FloorTabRow
<1>10. PICK last \in FloorTabRow : last = IF q.pc = "settle" THEN paid ELSE row
  BY <1>9
<1>11. (IF q.pc = "settle" THEN [SetTab(i, e) EXCEPT ![i].bill = "paid"] ELSE SetTab(i, e))
       = [floorTabs EXCEPT ![i] = last]
  BY <1>6, <1>8, <1>10 DEF FloorInv, FloorTypeOK
<1>12. WriteFloor(c, IdleFloorCall, SetTable(t, s), [floorTabs EXCEPT ![i] = last], ~Live(i))
  BY <1>1, <1>3, <1>4, <1>5, <1>11 DEF EndTab
<1>13. Live(i) /\ ~q.stale => floorTabs[i].table = t /\ (t \in muddled \/ SittingIn(floorTabs, t) \subseteq {i})
  <2> SUFFICES ASSUME Live(i), ~q.stale, t \notin muddled
               PROVE  SittingIn(floorTabs, t) \subseteq {i}
    BY <1>1, <1>2, <1>3 DEF FloorCallSound
  <2>1. i \in SittingIn(floorTabs, t)
    BY <1>1, <1>2, <1>3 DEF FloorCallSound, SittingIn, Live
  <2>2. \A j, k \in SittingIn(floorTabs, t) : j = k
    BY DEF FloorInv, PlanAt
  <2> QED
    BY <2>1, <2>2
<1>14. s \in TableStatus /\ s # "occupied" /\ last.status \notin LiveStatus
  BY <1>5, <1>7, <1>9, <1>10 DEF TableStatus
<1> QED
  BY <1>1, <1>2, <1>3, <1>12, <1>13, <1>14, TabLeaves

(* Release voids the open tab it found, if there was one. *)
LEMMA TableReleased == ASSUME FloorInv, NEW c \in FloorCalls, Release(c) PROVE FloorInv'
<1>1. PICK q \in FloorCall : q = floorCalls[c] /\ FloorCallSound(q, tableStatus, floorTabs)
  BY CallNow
<1>2. PICK i \in FloorTabs \cup {NoTab}, t \in FloorTables : i = q.tab /\ t = q.table
  BY <1>1 DEF FloorCall
<1>3. /\ q.pc = "release"
      /\ WriteFloor(c, IdleFloorCall, SetTable(t, "available"),
                    IF i = NoTab THEN floorTabs ELSE SetTab(i, "voided"), SittingAt(t) \ {i} # {})
  BY <1>1, <1>2 DEF Release
<1>4. CASE i = NoTab
  <2>1. PICK statuses : statuses = SetTable(t, "available")
    OBVIOUS
  <2>2. /\ statuses \in [FloorTables -> TableStatus] /\ statuses[t] = "available"
        /\ \A u \in FloorTables \ {t} : statuses[u] = tableStatus[u]
    BY <2>1, TableSet DEF TableStatus
  <2>3. PICK tabs \in [FloorTabs -> FloorTabRow] : tabs = floorTabs
    BY DEF FloorInv, FloorTypeOK
  <2>4. WriteFloor(c, IdleFloorCall, statuses, tabs, SittingAt(t) \ {i} # {})
    BY <1>3, <1>4, <2>1, <2>3
  <2>5. NoTab \notin SittingAt(t)
    BY FloorAssumption DEF SittingAt, SittingIn
  <2>6. ~(SittingAt(t) \ {i} # {}) =>
          \A u \in Changed(statuses, tabs) : PlanAt(u, statuses, tabs, FALSE)
    BY <1>4, <2>2, <2>3, <2>5 DEF Changed, SittingAt, PlanAt
  <2>7. \A d \in FloorCalls \ {c} : floorCalls[d].pc \in Inserting => tabs[floorCalls[d].tab].status = "none"
    BY <2>3, NobodyInserts
  <2> QED
    BY <1>1, <1>3, <2>2, <2>4, <2>6, <2>7, IdleFloorCallTyped, IdleIsSound, FloorWritten DEF Inserting
<1>5. CASE i \in FloorTabs
  <2>1. PICK row \in FloorTabRow :
          /\ SetTab(i, "voided") = [floorTabs EXCEPT ![i] = row]
          /\ row.status = (IF floorTabs[i].status = "removed" THEN "removed" ELSE "voided")
    BY <1>5, TabStatusSet DEF FloorTabStatus
  <2>2. row.status \notin LiveStatus
    BY <2>1 DEF LiveStatus
  <2>3. WriteFloor(c, IdleFloorCall, SetTable(t, "available"), [floorTabs EXCEPT ![i] = row],
                   SittingAt(t) \ {i} # {})
    BY <1>3, <1>5, <2>1, FloorAssumption
  <2>4. ~(SittingAt(t) \ {i} # {}) /\ ~q.stale =>
          floorTabs[i].table = t /\ SittingIn(floorTabs, t) \subseteq {i}
    BY <1>1, <1>2, <1>3, <1>5, FloorAssumption DEF FloorCallSound, SittingAt
  <2> QED
    BY <1>1, <1>2, <1>3, <1>5, <2>2, <2>3, <2>4, TabLeaves DEF TableStatus
<1> QED
  BY <1>4, <1>5

(* A tab moves from the table it sat at to one nobody sits at. *)
LEMMA TabMoved == ASSUME FloorInv, NEW c \in FloorCalls, Transfer(c) PROVE FloorInv'
<1>1. PICK q \in FloorCall : q = floorCalls[c] /\ FloorCallSound(q, tableStatus, floorTabs)
  BY CallNow
<1>2. PICK i \in FloorTabs, from \in FloorTables, to \in FloorTables :
        i = q.tab /\ from = q.row.table /\ to = q.table
  BY <1>1 DEF Transfer, FloorCallSound, OnATab, FloorCall, FloorTabRow
<1>3. /\ q.pc = "transfer"
      /\ WriteFloor(c, IdleFloorCall, Moved(from, to), [floorTabs EXCEPT ![i].table = to], SittingAt(to) # {})
  BY <1>1, <1>2 DEF Transfer
<1>4. PICK old \in FloorTabRow : old = floorTabs[i]
  BY DEF FloorInv, FloorTypeOK
<1>5. PICK row : row = [old EXCEPT !.table = to]
  OBVIOUS
<1>6. row \in FloorTabRow /\ row.status = old.status /\ row.table = to
  BY <1>5 DEF FloorTabRow
<1>7. PICK tabs : tabs = [floorTabs EXCEPT ![i] = row]
  OBVIOUS
<1>8. tabs = [floorTabs EXCEPT ![i].table = to]
  BY <1>4, <1>5, <1>7 DEF FloorInv, FloorTypeOK
<1>9. PICK statuses : statuses = Moved(from, to)
  OBVIOUS
<1>10. /\ statuses \in [FloorTables -> TableStatus] /\ statuses[to] = "occupied"
       /\ from # to => statuses[from] = "available"
       /\ \A u \in FloorTables \ {from, to} : statuses[u] = tableStatus[u]
  BY <1>9 DEF Moved, FloorInv, FloorTypeOK, TableStatus
<1>11. tabs[i] = row /\ \A j \in FloorTabs \ {i} : tabs[j] = floorTabs[j]
  BY <1>7 DEF FloorInv, FloorTypeOK
<1>12. ASSUME ~(SittingAt(to) # {}), ~q.stale, NEW u \in Changed(statuses, tabs) \ muddled
       PROVE  PlanAt(u, statuses, tabs, FALSE)
  <2>1. i \in SittingIn(floorTabs, from) /\ old.status = "open"
    BY <1>1, <1>2, <1>3, <1>4, <1>12 DEF FloorCallSound, SittingIn
  <2>2. from # to /\ SittingIn(floorTabs, to) = {}
    BY <1>12, <2>1 DEF SittingAt
  <2>3. SittingIn(tabs, to) = {i} /\ \A v \in FloorTables \ {to} : SittingIn(tabs, v) = SittingIn(floorTabs, v) \ {i}
    BY <1>6, <1>11, <2>1, <2>2, SittingAfter DEF LiveStatus
  <2>4. u \in {from, to}
    BY <1>2, <1>4, <1>10, <1>12, <2>1, <2>3 DEF Changed, SittingAt, SittingIn
  <2>5. CASE u = to
    BY <1>10, <2>3, <2>5 DEF PlanAt
  <2>6. CASE u = from
    <3>1. \A j, k \in SittingIn(floorTabs, from) : j = k
      BY <1>12, <2>6 DEF FloorInv, PlanAt
    <3>2. SittingIn(tabs, from) = {}
      BY <2>1, <2>2, <2>3, <3>1
    <3> QED
      BY <1>10, <2>2, <2>6, <3>2 DEF PlanAt
  <2> QED
    BY <2>4, <2>5, <2>6
<1>13. WriteFloor(c, IdleFloorCall, statuses, tabs, SittingAt(to) # {})
  BY <1>3, <1>8, <1>9
<1> QED
  BY <1>1, <1>2, <1>3, <1>6, <1>7, <1>10, <1>12, <1>13, IdleFloorCallTyped, IdleIsSound, RowWritten DEF Inserting

---------------------------------------------------------------------------
(* Edits of a tab. *)

LEMMA TabSaved == ASSUME FloorInv, NEW c \in FloorCalls, SaveTab(c) PROVE FloorInv'
<1>1. PICK q \in FloorCall : q = floorCalls[c] /\ FloorCallSound(q, tableStatus, floorTabs)
  BY CallNow
<1>2. PICK i \in FloorTabs : i = q.tab
  BY <1>1 DEF SaveTab, FloorCallSound, OnATab
<1>3. PICK old \in FloorTabRow : old = floorTabs[i]
  BY DEF FloorInv, FloorTypeOK
<1>4. PICK read \in FloorTabRow : read = q.row
  BY DEF FloorCall
<1>5. PICK row : row = [read EXCEPT !.bill = old.bill]
  OBVIOUS
<1>6. row \in FloorTabRow /\ row.status = read.status /\ row.table = read.table
  BY <1>5 DEF FloorTabRow
<1>7. q.pc = "save" /\ SavedRow(q) = row
  BY <1>1, <1>2, <1>3, <1>4, <1>5 DEF SaveTab, SavedRow
<1>8. WriteFloor(c, IdleFloorCall, tableStatus, [floorTabs EXCEPT ![i] = row], FALSE)
  BY <1>1, <1>2, <1>7 DEF SaveTab
<1>9. ~q.stale => row.status = floorTabs[i].status /\ row.table = floorTabs[i].table
  BY <1>1, <1>2, <1>4, <1>6, <1>7 DEF FloorCallSound
<1> QED
  BY <1>1, <1>2, <1>6, <1>7, <1>8, <1>9, IdleFloorCallTyped, TabEdited

LEMMA TabRemoved == ASSUME FloorInv, NEW c \in FloorCalls, RemoveTab(c) PROVE FloorInv'
<1>1. PICK q \in FloorCall : q = floorCalls[c] /\ FloorCallSound(q, tableStatus, floorTabs)
  BY CallNow
<1>2. PICK i \in FloorTabs : i = q.tab
  BY <1>1 DEF RemoveTab, FloorCallSound, OnATab
<1>3. PICK row \in FloorTabRow :
        /\ SetTab(i, "removed") = [floorTabs EXCEPT ![i] = row]
        /\ row.status = (IF floorTabs[i].status = "removed" THEN "removed" ELSE "removed")
        /\ row.table = floorTabs[i].table
  BY TabStatusSet DEF FloorTabStatus
<1>4. /\ q.pc = "remove"
      /\ WriteFloor(c, IdleFloorCall, tableStatus, [floorTabs EXCEPT ![i] = row], Live(i))
  BY <1>1, <1>2, <1>3 DEF RemoveTab
<1>5. ~Live(i) => (row.status \in LiveStatus <=> floorTabs[i].status \in LiveStatus)
  BY <1>3 DEF Live, LiveStatus
<1> QED
  BY <1>1, <1>2, <1>3, <1>4, <1>5, IdleFloorCallTyped, TabEdited

LEMMA BillInserted == ASSUME FloorInv, NEW c \in FloorCalls, InsertBill(c) PROVE FloorInv'
<1>1. PICK q \in FloorCall : q = floorCalls[c] /\ FloorCallSound(q, tableStatus, floorTabs)
  BY CallNow
<1>2. PICK i \in FloorTabs : i = q.tab
  BY <1>1 DEF InsertBill, FloorCallSound, OnATab
<1>3. PICK old \in FloorTabRow : old = floorTabs[i]
  BY DEF FloorInv, FloorTypeOK
<1>4. PICK bill \in {"unpaid", "none", "paid"} : bill = IF old.bill = "none" THEN "unpaid" ELSE old.bill
  BY DEF FloorTabRow
<1>5. PICK row : row = [old EXCEPT !.bill = bill]
  OBVIOUS
<1>6. row \in FloorTabRow /\ row.status = old.status /\ row.table = old.table
  BY <1>5 DEF FloorTabRow
<1>7. [floorTabs EXCEPT ![i].bill = IF @ = "none" THEN "unpaid" ELSE @] = [floorTabs EXCEPT ![i] = row]
  BY <1>3, <1>4, <1>5 DEF FloorInv, FloorTypeOK
<1>8. PICK next : next = [q EXCEPT !.pc = "markBilled"]
  OBVIOUS
<1>9. next \in FloorCall /\ next.pc = "markBilled" /\ next.tab = i /\ next.stale = q.stale
  BY <1>2, <1>8 DEF FloorCall
<1>10. q.pc = "insertBill" /\ WriteFloor(c, next, tableStatus, [floorTabs EXCEPT ![i] = row], FALSE)
  BY <1>1, <1>2, <1>7, <1>8 DEF InsertBill
<1>11. ~next.stale => row.status \in LiveStatus
  BY <1>1, <1>2, <1>3, <1>6, <1>9, <1>10 DEF FloorCallSound
<1> QED
  BY <1>1, <1>2, <1>3, <1>6, <1>9, <1>10, <1>11, TabEdited

(* generateBill's mark, and addOrderItems' reopening. *)
LEMMA TabMarked == ASSUME FloorInv, NEW c \in FloorCalls, MarkBilled(c) \/ FloorReopenTab(c) PROVE FloorInv'
<1>1. PICK q \in FloorCall : q = floorCalls[c] /\ FloorCallSound(q, tableStatus, floorTabs)
  BY CallNow
<1>2. q.pc \in {"markBilled", "reopen"}
  BY <1>1 DEF MarkBilled, FloorReopenTab
<1>3. PICK i \in FloorTabs : i = q.tab
  BY <1>1, <1>2 DEF FloorCallSound, OnATab
<1>4. PICK st \in {"billed", "open"} :
        WriteFloor(c, IdleFloorCall, tableStatus, SetTab(i, st), FALSE)
  BY <1>1, <1>3 DEF MarkBilled, FloorReopenTab
<1>5. PICK row \in FloorTabRow :
        /\ SetTab(i, st) = [floorTabs EXCEPT ![i] = row]
        /\ row.status = (IF floorTabs[i].status = "removed" THEN "removed" ELSE st)
        /\ row.table = floorTabs[i].table
  BY TabStatusSet DEF FloorTabStatus
<1>6. ~q.stale => row.status \in LiveStatus /\ floorTabs[i].status \in LiveStatus
  BY <1>1, <1>2, <1>3, <1>5 DEF FloorCallSound, LiveStatus
<1>7. WriteFloor(c, IdleFloorCall, tableStatus, [floorTabs EXCEPT ![i] = row], FALSE)
  BY <1>4, <1>5
<1> QED
  BY <1>1, <1>2, <1>3, <1>5, <1>6, <1>7, IdleFloorCallTyped, TabEdited

---------------------------------------------------------------------------
(* Edits of a table, and the ends that write nothing. *)

LEMMA TableSaved == ASSUME FloorInv, NEW c \in FloorCalls, SaveTable(c) PROVE FloorInv'
<1>1. PICK q \in FloorCall : q = floorCalls[c] /\ FloorCallSound(q, tableStatus, floorTabs)
  BY CallNow
<1>2. PICK t \in FloorTables, s \in TableStatus : t = q.table /\ s = q.seen
  BY DEF FloorCall
<1>3. PICK statuses : statuses = SetTable(t, s)
  OBVIOUS
<1>4. /\ statuses \in [FloorTables -> TableStatus] /\ statuses[t] = s
      /\ \A u \in FloorTables \ {t} : statuses[u] = tableStatus[u]
  BY <1>3, TableSet
<1>5. PICK tabs \in [FloorTabs -> FloorTabRow] : tabs = floorTabs
  BY DEF FloorInv, FloorTypeOK
<1>6. q.pc = "saveTable" /\ WriteFloor(c, IdleFloorCall, statuses, tabs, FALSE)
  BY <1>1, <1>2, <1>3, <1>5 DEF SaveTable
<1>7. ~q.stale => Changed(statuses, tabs) = {}
  BY <1>1, <1>2, <1>4, <1>5, <1>6 DEF FloorCallSound, Changed, SittingAt
<1>8. \A d \in FloorCalls \ {c} : floorCalls[d].pc \in Inserting => tabs[floorCalls[d].tab].status = "none"
  BY <1>5, NobodyInserts
<1> QED
  BY <1>1, <1>4, <1>6, <1>7, <1>8, IdleFloorCallTyped, IdleIsSound, FloorWritten DEF Inserting

LEMMA PaymentLost == ASSUME FloorInv, NEW c \in FloorCalls, SettleLost(c) PROVE FloorInv'
<1>1. PICK statuses \in [FloorTables -> TableStatus], tabs \in [FloorTabs -> FloorTabRow] :
        statuses = tableStatus /\ tabs = floorTabs
  BY DEF FloorInv, FloorTypeOK
<1>2. floorCalls[c].pc = "settle" /\ WriteFloor(c, IdleFloorCall, statuses, tabs, FALSE)
  BY <1>1 DEF SettleLost
<1>3. Changed(statuses, tabs) = {}
  BY <1>1 DEF Changed, SittingAt
<1>4. \A d \in FloorCalls \ {c} : floorCalls[d].pc \in Inserting => tabs[floorCalls[d].tab].status = "none"
  BY <1>1, NobodyInserts
<1> QED
  BY <1>2, <1>3, <1>4, IdleFloorCallTyped, IdleIsSound, FloorWritten DEF Inserting

(* Staff set a table by hand. *)
LEMMA StatusSetByHand == ASSUME FloorInv, NEW c \in FloorCalls, SetTableStatus(c) PROVE FloorInv'
<1>1. PICK t \in FloorTables, s \in TableStatus \ {"reserved"} :
        /\ floorCalls[c] = IdleFloorCall
        /\ floorBegun < MaxFloorCalls
        /\ s # tableStatus[t]
        /\ tableStatus' = SetTable(t, s)
        /\ floorCalls' = [d \in FloorCalls |-> [floorCalls[d] EXCEPT !.stale = floorCalls[d] # IdleFloorCall]]
        /\ floorBegun' = floorBegun + 1
        /\ muddled' = muddled \cup {t}
        /\ UNCHANGED floorTabs
  BY DEF SetTableStatus
<1>2. PICK statuses : statuses = SetTable(t, s)
  OBVIOUS
<1>3. /\ statuses \in [FloorTables -> TableStatus] /\ statuses[t] = s
      /\ \A u \in FloorTables \ {t} : statuses[u] = tableStatus[u]
  BY <1>2, TableSet
<1>4. PICK tabs \in [FloorTabs -> FloorTabRow] : tabs = floorTabs
  BY DEF FloorInv, FloorTypeOK
<1>5. Changed(statuses, tabs) = {t}
  BY <1>1, <1>3, <1>4 DEF Changed, SittingAt
<1>6. floorBegun' \in 0 .. MaxFloorCalls
  BY <1>1, FloorAssumption DEF FloorInv, FloorTypeOK
<1>7. [IdleFloorCall EXCEPT !.stale = FALSE] = IdleFloorCall
  <2>1. PICK x \in FloorCall : x = IdleFloorCall /\ x.stale = FALSE
    BY IdleFloorCallTyped
  <2>2. PICK n \in BOOLEAN : n = FALSE
    OBVIOUS
  <2>3. PICK y : y = [x EXCEPT !.stale = n]
    OBVIOUS
  <2>4. y = x
    BY <2>1, <2>2, <2>3 DEF FloorCall
  <2> QED
    BY <2>1, <2>2, <2>3, <2>4
<1>8. [floorCalls[c] EXCEPT !.stale = floorCalls[c] # IdleFloorCall] = IdleFloorCall
  <2>1. (floorCalls[c] # IdleFloorCall) = FALSE
    BY <1>1
  <2> QED
    BY <1>1, <1>7, <2>1
<1>9. floorCalls' = [d \in FloorCalls |->
        IF d = c THEN IdleFloorCall ELSE [floorCalls[d] EXCEPT !.stale = floorCalls[d] # IdleFloorCall]]
  BY <1>1, <1>8
<1>10. Statement(c, IdleFloorCall, statuses, tabs, TRUE)
  BY <1>1, <1>2, <1>4, <1>5, <1>6, <1>9 DEF Statement
<1>11. \A d \in FloorCalls \ {c} : floorCalls[d].pc \in Inserting => tabs[floorCalls[d].tab].status = "none"
  BY <1>4, NobodyInserts
<1> QED
  BY <1>1, <1>3, <1>10, <1>11, IdleFloorCallTyped, IdleIsSound, StatementWritten DEF Inserting

(* A handler stops between two statements. *)
LEMMA FloorAborted == ASSUME FloorInv, NEW c \in FloorCalls, AbortFloor(c) PROVE FloorInv'
<1>1. /\ floorCalls' = [floorCalls EXCEPT ![c] = IdleFloorCall]
      /\ muddled' = IF floorCalls[c].pc = "guestOccupy" THEN muddled \cup {floorCalls[c].table} ELSE muddled
      /\ UNCHANGED <<tableStatus, floorTabs, floorBegun>>
  BY DEF AbortFloor
<1>2. /\ floorCalls' \in [FloorCalls -> FloorCall] /\ floorCalls'[c] = IdleFloorCall
      /\ \A d \in FloorCalls \ {c} : floorCalls'[d] = floorCalls[d]
  BY <1>1, IdleFloorCallTyped DEF FloorInv, FloorTypeOK
<1>3. floorCalls[c].table \in FloorTables
  BY DEF FloorInv, FloorTypeOK, FloorCall
<1>4. FloorTypeOK'
  BY <1>1, <1>2, <1>3 DEF FloorInv, FloorTypeOK
<1>5. \A d \in FloorCalls : FloorCallSound(floorCalls'[d], tableStatus, floorTabs)
  BY <1>2, IdleIsSound DEF FloorInv
<1>6. InsertsAlone'
  <2> SUFFICES ASSUME NEW d \in FloorCalls, floorCalls'[d].pc \in Inserting
               PROVE  /\ floorTabs[floorCalls'[d].tab].status = "none"
                      /\ \A e \in FloorCalls : floorCalls'[e].tab = floorCalls'[d].tab => e = d
    BY <1>1 DEF InsertsAlone
  <2>1. d # c /\ floorCalls'[d] = floorCalls[d]
    BY <1>2, IdleFloorCallTyped DEF Inserting
  <2>2. /\ floorCalls[d].tab \in FloorTabs /\ floorTabs[floorCalls[d].tab].status = "none"
        /\ \A e \in FloorCalls : floorCalls[e].tab = floorCalls[d].tab => e = d
    BY <2>1 DEF FloorInv, InsertsAlone, FloorCallSound, OnATab
  <2> QED
    BY <1>2, <2>1, <2>2, IdleFloorCallTyped, FloorAssumption
<1>7. \A t \in FloorTables : t \notin muddled' /\ BeingTaken(t) => BeingTaken(t)'
  BY <1>1, <1>2 DEF BeingTaken
<1>8. \A t \in FloorTables \ muddled' : PlanAt(t, tableStatus, floorTabs, BeingTaken(t)')
  BY <1>1, <1>7 DEF FloorInv, PlanAt
<1> QED
  BY <1>1, <1>4, <1>5, <1>6, <1>8 DEF FloorInv

---------------------------------------------------------------------------
LEMMA TabHandlerBegins ==
  ASSUME FloorInv, NEW c \in FloorCalls,
         \/ BeginMerge(c) \/ BeginVoid(c) \/ BeginCloseTab(c) \/ BeginSettle(c)
         \/ BeginUpdateTab(c) \/ BeginRemoveTab(c) \/ BeginGenerateBill(c) \/ BeginNewRound(c)
  PROVE  FloorInv'
<1>1. PICK i \in FloorTabs, pc \in {"close", "merge", "void", "save", "remove", "insertBill", "reopen", "settle"} :
        /\ BeginOnTab(c, i, pc)
        /\ pc = "insertBill" => Live(i)
        /\ pc = "reopen" => floorTabs[i].status = "billed"
  BY DEF BeginMerge, BeginVoid, BeginCloseTab, BeginSettle, BeginUpdateTab, BeginRemoveTab, BeginGenerateBill,
         BeginNewRound, TakesRound
<1> QED
  BY <1>1, OnTabCall

LEMMA FloorRests == ASSUME FloorInv, UNCHANGED floorVars PROVE FloorInv'
<1>1. UNCHANGED <<tableStatus, floorTabs, floorCalls, floorBegun, muddled>>
  BY DEF floorVars
<1> QED
  BY <1>1 DEF FloorInv, FloorTypeOK, InsertsAlone, BeingTaken

LEMMA FloorStep == ASSUME FloorInv, [FloorNext]_floorVars PROVE FloorInv'
<1>1. CASE UNCHANGED floorVars
  BY <1>1, FloorRests
<1>2. ASSUME NEW c \in FloorCalls,
             \/ BeginOpenTab(c) \/ BeginGuestTab(c) \/ BeginTransfer(c) \/ BeginUpdateTable(c) \/ BeginRelease(c)
             \/ BeginMerge(c) \/ BeginVoid(c) \/ BeginCloseTab(c) \/ BeginSettle(c)
             \/ BeginUpdateTab(c) \/ BeginRemoveTab(c) \/ BeginGenerateBill(c) \/ BeginNewRound(c)
      PROVE  FloorInv'
  BY <1>2, OpeningBegins, MoveBegins, TableEditBegins, ReleaseBegins, TabHandlerBegins
<1>3. ASSUME NEW c \in FloorCalls,
             \/ OpenTab(c) \/ GuestInsert(c) \/ GuestOccupy(c) \/ SeatParty(c) \/ Transfer(c)
             \/ EndTab(c) \/ SettleLost(c)
      PROVE  FloorInv'
  BY <1>3, TabOpened, GuestTabOpened, GuestTableTaken, PartySeated, TabMoved, TabEnded, PaymentLost
<1>4. ASSUME NEW c \in FloorCalls,
             \/ SaveTab(c) \/ RemoveTab(c) \/ InsertBill(c) \/ MarkBilled(c) \/ FloorReopenTab(c)
             \/ SetTableStatus(c) \/ SaveTable(c) \/ Release(c) \/ AbortFloor(c)
      PROVE  FloorInv'
  BY <1>4, TabSaved, TabRemoved, BillInserted, TabMarked, StatusSetByHand, TableSaved, TableReleased, FloorAborted
<1> QED
  BY <1>1, <1>2, <1>3, <1>4 DEF FloorNext

(* Types; handlers that nobody came between know their tab and table; inserts have their ids to themselves; *)
(* and every table that is not muddled is as the floor plan says: in every state of the tables and tabs. *)
THEOREM FloorInvariant == FloorSpec => []FloorInv
<1>1. FloorInit => FloorInv
  BY FloorInitial
<1>2. FloorInv /\ [FloorNext]_floorVars => FloorInv'
  BY FloorStep
<1> QED
  BY <1>1, <1>2, PTL DEF FloorSpec

LEMMA OneAtMost == \A S : (\A x, y \in S : x = y) => Cardinality(S) <= 1
<1> SUFFICES ASSUME NEW S, \A x, y \in S : x = y PROVE Cardinality(S) <= 1
  OBVIOUS
<1>1. CASE S = {}
  <2>1. Cardinality({}) = 0
    BY FS_EmptySet
  <2> QED
    BY <1>1, <2>1
<1>2. CASE S # {}
  <2>1. PICK x \in S : TRUE
    BY <1>2
  <2>2. S = {x}
    BY <2>1
  <2>3. Cardinality({x}) = 1
    BY FS_Singleton
  <2> QED
    BY <2>2, <2>3
<1> QED
  BY <1>1, <1>2

LEMMA FloorImplies == FloorInv => FloorTypeOK /\ FloorPlan
<1> SUFFICES ASSUME FloorInv PROVE FloorTypeOK /\ FloorPlan
  OBVIOUS
<1>1. ASSUME NEW t \in FloorTables \ muddled
      PROVE  /\ Cardinality(SittingAt(t)) <= 1
             /\ SittingAt(t) # {} => tableStatus[t] = "occupied" \/ BeingTaken(t)
             /\ tableStatus[t] = "occupied" => SittingAt(t) # {}
  <2>1. PlanAt(t, tableStatus, floorTabs, BeingTaken(t))
    BY DEF FloorInv
  <2>2. \A i, j \in SittingAt(t) : i = j
    BY <2>1 DEF PlanAt, SittingAt
  <2> QED
    BY <2>1, <2>2, OneAtMost DEF PlanAt, SittingAt
<1> QED
  BY <1>1 DEF FloorInv, FloorPlan

(* The variables of Floor have their types in every state. *)
THEOREM FloorTypeCorrect == FloorSpec => []FloorTypeOK
  BY FloorInvariant, FloorImplies, PTL

(* A table is marked occupied exactly while one party sits at it, in every state of the specification and for *)
(* any number of tables, tabs and overlapping handlers, outside the ways that `muddled` records. *)
THEOREM FloorPlanAlways == FloorSpec => []FloorPlan
  BY FloorInvariant, FloorImplies, PTL

---------------------------------------------------------------------------
(* Who serves an ended tab again. *)

EndedStatus(st) == st \in {"paid", "voided", "removed"}

(* The handlers of which old reads do. *)
OldReaderOf(i) ==
  \E c \in FloorCalls : /\ floorCalls[c].stale /\ floorCalls[c].tab = i
                        /\ floorCalls[c].pc \in {"save", "markBilled", "reopen"}

(* The statement leaves the tab's status, writes a tab that was not there, ends it, or is of old reads. *)
LEMMA RowKeepsEnd ==
  ASSUME FloorInv, NEW i \in FloorTabs, NEW j \in FloorTabs, NEW row, floorTabs' = [floorTabs EXCEPT ![j] = row],
         \/ row.status = floorTabs[j].status \/ floorTabs[j].status \notin {"paid", "voided", "removed"}
         \/ row.status \notin LiveStatus \/ OldReaderOf(j),
         EndedStatus(floorTabs[i].status), floorTabs'[i].status \in LiveStatus
  PROVE  OldReaderOf(i)
<1>1. floorTabs'[j] = row /\ \A k \in FloorTabs \ {j} : floorTabs'[k] = floorTabs[k]
  BY DEF FloorInv, FloorTypeOK
<1>2. i = j
  BY <1>1 DEF EndedStatus, LiveStatus
<1> QED
  BY <1>1, <1>2 DEF EndedStatus, LiveStatus

LEMMA StatusKeepsEnd ==
  ASSUME FloorInv, NEW i \in FloorTabs, NEW j \in FloorTabs, NEW st \in FloorTabStatus, floorTabs' = SetTab(j, st),
         st \notin LiveStatus \/ ~EndedStatus(floorTabs[j].status) \/ OldReaderOf(j),
         EndedStatus(floorTabs[i].status), floorTabs'[i].status \in LiveStatus
  PROVE  OldReaderOf(i)
<1>1. PICK row \in FloorTabRow :
        /\ SetTab(j, st) = [floorTabs EXCEPT ![j] = row]
        /\ row.status = (IF floorTabs[j].status = "removed" THEN "removed" ELSE st)
  BY TabStatusSet
<1>2. floorTabs' = [floorTabs EXCEPT ![j] = row]
  BY <1>1
<1>3. \/ row.status = floorTabs[j].status \/ floorTabs[j].status \notin {"paid", "voided", "removed"}
      \/ row.status \notin LiveStatus \/ OldReaderOf(j)
  BY <1>1 DEF EndedStatus, LiveStatus
<1> QED
  BY <1>2, <1>3, RowKeepsEnd

LEMMA OpeningsKeepEnds ==
  ASSUME FloorInv, NEW c \in FloorCalls, OpenTab(c) \/ GuestInsert(c) \/ SeatParty(c),
         NEW i \in FloorTabs, EndedStatus(floorTabs[i].status), floorTabs'[i].status \in LiveStatus
  PROVE  OldReaderOf(i)
<1>1. PICK j \in FloorTabs : floorTabs[j].status = "none" /\ \E row : floorTabs' = [floorTabs EXCEPT ![j] = row]
  <2>1. CASE SeatParty(c)
    BY <2>1 DEF SeatParty, WriteFloor, Unused
  <2>2. CASE OpenTab(c) \/ GuestInsert(c)
    <3>1. floorCalls[c].pc \in Inserting
      BY <2>2 DEF OpenTab, GuestInsert, Inserting
    <3>2. floorCalls[c].tab \in FloorTabs /\ floorTabs[floorCalls[c].tab].status = "none"
      BY <3>1 DEF FloorInv, InsertsAlone, FloorCallSound, OnATab
    <3>3. \E row : floorTabs' = [floorTabs EXCEPT ![floorCalls[c].tab] = row]
      BY <2>2 DEF OpenTab, GuestInsert, WriteFloor
    <3> QED
      BY <3>2, <3>3
  <2> QED
    BY <2>1, <2>2
<1>2. PICK row : floorTabs' = [floorTabs EXCEPT ![j] = row]
  BY <1>1
<1> QED
  BY <1>1, <1>2, RowKeepsEnd

LEMMA EndingsKeepEnds ==
  ASSUME FloorInv, NEW c \in FloorCalls, EndTab(c) \/ RemoveTab(c) \/ Release(c),
         NEW i \in FloorTabs, EndedStatus(floorTabs[i].status), floorTabs'[i].status \in LiveStatus
  PROVE  OldReaderOf(i)
<1>1. CASE EndTab(c)
  <2>1. floorCalls[c].pc \in {"merge", "void", "close", "settle"}
    BY <1>1 DEF EndTab, Ending
  <2>2. PICK j \in FloorTabs : j = floorCalls[c].tab
    BY <2>1 DEF FloorInv, FloorCallSound, OnATab
  <2>3. PICK e \in {"voided", "paid"} : e = Ending[floorCalls[c].pc]
    BY <2>1 DEF Ending
  <2>4. PICK ended \in [FloorTabs -> FloorTabRow] :
          /\ ended = SetTab(j, e)
          /\ \A k \in FloorTabs \ {j} : ended[k] = floorTabs[k]
          /\ ended[j].status = (IF floorTabs[j].status = "removed" THEN "removed" ELSE e)
    <3>1. PICK row \in FloorTabRow :
            /\ SetTab(j, e) = [floorTabs EXCEPT ![j] = row]
            /\ row.status = (IF floorTabs[j].status = "removed" THEN "removed" ELSE e)
      BY TabStatusSet DEF FloorTabStatus
    <3> QED
      BY <3>1 DEF FloorInv, FloorTypeOK
  <2>5. floorTabs' = IF floorCalls[c].pc = "settle" THEN [ended EXCEPT ![j].bill = "paid"] ELSE ended
    BY <1>1, <2>2, <2>3, <2>4 DEF EndTab, WriteFloor
  <2>6. PICK row \in FloorTabRow : row = ended[j]
    OBVIOUS
  <2>7. PICK paid : paid = [row EXCEPT !.bill = "paid"]
    OBVIOUS
  <2>8. paid.status = row.status
    BY <2>7 DEF FloorTabRow
  <2>9. floorTabs'[i].status = ended[i].status
    BY <2>5, <2>6, <2>7, <2>8
  <2> QED
    BY <2>4, <2>9 DEF EndedStatus, LiveStatus
<1>2. CASE RemoveTab(c)
  <2>1. floorCalls[c].tab \in FloorTabs /\ floorTabs' = SetTab(floorCalls[c].tab, "removed")
    BY <1>2 DEF RemoveTab, WriteFloor, FloorInv, FloorCallSound, OnATab
  <2> QED
    BY <2>1, StatusKeepsEnd DEF FloorTabStatus, LiveStatus
<1>3. CASE Release(c)
  <2>1. floorCalls[c].tab \in FloorTabs \cup {NoTab}
    BY DEF FloorInv, FloorTypeOK, FloorCall
  <2>2. floorTabs' = IF floorCalls[c].tab = NoTab THEN floorTabs ELSE SetTab(floorCalls[c].tab, "voided")
    BY <1>3 DEF Release, WriteFloor
  <2>3. floorTabs' # floorTabs
    BY DEF EndedStatus, LiveStatus
  <2> QED
    BY <2>1, <2>2, <2>3, StatusKeepsEnd DEF FloorTabStatus, LiveStatus
<1> QED
  BY <1>1, <1>2, <1>3

LEMMA EditsKeepEnds ==
  ASSUME FloorInv, NEW c \in FloorCalls,
         Transfer(c) \/ SaveTab(c) \/ InsertBill(c) \/ MarkBilled(c) \/ FloorReopenTab(c),
         NEW i \in FloorTabs, EndedStatus(floorTabs[i].status), floorTabs'[i].status \in LiveStatus
  PROVE  OldReaderOf(i)
<1>1. PICK q \in FloorCall : q = floorCalls[c] /\ FloorCallSound(q, tableStatus, floorTabs)
  BY CallNow
<1>2. q.pc \in {"transfer", "save", "insertBill", "markBilled", "reopen"}
  BY <1>1 DEF Transfer, SaveTab, InsertBill, MarkBilled, FloorReopenTab
<1>3. PICK j \in FloorTabs : j = q.tab
  BY <1>1, <1>2 DEF FloorCallSound, OnATab
<1>4. PICK old \in FloorTabRow : old = floorTabs[j]
  BY DEF FloorInv, FloorTypeOK
<1>5. CASE Transfer(c)
  <2>1. PICK row : row = [old EXCEPT !.table = q.table]
    OBVIOUS
  <2>2. row.status = old.status
    BY <2>1 DEF FloorTabRow
  <2>3. floorTabs' = [floorTabs EXCEPT ![j].table = q.table]
    BY <1>1, <1>3, <1>5 DEF Transfer, WriteFloor
  <2>4. floorTabs' = [floorTabs EXCEPT ![j] = row]
    BY <1>4, <2>1, <2>3 DEF FloorInv, FloorTypeOK
  <2> QED
    BY <1>4, <2>2, <2>4, RowKeepsEnd
<1>6. CASE InsertBill(c)
  <2>1. PICK bill : bill = IF old.bill = "none" THEN "unpaid" ELSE old.bill
    OBVIOUS
  <2>2. PICK row : row = [old EXCEPT !.bill = bill]
    OBVIOUS
  <2>3. row.status = old.status
    BY <2>2 DEF FloorTabRow
  <2>4. floorTabs' = [floorTabs EXCEPT ![j].bill = IF @ = "none" THEN "unpaid" ELSE @]
    BY <1>1, <1>3, <1>6 DEF InsertBill, WriteFloor
  <2>5. floorTabs' = [floorTabs EXCEPT ![j] = row]
    BY <1>4, <2>1, <2>2, <2>4 DEF FloorInv, FloorTypeOK
  <2> QED
    BY <1>4, <2>3, <2>5, RowKeepsEnd
<1>7. CASE SaveTab(c)
  <2>1. PICK read \in FloorTabRow : read = q.row
    BY DEF FloorCall
  <2>2. PICK row : row = [read EXCEPT !.bill = old.bill]
    OBVIOUS
  <2>3. row.status = read.status
    BY <2>2 DEF FloorTabRow
  <2>4. floorTabs' = [floorTabs EXCEPT ![j] = row] /\ q.pc = "save"
    BY <1>1, <1>3, <1>4, <1>7, <2>1, <2>2 DEF SaveTab, WriteFloor, SavedRow
  <2>5. row.status = floorTabs[j].status \/ OldReaderOf(j)
    BY <1>1, <1>3, <2>1, <2>3, <2>4 DEF FloorCallSound, OldReaderOf
  <2> QED
    BY <2>4, <2>5, RowKeepsEnd
<1>8. CASE MarkBilled(c) \/ FloorReopenTab(c)
  <2>1. q.pc \in {"markBilled", "reopen"}
    BY <1>1, <1>8 DEF MarkBilled, FloorReopenTab
  <2>2. PICK st \in {"billed", "open"} : floorTabs' = SetTab(j, st)
    BY <1>1, <1>3, <1>8 DEF MarkBilled, FloorReopenTab, WriteFloor
  <2>3. ~EndedStatus(floorTabs[j].status) \/ OldReaderOf(j)
    BY <1>1, <1>3, <2>1 DEF FloorCallSound, OldReaderOf, EndedStatus, LiveStatus
  <2> QED
    BY <2>2, <2>3, StatusKeepsEnd DEF FloorTabStatus
<1> QED
  BY <1>5, <1>6, <1>7, <1>8

LEMMA OthersKeepRows ==
  ASSUME NEW c \in FloorCalls,
         \/ BeginOpenTab(c) \/ BeginGuestTab(c) \/ BeginTransfer(c) \/ BeginUpdateTable(c) \/ BeginRelease(c)
         \/ BeginMerge(c) \/ BeginVoid(c) \/ BeginCloseTab(c) \/ BeginSettle(c)
         \/ BeginUpdateTab(c) \/ BeginRemoveTab(c) \/ BeginGenerateBill(c) \/ BeginNewRound(c)
         \/ GuestOccupy(c) \/ SettleLost(c) \/ SetTableStatus(c) \/ SaveTable(c) \/ AbortFloor(c)
  PROVE  floorTabs' = floorTabs
<1>1. CASE \/ BeginOpenTab(c) \/ BeginGuestTab(c) \/ BeginTransfer(c) \/ BeginUpdateTable(c) \/ BeginRelease(c)
  BY <1>1 DEF BeginOpenTab, BeginGuestTab, BeginTransfer, BeginUpdateTable, BeginRelease, BeginFloor
<1>2. CASE \/ BeginMerge(c) \/ BeginVoid(c) \/ BeginCloseTab(c) \/ BeginSettle(c)
           \/ BeginUpdateTab(c) \/ BeginRemoveTab(c) \/ BeginGenerateBill(c) \/ BeginNewRound(c)
  BY <1>2 DEF BeginMerge, BeginVoid, BeginCloseTab, BeginSettle, BeginUpdateTab, BeginRemoveTab, BeginGenerateBill,
              BeginNewRound, BeginOnTab, BeginFloor
<1>3. CASE \/ GuestOccupy(c) \/ SettleLost(c) \/ SetTableStatus(c) \/ SaveTable(c) \/ AbortFloor(c)
  BY <1>3 DEF GuestOccupy, SettleLost, SetTableStatus, SaveTable, AbortFloor, WriteFloor
<1> QED
  BY <1>1, <1>2, <1>3

LEMMA ReviveStep ==
  ASSUME FloorInv, [FloorNext]_floorVars,
         NEW i \in FloorTabs, EndedStatus(floorTabs[i].status), floorTabs'[i].status \in LiveStatus
  PROVE  OldReaderOf(i)
<1>1. floorTabs' # floorTabs
  BY DEF EndedStatus, LiveStatus
<1>2. PICK c \in FloorCalls :
        \/ OpenTab(c) \/ GuestInsert(c) \/ SeatParty(c) \/ EndTab(c) \/ RemoveTab(c) \/ Release(c)
        \/ Transfer(c) \/ SaveTab(c) \/ InsertBill(c) \/ MarkBilled(c) \/ FloorReopenTab(c)
  <2>1. FloorNext
    BY <1>1 DEF floorVars
  <2> QED
    BY <1>1, <2>1, OthersKeepRows DEF FloorNext
<1> QED
  BY <1>2, OpeningsKeepEnds, EndingsKeepEnds, EditsKeepEnds

(* A tab that was paid, voided or removed is served again only by an update, a bill's mark or a reopening that *)
(* had read it before that. *)
THEOREM EndedStaysEndedAlways == FloorSpec => EndedStaysEnded
<1>1. FloorInv /\ [FloorNext]_floorVars =>
        [ \A i \in FloorTabs :
            floorTabs[i].status \in {"paid", "voided", "removed"} /\ floorTabs'[i].status \in {"open", "billed"} =>
              \E c \in FloorCalls : /\ floorCalls[c].stale
                                    /\ floorCalls[c].tab = i
                                    /\ floorCalls[c].pc \in {"save", "markBilled", "reopen"} ]_floorVars
  BY ReviveStep DEF EndedStatus, LiveStatus, OldReaderOf
<1> QED
  BY <1>1, FloorInvariant, PTL DEF FloorSpec, EndedStaysEnded

---------------------------------------------------------------------------
(***************************************************************************)
(* Shifts.  Without a crossed opening any two shifts are apart: one was     *)
(* closed, and whoever still closes it again stopped its clock, no later    *)
(* than the other was opened.  And what a close counted stays all there is  *)
(* of its hours, but for the payments recorded as late and its last hour.   *)
(***************************************************************************)

ClosingAShift == {"count", "signOut", "save"}

(* What a shift expects is committed in its hours; what is missing is late, or of the hour it closed. *)
DrawerCounted(row) ==
  /\ \A p \in row.expected : /\ cash[p].status = "committed"
                             /\ row.opened <= cash[p].at /\ cash[p].at <= row.closed
  /\ \A p \in CashPayments \ row.expected :
       cash[p].status # "none" /\ row.opened <= cash[p].at /\ cash[p].at <= row.closed =>
         p \in lateCash \/ cash[p].at = row.closed

(* What a handler knows of its shift, and of the others while nobody wrote one. *)
ShiftCallSound(c) ==
  LET call == shiftCalls[c]
  IN /\ call.pc = "insert" =>
          /\ call.shift \in ShiftIds /\ shifts[call.shift].status = "none"
          /\ call.row.status = "open" /\ call.row.expected = {}
          /\ \A d \in ShiftCalls : shiftCalls[d].shift = call.shift => d = c
     /\ call.pc = "insert" /\ ~call.stale =>
          /\ \A s \in ShiftIds : /\ shifts[s].status # "open"
                                 /\ shifts[s].status = "closed" => shifts[s].closed <= call.row.opened
          /\ \A d \in ShiftCalls : shiftCalls[d].pc \in ClosingAShift => shiftCalls[d].row.closed <= call.row.opened
     /\ call.pc \in ClosingAShift =>
          /\ call.shift \in ShiftIds /\ shifts[call.shift].status # "none"
          /\ call.row.status = "closed" /\ call.row.opened = shifts[call.shift].opened
          /\ call.row.closed <= hour
     /\ call.pc \in {"signOut", "save"} => DrawerCounted(call.row)

ShiftRowSound(s) ==
  /\ shifts[s].status = "closed" => shifts[s].closed <= hour /\ DrawerCounted(shifts[s])
  /\ shifts[s].status # "closed" => shifts[s].expected = {}

(* s was closed, in every copy of its closing, before r was opened. *)
ClosedBefore(s, r) ==
  /\ shifts[s].status = "closed" /\ shifts[s].closed <= shifts[r].opened
  /\ \A c \in ShiftCalls : shiftCalls[c].pc \in ClosingAShift /\ shiftCalls[c].shift = s =>
       shiftCalls[c].row.closed <= shifts[r].opened

ShiftsApart ==
  \A s, r \in ShiftIds : s # r /\ shifts[s].status # "none" /\ shifts[r].status # "none" =>
    ClosedBefore(s, r) \/ ClosedBefore(r, s)

ShiftInv ==
  /\ ShiftTypeOK
  /\ \A c \in ShiftCalls : ShiftCallSound(c)
  /\ \A s \in ShiftIds : ShiftRowSound(s)
  /\ ~crossed => ShiftsApart

ShiftCallRow == [pc: {"idle", "insert", "count", "signOut", "save"}, shift: ShiftIds \cup {NoShift}, row: ShiftRow,
                 stale: BOOLEAN]

---------------------------------------------------------------------------
LEMMA HoursAreNaturals == Hours \subseteq Nat /\ 0 \in Hours
  BY ShiftAssumption DEF Hours

LEMMA IdleShiftTyped ==
  /\ NoShiftRow \in ShiftRow /\ NoShiftRow.status = "none" /\ NoShiftRow.expected = {}
  /\ IdleShiftCall \in ShiftCallRow /\ IdleShiftCall.pc = "idle" /\ IdleShiftCall.shift = NoShift
<1>1. NoShiftRow \in ShiftRow /\ NoShiftRow.status = "none" /\ NoShiftRow.expected = {}
  BY HoursAreNaturals DEF NoShiftRow, ShiftRow
<1>2. PICK b \in BOOLEAN : b = FALSE
  OBVIOUS
<1>3. IdleShiftCall = [pc |-> "idle", shift |-> NoShift, row |-> NoShiftRow, stale |-> b]
  BY <1>2 DEF IdleShiftCall
<1>4. IdleShiftCall \in ShiftCallRow /\ IdleShiftCall.pc = "idle" /\ IdleShiftCall.shift = NoShift
  BY <1>1, <1>3 DEF ShiftCallRow
<1> QED
  BY <1>1, <1>4

LEMMA ShiftTypes ==
  ShiftTypeOK <=> /\ shifts \in [ShiftIds -> ShiftRow]
                  /\ cash \in [CashPayments -> [status: {"none", "stamped", "committed"}, at: Hours]]
                  /\ hour \in Hours
                  /\ shiftCalls \in [ShiftCalls -> ShiftCallRow]
                  /\ tokenVersion \in Nat
                  /\ crossed \in BOOLEAN
                  /\ lateCash \subseteq CashPayments
  BY DEF ShiftTypeOK, ShiftCallRow

LEMMA ShiftInitial == ShiftInit => ShiftInv
<1> SUFFICES ASSUME ShiftInit PROVE ShiftInv
  OBVIOUS
<1>1. /\ shifts = [s \in ShiftIds |-> NoShiftRow] /\ cash = [p \in CashPayments |-> [status |-> "none", at |-> 0]]
      /\ hour = 0 /\ shiftCalls = [c \in ShiftCalls |-> IdleShiftCall] /\ tokenVersion = 0 /\ crossed = FALSE
      /\ lateCash = {}
  BY DEF ShiftInit
<1>2. ShiftTypeOK
  <2>1. shifts \in [ShiftIds -> ShiftRow] /\ shiftCalls \in [ShiftCalls -> ShiftCallRow]
    BY <1>1, IdleShiftTyped
  <2>2. cash \in [CashPayments -> [status: {"none", "stamped", "committed"}, at: Hours]] /\ hour \in Hours
    BY <1>1, HoursAreNaturals
  <2>3. crossed \in BOOLEAN
    BY <1>1
  <2> QED
    BY <1>1, <2>1, <2>2, <2>3, ShiftTypes
<1>3. /\ \A c \in ShiftCalls : shiftCalls[c].pc = "idle"
      /\ \A s \in ShiftIds : shifts[s].status = "none" /\ shifts[s].expected = {}
  BY <1>1, IdleShiftTyped
<1>4. \A c \in ShiftCalls : ShiftCallSound(c)
  BY <1>3 DEF ShiftCallSound, ClosingAShift
<1>5. \A s \in ShiftIds : ShiftRowSound(s)
  BY <1>3 DEF ShiftRowSound
<1>6. ShiftsApart
  BY <1>3 DEF ShiftsApart
<1> QED
  BY <1>2, <1>4, <1>5, <1>6 DEF ShiftInv

---------------------------------------------------------------------------
(* A handler looks, counts, signs out or stops: no row changes. *)
LEMMA ShiftCallBecomes ==
  ASSUME ShiftInv, NEW c \in ShiftCalls, NEW call \in ShiftCallRow, SetCall(c, call),
         UNCHANGED <<shifts, cash, hour, crossed>>, tokenVersion' \in Nat,
         lateCash \subseteq lateCash', lateCash' \subseteq CashPayments,
         call.pc = "insert" =>
           /\ call.shift \in ShiftIds /\ shifts[call.shift].status = "none"
           /\ call.row.status = "open" /\ call.row.expected = {}
           /\ \A d \in ShiftCalls : shiftCalls[d].shift # call.shift
           /\ \A s \in ShiftIds : /\ shifts[s].status # "open"
                                  /\ shifts[s].status = "closed" => shifts[s].closed <= call.row.opened
           /\ \A d \in ShiftCalls : shiftCalls[d].pc \in ClosingAShift => shiftCalls[d].row.closed <= call.row.opened,
         call.pc \in ClosingAShift =>
           /\ call.shift \in ShiftIds /\ shifts[call.shift].status # "none"
           /\ call.row.status = "closed" /\ call.row.opened = shifts[call.shift].opened
           /\ call.row.closed <= hour
           /\ \/ shifts[call.shift].status = "open"
              \/ /\ shiftCalls[c].pc \in ClosingAShift /\ shiftCalls[c].shift = call.shift
                 /\ shiftCalls[c].row.closed = call.row.closed,
         call.pc \in {"signOut", "save"} => DrawerCounted(call.row)',
         call.pc = "idle" => call = IdleShiftCall
  PROVE  ShiftInv'
<1>1. /\ shiftCalls' \in [ShiftCalls -> ShiftCallRow] /\ shiftCalls'[c] = call
      /\ \A d \in ShiftCalls \ {c} : shiftCalls'[d] = shiftCalls[d]
  BY ShiftTypes DEF ShiftInv, SetCall
<1>2. ShiftTypeOK'
  BY <1>1, ShiftTypes DEF ShiftInv, ShiftTypeOK, ShiftCallRow
<1>3. ASSUME NEW row, DrawerCounted(row) PROVE DrawerCounted(row)'
  BY <1>3 DEF DrawerCounted
<1>4. \A s \in ShiftIds : ShiftRowSound(s)'
  BY <1>3 DEF ShiftInv, ShiftRowSound
<1>5. ASSUME NEW d \in ShiftCalls, shiftCalls'[d].pc \in ClosingAShift
      PROVE  \/ shiftCalls[d].pc \in ClosingAShift /\ shiftCalls[d].shift = shiftCalls'[d].shift
                /\ shiftCalls[d].row.closed = shiftCalls'[d].row.closed
             \/ shiftCalls'[d].shift \in ShiftIds /\ shifts[shiftCalls'[d].shift].status = "open"
  BY <1>1, <1>5
<1>6. ASSUME NEW d \in ShiftCalls PROVE ShiftCallSound(d)'
  <2>1. CASE d = c
    <3>1. \A e \in ShiftCalls : call.pc = "insert" /\ shiftCalls'[e].shift = call.shift => e = c
      BY <1>1
    <3>2. call.pc = "insert" =>
            \A e \in ShiftCalls : shiftCalls'[e].pc \in ClosingAShift => shiftCalls'[e].row.closed <= call.row.opened
      BY <1>1 DEF ClosingAShift
    <3> QED
      BY <1>1, <2>1, <3>1, <3>2 DEF ShiftCallSound
  <2>2. CASE d # c
    <3>1. ShiftCallSound(d) /\ shiftCalls'[d] = shiftCalls[d]
      BY <1>1, <2>2 DEF ShiftInv
    <3>2. shiftCalls[d].pc = "insert" => \A e \in ShiftCalls : shiftCalls'[e].shift = shiftCalls[d].shift => e = d
      <4> SUFFICES ASSUME shiftCalls[d].pc = "insert", call.shift = shiftCalls[d].shift PROVE FALSE
        BY <1>1, <3>1 DEF ShiftCallSound
      <4>1. shiftCalls[d].shift \in ShiftIds /\ shifts[shiftCalls[d].shift].status = "none"
        BY <3>1 DEF ShiftCallSound
      <4>2. call.pc # "idle"
        BY <4>1, IdleShiftTyped, ShiftAssumption
      <4>3. call.pc = "insert" \/ call.pc \in ClosingAShift
        BY <4>2 DEF ShiftCallRow, ClosingAShift
      <4> QED
        BY <4>1, <4>3
    <3>3. shiftCalls[d].pc = "insert" /\ ~shiftCalls[d].stale =>
            \A e \in ShiftCalls : shiftCalls'[e].pc \in ClosingAShift =>
              shiftCalls'[e].row.closed <= shiftCalls[d].row.opened
      BY <1>5, <3>1 DEF ShiftCallSound
    <3>4. PICK x : x = shiftCalls[d].row /\ (shiftCalls[d].pc \in {"signOut", "save"} => DrawerCounted(x)')
      BY <1>3, <3>1 DEF ShiftCallSound
    <3> QED
      BY <3>1, <3>2, <3>3, <3>4 DEF ShiftCallSound, DrawerCounted
  <2> QED
    BY <2>1, <2>2
<1>7. ~crossed' => ShiftsApart'
  <2> SUFFICES ASSUME ~crossed, NEW s \in ShiftIds, NEW r \in ShiftIds, ClosedBefore(s, r)
               PROVE  ClosedBefore(s, r)'
    BY DEF ShiftInv, ShiftsApart
  <2> QED
    BY <1>5 DEF ClosedBefore
<1> QED
  BY <1>2, <1>4, <1>6, <1>7 DEF ShiftInv

LEMMA OpeningLooks == ASSUME ShiftInv, NEW c \in ShiftCalls, BeginOpenShift(c) PROVE ShiftInv'
<1>1. PICK s \in ShiftIds :
        /\ OpenShifts = {} /\ shifts[s].status = "none"
        /\ \A d \in ShiftCalls : shiftCalls[d].shift # s
        /\ SetCall(c, [pc |-> "insert", shift |-> s, stale |-> FALSE,
                       row |-> [status |-> "open", opened |-> hour, closed |-> 0, expected |-> {}]])
        /\ UNCHANGED <<shifts, cash, hour, tokenVersion, crossed, lateCash>>
  BY DEF BeginOpenShift, MayOpen
<1>2. PICK now \in Hours : now = hour
  BY DEF ShiftInv, ShiftTypeOK
<1>3. PICK row : row = [status |-> "open", opened |-> now, closed |-> 0, expected |-> {}]
  OBVIOUS
<1>4. row \in ShiftRow /\ row.status = "open" /\ row.opened = now /\ row.expected = {}
  BY <1>3, HoursAreNaturals DEF ShiftRow
<1>5. PICK b \in BOOLEAN : b = FALSE
  OBVIOUS
<1>6. PICK call : call = [pc |-> "insert", shift |-> s, stale |-> b, row |-> row]
  OBVIOUS
<1>7. call \in ShiftCallRow /\ call.pc = "insert" /\ call.shift = s /\ call.row = row
  BY <1>4, <1>6 DEF ShiftCallRow
<1>8. SetCall(c, call)
  BY <1>1, <1>2, <1>3, <1>5, <1>6
<1>9. \A r \in ShiftIds : /\ shifts[r].status # "open"
                          /\ shifts[r].status = "closed" => shifts[r].closed <= row.opened
  BY <1>1, <1>2, <1>4 DEF OpenShifts, ShiftInv, ShiftRowSound
<1>10. \A d \in ShiftCalls : shiftCalls[d].pc \in ClosingAShift => shiftCalls[d].row.closed <= row.opened
  BY <1>2, <1>4 DEF ShiftInv, ShiftCallSound
<1>11. tokenVersion' \in Nat /\ lateCash' \subseteq CashPayments
  BY <1>1 DEF ShiftInv, ShiftTypeOK
<1> QED
  BY <1>1, <1>4, <1>7, <1>8, <1>9, <1>10, <1>11, ShiftCallBecomes DEF ClosingAShift

LEMMA ClosingLooks == ASSUME ShiftInv, NEW c \in ShiftCalls, BeginCloseShift(c) PROVE ShiftInv'
<1>1. PICK s \in ShiftIds :
        /\ shifts[s].status = "open"
        /\ SetCall(c, [pc |-> "count", shift |-> s, stale |-> FALSE,
                       row |-> [shifts[s] EXCEPT !.status = "closed", !.closed = hour]])
        /\ UNCHANGED <<shifts, cash, hour, tokenVersion, crossed, lateCash>>
  BY DEF BeginCloseShift, OpenShifts
<1>2. PICK now \in Hours : now = hour
  BY DEF ShiftInv, ShiftTypeOK
<1>3. PICK old \in ShiftRow : old = shifts[s]
  BY DEF ShiftInv, ShiftTypeOK
<1>4. PICK row : row = [old EXCEPT !.status = "closed", !.closed = now]
  OBVIOUS
<1>5. row \in ShiftRow /\ row.status = "closed" /\ row.opened = old.opened /\ row.closed = now
  BY <1>4 DEF ShiftRow
<1>6. PICK b \in BOOLEAN : b = FALSE
  OBVIOUS
<1>7. PICK call : call = [pc |-> "count", shift |-> s, stale |-> b, row |-> row]
  OBVIOUS
<1>8. call \in ShiftCallRow /\ call.pc = "count" /\ call.shift = s /\ call.row = row
  BY <1>5, <1>7 DEF ShiftCallRow
<1>9. SetCall(c, call)
  BY <1>1, <1>2, <1>3, <1>4, <1>6, <1>7
<1>10. tokenVersion' \in Nat /\ lateCash' \subseteq CashPayments
  BY <1>1 DEF ShiftInv, ShiftTypeOK
<1>11. now <= hour
  BY <1>2, HoursAreNaturals
<1> QED
  BY <1>1, <1>3, <1>5, <1>8, <1>9, <1>10, <1>11, ShiftCallBecomes DEF ClosingAShift

LEMMA CashCounted == ASSUME ShiftInv, NEW c \in ShiftCalls, CountCash(c) PROVE ShiftInv'
<1>1. PICK q \in ShiftCallRow : q = shiftCalls[c]
  BY ShiftTypes DEF ShiftInv
<1>2. PICK old \in ShiftRow : old = q.row
  BY DEF ShiftCallRow
<1>3. /\ q.pc = "count"
      /\ SetCall(c, [q EXCEPT !.pc = "signOut", !.row.expected = CashBetween(old.opened, old.closed)])
      /\ lateCash' = lateCash \cup { p \in CashPayments : cash[p].status = "stamped" /\ cash[p].at <= old.closed }
      /\ UNCHANGED <<shifts, cash, hour, tokenVersion, crossed>>
  BY <1>1, <1>2 DEF CountCash
<1>4. PICK found \in SUBSET CashPayments :
        found = { p \in CashPayments : cash[p].status = "committed" /\ cash[p].at >= old.opened /\ cash[p].at <= old.closed }
  OBVIOUS
<1>5. PICK row : row = [old EXCEPT !.expected = found]
  OBVIOUS
<1>6. row \in ShiftRow /\ row.status = old.status /\ row.opened = old.opened /\ row.closed = old.closed /\ row.expected = found
  BY <1>5 DEF ShiftRow
<1>7. PICK call : call = [q EXCEPT !.pc = "signOut", !.row = row]
  OBVIOUS
<1>8. call \in ShiftCallRow /\ call.pc = "signOut" /\ call.shift = q.shift /\ call.row = row
  BY <1>6, <1>7 DEF ShiftCallRow
<1>9. SetCall(c, call)
  <2>1. CashBetween(old.opened, old.closed) = found
    BY <1>4 DEF CashBetween
  <2>2. [q EXCEPT !.pc = "signOut", !.row.expected = found] = call
    BY <1>2, <1>5, <1>7 DEF ShiftCallRow
  <2> QED
    BY <1>3, <2>1, <2>2
<1>10. /\ q.shift \in ShiftIds /\ shifts[q.shift].status # "none"
       /\ old.status = "closed" /\ old.opened = shifts[q.shift].opened /\ old.closed <= hour
  BY <1>1, <1>2, <1>3 DEF ShiftInv, ShiftCallSound, ClosingAShift
<1>11. \A p \in CashPayments : cash[p].status \in {"none", "stamped", "committed"} /\ cash[p].at \in Nat
  BY HoursAreNaturals DEF ShiftInv, ShiftTypeOK
<1>12. old.opened \in Nat /\ old.closed \in Nat
  BY HoursAreNaturals DEF ShiftRow
<1>13. DrawerCounted(row)'
  <2>1. \A p \in row.expected : /\ cash'[p].status = "committed"
                                /\ row.opened <= cash'[p].at /\ cash'[p].at <= row.closed
    BY <1>3, <1>4, <1>6, <1>11, <1>12
  <2>2. ASSUME NEW p \in CashPayments \ row.expected, cash'[p].status # "none",
               row.opened <= cash'[p].at, cash'[p].at <= row.closed
        PROVE  p \in lateCash'
    BY <1>3, <1>4, <1>6, <1>11, <1>12, <2>2
  <2> QED
    BY <2>1, <2>2 DEF DrawerCounted
<1>14. lateCash' \subseteq CashPayments /\ lateCash \subseteq lateCash' /\ tokenVersion' \in Nat
  BY <1>3 DEF ShiftInv, ShiftTypeOK
<1> QED
  BY <1>1, <1>2, <1>3, <1>6, <1>8, <1>9, <1>10, <1>13, <1>14, ShiftCallBecomes DEF ClosingAShift

LEMMA StaffSignedOut == ASSUME ShiftInv, NEW c \in ShiftCalls, SignStaffOut(c) PROVE ShiftInv'
<1>1. PICK q \in ShiftCallRow : q = shiftCalls[c]
  BY ShiftTypes DEF ShiftInv
<1>2. PICK call : call = [q EXCEPT !.pc = "save"]
  OBVIOUS
<1>3. call \in ShiftCallRow /\ call.pc = "save" /\ call.shift = q.shift /\ call.row = q.row
  BY <1>2 DEF ShiftCallRow
<1>4. /\ q.pc = "signOut" /\ SetCall(c, call) /\ tokenVersion' \in Nat
      /\ UNCHANGED <<shifts, cash, hour, crossed, lateCash>>
  BY <1>1, <1>2 DEF SignStaffOut, ShiftInv, ShiftTypeOK
<1>5. /\ q.shift \in ShiftIds /\ shifts[q.shift].status # "none"
      /\ q.row.status = "closed" /\ q.row.opened = shifts[q.shift].opened /\ q.row.closed <= hour
      /\ DrawerCounted(q.row)
  BY <1>1, <1>4 DEF ShiftInv, ShiftCallSound, ClosingAShift
<1>6. DrawerCounted(call.row)'
  BY <1>3, <1>4, <1>5 DEF DrawerCounted
<1>7. lateCash' \subseteq CashPayments
  BY <1>4 DEF ShiftInv, ShiftTypeOK
<1> QED
  BY <1>1, <1>3, <1>4, <1>5, <1>6, <1>7, ShiftCallBecomes DEF ClosingAShift

LEMMA ShiftAborted == ASSUME ShiftInv, NEW c \in ShiftCalls, AbortShift(c) PROVE ShiftInv'
<1>1. SetCall(c, IdleShiftCall) /\ UNCHANGED <<shifts, cash, hour, tokenVersion, crossed, lateCash>>
  BY DEF AbortShift
<1>2. tokenVersion' \in Nat /\ lateCash' \subseteq CashPayments
  BY <1>1 DEF ShiftInv, ShiftTypeOK
<1> QED
  BY <1>1, <1>2, IdleShiftTyped, ShiftCallBecomes DEF ClosingAShift

---------------------------------------------------------------------------
(* A row is written: what the others read is old. *)
LEMMA OthersGoStale ==
  ASSUME ShiftInv, NEW c \in ShiftCalls, WriteShift(c), shiftCalls[c].shift \in ShiftIds
  PROVE  /\ shifts' \in [ShiftIds -> ShiftRow] /\ shifts'[shiftCalls[c].shift] = shiftCalls[c].row
         /\ \A s \in ShiftIds \ {shiftCalls[c].shift} : shifts'[s] = shifts[s]
         /\ shiftCalls' \in [ShiftCalls -> ShiftCallRow] /\ shiftCalls'[c] = IdleShiftCall
         /\ \A d \in ShiftCalls \ {c} :
              /\ shiftCalls'[d].pc = shiftCalls[d].pc /\ shiftCalls'[d].shift = shiftCalls[d].shift
              /\ shiftCalls'[d].row = shiftCalls[d].row
              /\ shiftCalls'[d].pc = "insert" => shiftCalls'[d].stale
<1>1. /\ shifts' = [shifts EXCEPT ![shiftCalls[c].shift] = shiftCalls[c].row]
      /\ shiftCalls' = [d \in ShiftCalls |->
           IF d = c THEN IdleShiftCall ELSE [shiftCalls[d] EXCEPT !.stale = shiftCalls[d] # IdleShiftCall]]
  BY DEF WriteShift
<1>2. shiftCalls[c].row \in ShiftRow
  BY ShiftTypes DEF ShiftInv, ShiftCallRow
<1>3. /\ shifts' \in [ShiftIds -> ShiftRow] /\ shifts'[shiftCalls[c].shift] = shiftCalls[c].row
      /\ \A s \in ShiftIds \ {shiftCalls[c].shift} : shifts'[s] = shifts[s]
  BY <1>1, <1>2 DEF ShiftInv, ShiftTypeOK
<1>4. ASSUME NEW d \in ShiftCalls \ {c}
      PROVE  /\ shiftCalls'[d] \in ShiftCallRow
             /\ shiftCalls'[d].pc = shiftCalls[d].pc /\ shiftCalls'[d].shift = shiftCalls[d].shift
             /\ shiftCalls'[d].row = shiftCalls[d].row
             /\ shiftCalls'[d].pc = "insert" => shiftCalls'[d].stale
  <2>1. PICK x \in ShiftCallRow : x = shiftCalls[d]
    BY ShiftTypes DEF ShiftInv
  <2>2. PICK b \in BOOLEAN : b <=> x # IdleShiftCall
    OBVIOUS
  <2>3. PICK y : y = [x EXCEPT !.stale = b]
    OBVIOUS
  <2>4. y \in ShiftCallRow /\ y.pc = x.pc /\ y.shift = x.shift /\ y.row = x.row /\ y.stale = b
    BY <2>3 DEF ShiftCallRow
  <2>5. shiftCalls'[d] = y
    BY <1>1, <2>1, <2>2, <2>3
  <2>6. x.pc = "insert" => b
    BY <2>2, IdleShiftTyped
  <2> QED
    BY <2>1, <2>4, <2>5, <2>6
<1>5. shiftCalls' \in [ShiftCalls -> ShiftCallRow] /\ shiftCalls'[c] = IdleShiftCall
  BY <1>1, <1>4, IdleShiftTyped
<1> QED
  BY <1>3, <1>4, <1>5

LEMMA ShiftInserted == ASSUME ShiftInv, NEW c \in ShiftCalls, InsertShift(c) PROVE ShiftInv'
<1>1. PICK s, row, b : s = shiftCalls[c].shift /\ row = shiftCalls[c].row /\ b = shiftCalls[c].stale
  OBVIOUS
<1>2. /\ shiftCalls[c].pc = "insert" /\ WriteShift(c) /\ crossed' = (crossed \/ b)
      /\ UNCHANGED <<cash, hour, tokenVersion, lateCash>>
  BY <1>1 DEF InsertShift
<1>3. /\ s \in ShiftIds /\ shifts[s].status = "none" /\ row.status = "open" /\ row.expected = {}
      /\ \A d \in ShiftCalls : shiftCalls[d].shift = s => d = c
      /\ ~b => /\ \A r \in ShiftIds : shifts[r].status # "open"
                                      /\ (shifts[r].status = "closed" => shifts[r].closed <= row.opened)
               /\ \A d \in ShiftCalls : shiftCalls[d].pc \in ClosingAShift => shiftCalls[d].row.closed <= row.opened
  BY <1>1, <1>2 DEF ShiftInv, ShiftCallSound
<1>4. /\ shifts' \in [ShiftIds -> ShiftRow] /\ shifts'[s] = row
      /\ \A r \in ShiftIds \ {s} : shifts'[r] = shifts[r]
      /\ shiftCalls' \in [ShiftCalls -> ShiftCallRow] /\ shiftCalls'[c] = IdleShiftCall
      /\ \A d \in ShiftCalls \ {c} :
           /\ shiftCalls'[d].pc = shiftCalls[d].pc /\ shiftCalls'[d].shift = shiftCalls[d].shift
           /\ shiftCalls'[d].row = shiftCalls[d].row
           /\ shiftCalls'[d].pc = "insert" => shiftCalls'[d].stale
  BY <1>1, <1>2, <1>3, OthersGoStale
<1>5. crossed \in BOOLEAN /\ b \in BOOLEAN
  BY <1>1, ShiftTypes DEF ShiftInv, ShiftCallRow
<1>6. ShiftTypeOK'
  BY <1>2, <1>4, <1>5, ShiftTypes DEF ShiftInv, ShiftTypeOK, ShiftCallRow
<1>7. ASSUME NEW x, DrawerCounted(x) PROVE DrawerCounted(x)'
  BY <1>2, <1>7 DEF DrawerCounted
<1>8. \A r \in ShiftIds : ShiftRowSound(r)'
  BY <1>2, <1>3, <1>4, <1>7 DEF ShiftInv, ShiftRowSound
<1>9. ASSUME NEW d \in ShiftCalls PROVE ShiftCallSound(d)'
  <2>1. CASE d = c
    BY <1>4, <2>1, IdleShiftTyped DEF ShiftCallSound, ClosingAShift
  <2>2. CASE d # c
    <3>1. ShiftCallSound(d) /\ shiftCalls[d].shift # s
      BY <1>3, <2>2 DEF ShiftInv
    <3>2. shiftCalls[d].pc = "insert" => \A e \in ShiftCalls : shiftCalls'[e].shift = shiftCalls[d].shift => e = d
      BY <1>4, <3>1, IdleShiftTyped, ShiftAssumption DEF ShiftCallSound
    <3>3. PICK x : x = shiftCalls[d].row /\ (shiftCalls[d].pc \in {"signOut", "save"} => DrawerCounted(x)')
      BY <1>7, <3>1 DEF ShiftCallSound
    <3> QED
      BY <1>2, <1>4, <2>2, <3>1, <3>2, <3>3 DEF ShiftCallSound, DrawerCounted
  <2> QED
    BY <2>1, <2>2
<1>10. ASSUME ~crossed' PROVE ShiftsApart'
  <2>1. ~crossed /\ ~b
    BY <1>2, <1>10
  <2>2. ASSUME NEW r \in ShiftIds, r # s, shifts'[r].status # "none" PROVE ClosedBefore(r, s)'
    <3>1. shifts'[r] = shifts[r] /\ shifts[r].status = "closed" /\ shifts[r].closed <= row.opened
      BY <1>3, <1>4, <2>1, <2>2 DEF ShiftInv, ShiftTypeOK, ShiftRow
    <3>2. \A d \in ShiftCalls : shiftCalls'[d].pc \in ClosingAShift => shiftCalls'[d].row.closed <= row.opened
      BY <1>3, <1>4, <2>1, IdleShiftTyped DEF ClosingAShift
    <3> QED
      BY <1>4, <3>1, <3>2 DEF ClosedBefore
  <2>3. ASSUME NEW r \in ShiftIds \ {s}, NEW t \in ShiftIds \ {s}, ClosedBefore(r, t) PROVE ClosedBefore(r, t)'
    BY <1>4, <2>3, IdleShiftTyped DEF ClosedBefore, ClosingAShift
  <2>4. ASSUME NEW r \in ShiftIds, NEW t \in ShiftIds, r # t, shifts'[r].status # "none", shifts'[t].status # "none"
        PROVE  ClosedBefore(r, t)' \/ ClosedBefore(t, r)'
    <3>1. CASE r = s \/ t = s
      BY <2>2, <2>4, <3>1
    <3>2. CASE r # s /\ t # s
      BY <1>4, <2>1, <2>3, <2>4, <3>2 DEF ShiftInv, ShiftsApart
    <3> QED
      BY <3>1, <3>2
  <2> QED
    BY <2>4 DEF ShiftsApart
<1> QED
  BY <1>6, <1>8, <1>9, <1>10 DEF ShiftInv

LEMMA ClosedSaved == ASSUME ShiftInv, NEW c \in ShiftCalls, SaveClosed(c) PROVE ShiftInv'
<1>1. PICK s, row : s = shiftCalls[c].shift /\ row = shiftCalls[c].row
  OBVIOUS
<1>2. /\ shiftCalls[c].pc = "save" /\ WriteShift(c)
      /\ UNCHANGED <<cash, hour, tokenVersion, crossed, lateCash>>
  BY <1>1 DEF SaveClosed
<1>3. /\ s \in ShiftIds /\ shifts[s].status # "none" /\ row.status = "closed" /\ row.opened = shifts[s].opened
      /\ row.closed <= hour /\ DrawerCounted(row)
  BY <1>1, <1>2 DEF ShiftInv, ShiftCallSound, ClosingAShift
<1>4. /\ shifts' \in [ShiftIds -> ShiftRow] /\ shifts'[s] = row
      /\ \A r \in ShiftIds \ {s} : shifts'[r] = shifts[r]
      /\ shiftCalls' \in [ShiftCalls -> ShiftCallRow] /\ shiftCalls'[c] = IdleShiftCall
      /\ \A d \in ShiftCalls \ {c} :
           /\ shiftCalls'[d].pc = shiftCalls[d].pc /\ shiftCalls'[d].shift = shiftCalls[d].shift
           /\ shiftCalls'[d].row = shiftCalls[d].row
           /\ shiftCalls'[d].pc = "insert" => shiftCalls'[d].stale
  BY <1>1, <1>2, <1>3, OthersGoStale
<1>5. ShiftTypeOK'
  BY <1>2, <1>4, ShiftTypes DEF ShiftInv, ShiftTypeOK, ShiftCallRow
<1>6. ASSUME NEW x, DrawerCounted(x) PROVE DrawerCounted(x)'
  BY <1>2, <1>6 DEF DrawerCounted
<1>7. \A r \in ShiftIds : ShiftRowSound(r)'
  <2>1. DrawerCounted(row)'
    BY <1>3, <1>6
  <2> QED
    BY <1>2, <1>3, <1>4, <1>6, <2>1 DEF ShiftInv, ShiftRowSound, DrawerCounted
<1>8. ASSUME NEW d \in ShiftCalls PROVE ShiftCallSound(d)'
  <2>1. CASE d = c
    BY <1>4, <2>1, IdleShiftTyped DEF ShiftCallSound, ClosingAShift
  <2>2. CASE d # c
    <3>1. ShiftCallSound(d)
      BY DEF ShiftInv
    <3>2. shiftCalls[d].pc = "insert" => shiftCalls[d].shift # s
      BY <1>3, <3>1 DEF ShiftCallSound
    <3>3. shiftCalls[d].pc = "insert" => \A e \in ShiftCalls : shiftCalls'[e].shift = shiftCalls[d].shift => e = d
      BY <1>4, <3>1, IdleShiftTyped, ShiftAssumption DEF ShiftCallSound
    <3>4. PICK x : x = shiftCalls[d].row /\ (shiftCalls[d].pc \in {"signOut", "save"} => DrawerCounted(x)')
      BY <1>6, <3>1 DEF ShiftCallSound
    <3>5. shiftCalls[d].pc \in ClosingAShift =>
            shifts'[shiftCalls[d].shift].status # "none" /\ shifts'[shiftCalls[d].shift].opened = shifts[shiftCalls[d].shift].opened
      BY <1>3, <1>4, <3>1 DEF ShiftCallSound
    <3> QED
      BY <1>2, <1>4, <2>2, <3>1, <3>2, <3>3, <3>4, <3>5 DEF ShiftCallSound, DrawerCounted
  <2> QED
    BY <2>1, <2>2
<1>9. ASSUME ~crossed' PROVE ShiftsApart'
  <2>1. ASSUME NEW r \in ShiftIds, NEW t \in ShiftIds, r # t, ClosedBefore(r, t) PROVE ClosedBefore(r, t)'
    <3>1. r = s => row.closed <= shifts[t].opened
      BY <1>1, <1>2, <2>1 DEF ClosedBefore, ClosingAShift
    <3>2. shifts'[t].opened = shifts[t].opened
      BY <1>3, <1>4
    <3>3. shifts'[r].status = "closed" /\ shifts'[r].closed <= shifts'[t].opened
      BY <1>3, <1>4, <2>1, <3>1, <3>2 DEF ClosedBefore
    <3>4. \A d \in ShiftCalls : shiftCalls'[d].pc \in ClosingAShift /\ shiftCalls'[d].shift = r =>
            shiftCalls'[d].row.closed <= shifts'[t].opened
      BY <1>4, <2>1, <3>2, IdleShiftTyped DEF ClosedBefore, ClosingAShift
    <3> QED
      BY <3>3, <3>4 DEF ClosedBefore
  <2>2. \A r \in ShiftIds : shifts'[r].status # "none" => shifts[r].status # "none"
    BY <1>3, <1>4
  <2> QED
    BY <1>2, <1>9, <2>1, <2>2 DEF ShiftInv, ShiftsApart
<1> QED
  BY <1>5, <1>7, <1>8, <1>9 DEF ShiftInv

---------------------------------------------------------------------------
(* Payments and time: the rows and the calls stay. *)
LEMMA CashMoves ==
  ASSUME ShiftInv, UNCHANGED <<shifts, shiftCalls, tokenVersion, crossed>>, ShiftTypeOK', hour <= hour',
         \A row \in ShiftRow : row.closed <= hour /\ DrawerCounted(row) => DrawerCounted(row)'
  PROVE  ShiftInv'
<1>1. hour \in Nat /\ hour' \in Nat /\ \A row \in ShiftRow : row.closed \in Nat
  BY HoursAreNaturals DEF ShiftInv, ShiftTypeOK, ShiftRow
<1>2. \A s \in ShiftIds : shifts[s] \in ShiftRow
  BY DEF ShiftInv, ShiftTypeOK
<1>3. \A c \in ShiftCalls : shiftCalls[c].row \in ShiftRow
  BY ShiftTypes DEF ShiftInv, ShiftCallRow
<1>4. \A s \in ShiftIds : ShiftRowSound(s)'
  <2> SUFFICES ASSUME NEW s \in ShiftIds PROVE ShiftRowSound(s)'
    OBVIOUS
  <2>1. ShiftRowSound(s)
    BY DEF ShiftInv
  <2>2. shifts[s].status = "closed" => DrawerCounted(shifts[s])'
    <3> SUFFICES ASSUME shifts[s].status = "closed" PROVE DrawerCounted(shifts[s])'
      OBVIOUS
    <3>1. PICK row \in ShiftRow : row = shifts[s]
      BY <1>2
    <3>2. DrawerCounted(row)'
      BY <2>1, <3>1 DEF ShiftRowSound
    <3> QED
      BY <3>1, <3>2 DEF DrawerCounted
  <2>3. shifts[s].status = "closed" => shifts[s].closed <= hour'
    BY <1>1, <1>2, <2>1 DEF ShiftRowSound
  <2> QED
    BY <2>1, <2>2, <2>3 DEF ShiftRowSound
<1>5. \A c \in ShiftCalls : ShiftCallSound(c)'
  <2> SUFFICES ASSUME NEW c \in ShiftCalls PROVE ShiftCallSound(c)'
    OBVIOUS
  <2>1. ShiftCallSound(c)
    BY DEF ShiftInv
  <2>2. shiftCalls[c].pc \in {"signOut", "save"} => DrawerCounted(shiftCalls[c].row)'
    <3> SUFFICES ASSUME shiftCalls[c].pc \in {"signOut", "save"} PROVE DrawerCounted(shiftCalls[c].row)'
      OBVIOUS
    <3>1. PICK row \in ShiftRow : row = shiftCalls[c].row
      BY <1>3
    <3>2. DrawerCounted(row)'
      BY <2>1, <3>1 DEF ShiftCallSound, ClosingAShift
    <3> QED
      BY <3>1, <3>2 DEF DrawerCounted
  <2>3. shiftCalls[c].pc \in ClosingAShift => shiftCalls[c].row.closed <= hour'
    BY <1>1, <1>3, <2>1 DEF ShiftCallSound
  <2> QED
    BY <2>1, <2>2, <2>3 DEF ShiftCallSound
<1>6. ~crossed' => ShiftsApart'
  BY DEF ShiftInv, ShiftsApart, ClosedBefore
<1> QED
  BY <1>4, <1>5, <1>6 DEF ShiftInv

LEMMA CashStamped == ASSUME ShiftInv, StampCash PROVE ShiftInv'
<1>1. PICK p \in CashPayments :
        /\ cash[p].status = "none"
        /\ cash' = [cash EXCEPT ![p] = [status |-> "stamped", at |-> hour]]
        /\ UNCHANGED <<shifts, hour, shiftCalls, tokenVersion, crossed, lateCash>>
  BY DEF StampCash
<1>2. /\ cash' \in [CashPayments -> [status: {"none", "stamped", "committed"}, at: Hours]]
      /\ cash'[p].status = "stamped" /\ cash'[p].at = hour
      /\ \A r \in CashPayments \ {p} : cash'[r] = cash[r]
  BY <1>1 DEF ShiftInv, ShiftTypeOK
<1>3. ShiftTypeOK'
  BY <1>1, <1>2 DEF ShiftInv, ShiftTypeOK
<1>4. hour \in Nat /\ hour <= hour' /\ \A row \in ShiftRow : row.closed \in Nat /\ row.expected \subseteq CashPayments
  <2>1. hour \in Nat /\ hour <= hour'
    BY <1>1, HoursAreNaturals DEF ShiftInv, ShiftTypeOK
  <2>2. \A row \in ShiftRow : row.closed \in Nat /\ row.expected \subseteq CashPayments
    BY HoursAreNaturals DEF ShiftRow
  <2> QED
    BY <2>1, <2>2
<1>5. ASSUME NEW row \in ShiftRow, row.closed <= hour, DrawerCounted(row) PROVE DrawerCounted(row)'
  <2>1. p \notin row.expected
    BY <1>1, <1>5 DEF DrawerCounted
  <2>2. hour <= row.closed => hour = row.closed
    BY <1>4, <1>5
  <2> QED
    BY <1>1, <1>2, <1>4, <1>5, <2>1, <2>2 DEF DrawerCounted
<1> QED
  BY <1>1, <1>3, <1>4, <1>5, CashMoves

LEMMA CashSettled == ASSUME ShiftInv, CommitCash PROVE ShiftInv'
<1>1. PICK p \in CashPayments, s \in {"committed", "none"} :
        /\ cash[p].status = "stamped"
        /\ cash' = [cash EXCEPT ![p] = [status |-> s, at |-> IF s = "none" THEN 0 ELSE @.at]]
        /\ lateCash' = IF s = "none" THEN lateCash \ {p} ELSE lateCash
        /\ UNCHANGED <<shifts, hour, shiftCalls, tokenVersion, crossed>>
  BY DEF CommitCash
<1>2. PICK at \in Hours : at = IF s = "none" THEN 0 ELSE cash[p].at
  BY HoursAreNaturals DEF ShiftInv, ShiftTypeOK
<1>3. /\ cash' \in [CashPayments -> [status: {"none", "stamped", "committed"}, at: Hours]]
      /\ cash'[p].status = s /\ cash'[p].at = at
      /\ \A r \in CashPayments \ {p} : cash'[r] = cash[r]
  BY <1>1, <1>2 DEF ShiftInv, ShiftTypeOK
<1>4. lateCash' \subseteq CashPayments /\ lateCash \ {p} \subseteq lateCash' /\ (s # "none" => lateCash' = lateCash)
  BY <1>1 DEF ShiftInv, ShiftTypeOK
<1>5. ShiftTypeOK'
  BY <1>1, <1>3, <1>4 DEF ShiftInv, ShiftTypeOK
<1>6. hour <= hour' /\ \A row \in ShiftRow : row.expected \subseteq CashPayments
  BY <1>1, HoursAreNaturals DEF ShiftInv, ShiftTypeOK, ShiftRow
<1>7. ASSUME NEW row \in ShiftRow, DrawerCounted(row) PROVE DrawerCounted(row)'
  <2>1. p \notin row.expected
    BY <1>1, <1>7 DEF DrawerCounted
  <2>2. \A r \in row.expected : cash'[r] = cash[r]
    BY <1>3, <1>6, <2>1
  <2>3. ASSUME NEW r \in CashPayments \ row.expected, cash'[r].status # "none",
               row.opened <= cash'[r].at, cash'[r].at <= row.closed
        PROVE  r \in lateCash' \/ cash'[r].at = row.closed
    <3>1. CASE r = p
      <4>1. s = "committed" /\ cash'[r].at = cash[r].at
        BY <1>2, <1>3, <2>3, <3>1
      <4> QED
        BY <1>1, <1>4, <1>7, <2>3, <3>1, <4>1 DEF DrawerCounted
    <3>2. CASE r # p
      BY <1>3, <1>4, <1>7, <2>3, <3>2 DEF DrawerCounted
    <3> QED
      BY <3>1, <3>2
  <2> QED
    BY <1>7, <2>2, <2>3 DEF DrawerCounted
<1> QED
  BY <1>1, <1>5, <1>6, <1>7, CashMoves

LEMMA HourPassed == ASSUME ShiftInv, HourPasses PROVE ShiftInv'
<1>1. hour < LastHour /\ hour' = hour + 1 /\ UNCHANGED <<shifts, cash, shiftCalls, tokenVersion, crossed, lateCash>>
  BY DEF HourPasses
<1>2. hour' \in Hours /\ hour <= hour'
  BY <1>1, ShiftAssumption DEF ShiftInv, ShiftTypeOK, Hours
<1>3. ShiftTypeOK'
  BY <1>1, <1>2 DEF ShiftInv, ShiftTypeOK
<1>4. ASSUME NEW row \in ShiftRow, DrawerCounted(row) PROVE DrawerCounted(row)'
  BY <1>1, <1>4 DEF DrawerCounted
<1> QED
  BY <1>1, <1>2, <1>3, <1>4, CashMoves

LEMMA ShiftsRest == ASSUME ShiftInv, UNCHANGED shiftVars PROVE ShiftInv'
<1>1. UNCHANGED <<shifts, cash, hour, shiftCalls, tokenVersion, crossed, lateCash>>
  BY DEF shiftVars
<1>2. ShiftTypeOK' /\ hour <= hour'
  BY <1>1, HoursAreNaturals DEF ShiftInv, ShiftTypeOK
<1>3. ASSUME NEW row \in ShiftRow, DrawerCounted(row) PROVE DrawerCounted(row)'
  BY <1>1, <1>3 DEF DrawerCounted
<1> QED
  BY <1>1, <1>2, <1>3, CashMoves

(* Types; handlers know their shifts; closed shifts are counted; and shifts are apart unless two openings *)
(* crossed: in every state of the shifts.                                                                 *)
THEOREM ShiftInvariant == ShiftSpec => []ShiftInv
<1>1. ShiftInit => ShiftInv
  BY ShiftInitial
<1>2. ShiftInv /\ [ShiftNext]_shiftVars => ShiftInv'
  BY OpeningLooks, ShiftInserted, ClosingLooks, CashCounted, StaffSignedOut, ClosedSaved, ShiftAborted,
     CashStamped, CashSettled, HourPassed, ShiftsRest DEF ShiftNext
<1> QED
  BY <1>1, <1>2, PTL DEF ShiftSpec

LEMMA OneShiftAtMost == \A S : (\A x, y \in S : x = y) => ~(Cardinality(S) > 1)
<1> SUFFICES ASSUME NEW S, \A x, y \in S : x = y PROVE ~(Cardinality(S) > 1)
  OBVIOUS
<1>1. CASE S = {}
  <2>1. Cardinality({}) = 0
    BY FS_EmptySet
  <2> QED
    BY <1>1, <2>1
<1>2. CASE S # {}
  <2>1. PICK x \in S : TRUE
    BY <1>2
  <2>2. S = {x}
    BY <2>1
  <2>3. Cardinality({x}) = 1
    BY FS_Singleton
  <2> QED
    BY <2>2, <2>3
<1> QED
  BY <1>1, <1>2

LEMMA ShiftImplies == ShiftInv => ShiftTypeOK /\ ShiftsAddUp
<1> SUFFICES ASSUME ShiftInv PROVE ShiftTypeOK /\ ShiftsAddUp
  OBVIOUS
<1>1. \A row \in ShiftRow : row.opened \in Nat /\ row.closed \in Nat /\ row.expected \subseteq CashPayments
  BY HoursAreNaturals DEF ShiftRow
<1>2. \A p \in CashPayments : cash[p].at \in Nat
  BY HoursAreNaturals DEF ShiftInv, ShiftTypeOK
<1>3. \A s \in ShiftIds : shifts[s] \in ShiftRow
  BY DEF ShiftInv, ShiftTypeOK
<1>4. OneOpenShift
  <2> SUFFICES ASSUME ~crossed PROVE ~(Cardinality(OpenShifts) > 1)
    BY DEF OneOpenShift
  <2>1. \A x, y \in OpenShifts : x = y
    BY DEF ShiftInv, ShiftsApart, ClosedBefore, OpenShifts
  <2> QED
    BY <2>1, OneShiftAtMost
<1>5. CashInDrawer
  <2> SUFFICES ASSUME NEW s \in ShiftIds, shifts[s].status = "closed"
               PROVE  /\ shifts[s].expected \subseteq ReportedCash(s)
                      /\ \A p \in ReportedCash(s) \ shifts[s].expected : p \in lateCash \/ cash[p].at = shifts[s].closed
    BY DEF CashInDrawer
  <2>1. DrawerCounted(shifts[s])
    BY DEF ShiftInv, ShiftRowSound
  <2>2. ReportedCash(s) =
          { p \in CashPayments : cash[p].status = "committed" /\ cash[p].at \in shifts[s].opened .. shifts[s].closed }
    BY DEF ReportedCash
  <2>3. shifts[s].expected \subseteq ReportedCash(s)
    BY <1>1, <1>2, <1>3, <2>1, <2>2 DEF DrawerCounted
  <2> QED
    BY <1>1, <1>2, <1>3, <2>1, <2>2, <2>3 DEF DrawerCounted
<1>6. CashInOneDrawer
  <2> SUFFICES ASSUME NEW s \in ShiftIds, NEW r \in ShiftIds, s # r, ~crossed,
                      NEW p \in shifts[s].expected \cap shifts[r].expected
               PROVE  cash[p].at \in {shifts[s].opened, shifts[r].opened}
    BY DEF CashInOneDrawer
  <2>1. shifts[s].status = "closed" /\ shifts[r].status = "closed"
    BY DEF ShiftInv, ShiftRowSound
  <2>2. DrawerCounted(shifts[s]) /\ DrawerCounted(shifts[r])
    BY <2>1 DEF ShiftInv, ShiftRowSound
  <2>3. /\ shifts[s].opened <= cash[p].at /\ cash[p].at <= shifts[s].closed
        /\ shifts[r].opened <= cash[p].at /\ cash[p].at <= shifts[r].closed
    BY <2>2 DEF DrawerCounted
  <2>4. shifts[s].closed <= shifts[r].opened \/ shifts[r].closed <= shifts[s].opened
    BY <2>1 DEF ShiftInv, ShiftsApart, ClosedBefore
  <2>5. p \in CashPayments
    BY <1>1, <1>3
  <2>6. /\ cash[p].at \in Nat /\ shifts[s].opened \in Nat /\ shifts[s].closed \in Nat
        /\ shifts[r].opened \in Nat /\ shifts[r].closed \in Nat
    BY <1>1, <1>2, <1>3, <2>5
  <2> QED
    BY <2>3, <2>4, <2>6
<1> QED
  BY <1>4, <1>5, <1>6 DEF ShiftInv, ShiftsAddUp

(* The variables of Shifts have their types in every state. *)
THEOREM ShiftTypeCorrect == ShiftSpec => []ShiftTypeOK
  BY ShiftInvariant, ShiftImplies, PTL

(* One shift is open at most, a closed one expects the cash of its hours, and no payment is expected twice, but *)
(* where openings crossed, payments came late, or two shifts met in one instant: for any number of shifts,      *)
(* payments and overlapping handlers.                                                                           *)
THEOREM ShiftsAddUpAlways == ShiftSpec => []ShiftsAddUp
  BY ShiftInvariant, ShiftImplies, PTL

---------------------------------------------------------------------------
(***************************************************************************)
(* The offline queue applies an operation once, proved for any number of   *)
(* keys, devices and repetitions.                                           *)
(*                                                                         *)
(* What makes the promise inductive: a key no two calls crossed on is in    *)
(* one call's hands at most, it is not processed while it is there, and it  *)
(* has not taken effect but for the bill whose mark is still to come; an    *)
(* operation that leaves nothing to do again has nothing to do once it took *)
(* effect, until somebody undoes it.                                        *)
(***************************************************************************)

SyncCall == [at: {"idle", "insert", "replay", "mark"}, todo: SUBSET SyncKeys]

IdleHasNothing == \A c \in SyncCalls : At(c, "idle") <=> syncCalls[c].todo = {}

OneHolder ==
  \A c, d \in SyncCalls : c # d => syncCalls[c].todo \cap syncCalls[d].todo \subseteq tangled

HeldIsOpen ==
  \A c \in SyncCalls : \A k \in syncCalls[c].todo \ tangled :
    entries[k] # "processed" /\ ((At(c, "mark") /\ k = AtHand(c)) \/ applied[k] = 0)

Replayed(k) == applied[k] > 0 \/ k \in nothingDone

MarkedWasApplied ==
  \A c \in SyncCalls :
    At(c, "mark") => Replayed(AtHand(c)) /\ (AtHand(c) \notin tangled => applied[AtHand(c)] <= 1)

EntryAgrees ==
  \A k \in SyncKeys :
    /\ entries[k] = "processed" => Replayed(k)
    /\ k \notin tangled /\ (\A c \in SyncCalls : At(c, "mark") => k # AtHand(c)) =>
         applied[k] <= IF entries[k] = "processed" THEN 1 ELSE 0

QueueInv ==
  /\ SyncTypeOK /\ IdleHasNothing /\ OneHolder /\ HeldIsOpen /\ MarkedWasApplied
  /\ EntryAgrees

SpentOnce ==
  \A k \in OnceKeys \ renewed : applied[k] = 0 \/ (applied[k] = 1 /\ k \notin workable)

SyncInv == QueueInv /\ SpentOnce

---------------------------------------------------------------------------
(* A call that is not idle has a key in hand. *)
LEMMA HasAKey ==
  ASSUME SyncTypeOK, IdleHasNothing, NEW c \in SyncCalls, ~At(c, "idle")
  PROVE AtHand(c) \in syncCalls[c].todo /\ AtHand(c) \in SyncKeys
  BY DEF SyncTypeOK, IdleHasNothing, AtHand

(* What a call's move does to the calls, as the other lemmas use it. *)
LEMMA MovesKeeps ==
  ASSUME SyncTypeOK, IdleHasNothing, OneHolder,
         NEW c \in SyncCalls, NEW at \in {"insert", "replay", "mark"}, NEW todo \in SUBSET SyncKeys,
         Moves(c, at, todo)
  PROVE /\ syncCalls' \in [SyncCalls -> SyncCall]
        /\ syncCalls'[c].todo = todo
        /\ syncCalls'[c].at = IF todo = {} THEN "idle" ELSE at
        /\ \A d \in SyncCalls \ {c} : syncCalls'[d] = syncCalls[d]
        /\ tangled \subseteq tangled' /\ tangled' \subseteq SyncKeys
        /\ IdleHasNothing' /\ OneHolder'
        /\ \A d \in SyncCalls \ {c} : todo \cap syncCalls[d].todo \subseteq tangled'
<1>1. syncCalls \in [SyncCalls -> SyncCall]
  BY DEF SyncTypeOK, SyncCall
<1>2. /\ syncCalls' \in [SyncCalls -> SyncCall]
      /\ syncCalls'[c].todo = todo
      /\ syncCalls'[c].at = IF todo = {} THEN "idle" ELSE at
      /\ \A d \in SyncCalls \ {c} : syncCalls'[d] = syncCalls[d]
  BY <1>1 DEF Moves, CallAt, IdleSync, SyncCall
<1>3. tangled' = tangled \cup (todo \cap UNION { syncCalls[d].todo : d \in SyncCalls \ {c} })
  BY DEF Moves
<1>4. tangled \subseteq tangled' /\ tangled' \subseteq SyncKeys
  BY <1>3 DEF SyncTypeOK
<1>5. \A d \in SyncCalls \ {c} : todo \cap syncCalls[d].todo \subseteq tangled'
  BY <1>3
<1>6. IdleHasNothing'
  BY <1>2 DEF IdleHasNothing, At
<1>7. OneHolder'
  BY <1>2, <1>4, <1>5 DEF OneHolder
<1> QED
  BY <1>2, <1>4, <1>5, <1>6, <1>7

---------------------------------------------------------------------------
LEMMA SyncInitInv == SyncInit => QueueInv
  BY SyncAssumption DEF SyncInit, QueueInv, SyncTypeOK, IdleHasNothing, OneHolder, HeldIsOpen,
     MarkedWasApplied, EntryAgrees, Replayed, IdleSync, At, EntryStatus

(* A call that begins takes keys that are not processed; what it does not share with another is untouched. *)
LEMMA StepBeginsSync ==
  ASSUME QueueInv, NEW c \in SyncCalls, BeginSync(c),
         NEW at \in {"insert", "replay"}, NEW todo \in SUBSET SyncKeys, Moves(c, at, todo),
         \A k \in todo : entries[k] # "processed",
         UNCHANGED <<entries, workable, applied, nothingDone, renewed>>
  PROVE QueueInv'
<1>1. /\ syncCalls' \in [SyncCalls -> SyncCall]
      /\ syncCalls'[c].todo = todo
      /\ syncCalls'[c].at = IF todo = {} THEN "idle" ELSE at
      /\ \A d \in SyncCalls \ {c} : syncCalls'[d] = syncCalls[d]
      /\ tangled \subseteq tangled' /\ tangled' \subseteq SyncKeys
      /\ IdleHasNothing' /\ OneHolder'
      /\ \A d \in SyncCalls \ {c} : todo \cap syncCalls[d].todo \subseteq tangled'
  BY MovesKeeps DEF QueueInv
<1>2. SyncTypeOK'
  BY <1>1, SyncAssumption DEF QueueInv, SyncTypeOK, SyncCall, BeginSync
<1>3. ~At(c, "mark") /\ ~At(c, "mark")'
  BY <1>1 DEF BeginSync, At
<1>4. \A d \in SyncCalls : At(d, "mark")' <=> At(d, "mark")
  BY <1>1, <1>3 DEF At
<1>5. \A d \in SyncCalls \ {c} : AtHand(d)' = AtHand(d)
  BY <1>1 DEF AtHand
<1>6. \A d \in SyncCalls : At(d, "mark") => d # c
  BY <1>3
<1>7. MarkedWasApplied'
  BY <1>1, <1>4, <1>5, <1>6 DEF QueueInv, MarkedWasApplied, Replayed
<1>8. EntryAgrees'
  BY <1>1, <1>4, <1>5, <1>6 DEF QueueInv, EntryAgrees, Replayed
<1>9. HeldIsOpen'
  <2>1. ASSUME NEW k \in todo, k \notin tangled' PROVE applied[k] = 0
    <3>1. \A d \in SyncCalls : At(d, "mark") => k # AtHand(d)
      BY <1>1, <1>6, <2>1, HasAKey DEF QueueInv, At
    <3> QED
      BY <1>1, <2>1, <3>1 DEF QueueInv, EntryAgrees, SyncTypeOK
  <2>2. ASSUME NEW k \in syncCalls'[c].todo, k \notin tangled'
        PROVE entries'[k] # "processed" /\ applied'[k] = 0
    BY <1>1, <2>1, <2>2
  <2>3. ASSUME NEW d \in SyncCalls \ {c}, NEW k \in syncCalls'[d].todo, k \notin tangled'
        PROVE entries'[k] # "processed" /\ ((At(d, "mark")' /\ k = AtHand(d)') \/ applied'[k] = 0)
    BY <1>1, <1>4, <1>5, <2>3 DEF QueueInv, HeldIsOpen
  <2> QED
    BY <2>2, <2>3 DEF HeldIsOpen
<1> QED
  BY <1>1, <1>2, <1>7, <1>8, <1>9 DEF QueueInv

LEMMA StepQueues ==
  ASSUME QueueInv, NEW c \in SyncCalls, QueueOperation(c) \/ ReplayAll(c)
  PROVE QueueInv'
<1>1. CASE QueueOperation(c)
  BY <1>1, StepBeginsSync DEF QueueOperation, Answered
<1>2. CASE ReplayAll(c)
  BY <1>2, StepBeginsSync DEF ReplayAll
<1> QED
  BY <1>1, <1>2

---------------------------------------------------------------------------
(* A call goes on with one key it has: no other key changes. *)
LEMMA StepGoesOn ==
  ASSUME QueueInv, NEW c \in SyncCalls, ~At(c, "idle"), ~At(c, "mark"),
         NEW k \in syncCalls[c].todo,
         NEW at \in {"insert", "replay"}, NEW todo, todo \subseteq syncCalls[c].todo, Moves(c, at, todo),
         entries' \in [SyncKeys -> EntryStatus], applied' \in [SyncKeys -> 0 .. 2], UNCHANGED syncBegun,
         workable' \subseteq SyncKeys, renewed' = renewed,
         nothingDone \subseteq nothingDone', nothingDone' \subseteq SyncKeys,
         \A j \in SyncKeys \ {k} : entries'[j] = entries[j] /\ applied'[j] = applied[j],
         k \in todo => entries'[k] # "processed" /\ applied'[k] = applied[k],
         k \notin tangled => applied'[k] <= IF entries'[k] = "processed" THEN 1 ELSE 0,
         applied'[k] >= applied[k], entries'[k] = "processed" => Replayed(k)'
  PROVE QueueInv'
<1>1. /\ syncCalls' \in [SyncCalls -> SyncCall]
      /\ syncCalls'[c].todo = todo
      /\ syncCalls'[c].at = IF todo = {} THEN "idle" ELSE at
      /\ \A d \in SyncCalls \ {c} : syncCalls'[d] = syncCalls[d]
      /\ tangled \subseteq tangled' /\ tangled' \subseteq SyncKeys
      /\ IdleHasNothing' /\ OneHolder'
  BY MovesKeeps DEF QueueInv, SyncTypeOK
<1>2. k \in SyncKeys /\ entries \in [SyncKeys -> EntryStatus] /\ applied \in [SyncKeys -> 0 .. 2]
  BY DEF QueueInv, SyncTypeOK
<1>3. SyncTypeOK'
  BY <1>1, <1>2 DEF QueueInv, SyncTypeOK, SyncCall
<1>4. ~At(c, "mark")'
  BY <1>1 DEF At
<1>5. \A d \in SyncCalls : At(d, "mark")' <=> At(d, "mark")
  BY <1>1, <1>4 DEF At
<1>6. \A d \in SyncCalls : At(d, "mark") => d # c /\ AtHand(d)' = AtHand(d)
  BY <1>1 DEF AtHand
<1>7. \A d \in SyncCalls : At(d, "mark") => AtHand(d) \in SyncKeys /\ AtHand(d) \in syncCalls[d].todo
  BY HasAKey DEF QueueInv, At
<1>8. MarkedWasApplied'
  <2>1. ASSUME NEW d \in SyncCalls, At(d, "mark"), AtHand(d) = k PROVE k \in tangled
    BY <1>6, <1>7, <2>1 DEF QueueInv, OneHolder
  <2>2. ASSUME NEW d \in SyncCalls, At(d, "mark")
        PROVE /\ applied'[AtHand(d)] > 0 \/ AtHand(d) \in nothingDone'
              /\ AtHand(d) \notin tangled' => applied'[AtHand(d)] <= 1
    <3>1. Replayed(AtHand(d)) /\ (AtHand(d) \notin tangled => applied[AtHand(d)] <= 1)
      BY <2>2 DEF QueueInv, MarkedWasApplied
    <3>2. CASE AtHand(d) = k
      BY <1>1, <1>2, <2>1, <2>2, <3>1, <3>2 DEF Replayed
    <3>3. CASE AtHand(d) # k
      BY <1>1, <1>7, <2>2, <3>1, <3>3 DEF Replayed
    <3> QED
      BY <3>2, <3>3
  <2> QED
    BY <1>5, <1>6, <2>2 DEF MarkedWasApplied, Replayed
<1>9. HeldIsOpen'
  <2>1. ASSUME NEW j \in todo, j \notin tangled'
        PROVE entries'[j] # "processed" /\ applied'[j] = 0
    <3>1. j \in syncCalls[c].todo /\ j \in SyncKeys /\ j \notin tangled
      BY <1>1, <2>1 DEF QueueInv, SyncTypeOK
    <3> QED
      BY <2>1, <3>1 DEF QueueInv, HeldIsOpen
  <2>2. ASSUME NEW d \in SyncCalls \ {c}, NEW j \in syncCalls[d].todo, j \notin tangled'
        PROVE entries'[j] # "processed" /\ ((At(d, "mark")' /\ j = AtHand(d)') \/ applied'[j] = 0)
    <3>1. j # k /\ j \in SyncKeys /\ j \notin tangled
      BY <1>1, <2>2 DEF QueueInv, OneHolder, SyncTypeOK
    <3>2. entries[j] # "processed" /\ ((At(d, "mark") /\ j = AtHand(d)) \/ applied[j] = 0)
      BY <2>2, <3>1 DEF QueueInv, HeldIsOpen
    <3> QED
      BY <1>5, <1>6, <3>1, <3>2
  <2> QED
    BY <1>1, <2>1, <2>2 DEF HeldIsOpen
<1>10. EntryAgrees'
  <2>1. ASSUME NEW j \in SyncKeys PROVE entries'[j] = "processed" => Replayed(j)'
    <3>1. CASE j = k
      BY <3>1
    <3>2. CASE j # k
      BY <2>1, <3>2 DEF QueueInv, EntryAgrees, Replayed
    <3> QED
      BY <3>1, <3>2
  <2>2. ASSUME NEW j \in SyncKeys, j \notin tangled', \A d \in SyncCalls : At(d, "mark")' => j # AtHand(d)'
        PROVE applied'[j] <= IF entries'[j] = "processed" THEN 1 ELSE 0
    BY <1>1, <1>2, <1>5, <1>6, <2>2 DEF QueueInv, EntryAgrees
  <2> QED
    BY <2>1, <2>2 DEF EntryAgrees
<1> QED
  BY <1>1, <1>3, <1>8, <1>9, <1>10 DEF QueueInv

LEMMA StepReplays ==
  ASSUME QueueInv, NEW c \in SyncCalls, InsertEntry(c) \/ ReplayRow(c) \/ RefuseEntry(c)
  PROVE QueueInv'
<1>1. /\ entries \in [SyncKeys -> EntryStatus] /\ applied \in [SyncKeys -> 0 .. 2]
      /\ syncCalls[c].todo \subseteq SyncKeys
      /\ workable \subseteq SyncKeys /\ nothingDone \subseteq SyncKeys
  BY DEF QueueInv, SyncTypeOK
<1>2. \A k \in syncCalls[c].todo :
        ~At(c, "mark") /\ k \notin tangled => entries[k] # "processed" /\ applied[k] = 0
  BY DEF QueueInv, HeldIsOpen
<1>3. \A k \in SyncKeys : entries[k] = "processed" => Replayed(k)
  BY DEF QueueInv, EntryAgrees
<1>4. CASE InsertEntry(c)
  <2>1. PICK k \in syncCalls[c].todo :
          /\ entries' = IF entries[k] = "none" THEN [entries EXCEPT ![k] = "pending"] ELSE entries
          /\ IF entries[k] = "none" THEN Moves(c, "replay", {k}) ELSE Moves(c, "idle", {})
    BY <1>4 DEF InsertEntry
  <2>2. PICK todo \in SUBSET {k} : Moves(c, "replay", todo) /\ (entries[k] # "none" => todo = {})
    BY <2>1 DEF Moves, CallAt
  <2>3. entries' \in [SyncKeys -> EntryStatus] /\ \A j \in SyncKeys \ {k} : entries'[j] = entries[j]
    BY <1>1, <2>1 DEF EntryStatus
  <2>4. entries'[k] # "processed" \/ (todo = {} /\ entries'[k] = entries[k])
    BY <1>1, <2>1, <2>2
  <2>5. ~At(c, "idle") /\ ~At(c, "mark") /\ UNCHANGED <<workable, applied, syncBegun, nothingDone, renewed>>
    BY <1>4 DEF InsertEntry, At
  <2>6. /\ k \in todo => entries'[k] # "processed"
        /\ k \notin tangled => applied'[k] <= IF entries'[k] = "processed" THEN 1 ELSE 0
        /\ applied'[k] >= applied[k] /\ (entries'[k] = "processed" => Replayed(k)')
    BY <1>1, <1>2, <1>3, <2>4, <2>5 DEF Replayed
  <2>7. todo \subseteq syncCalls[c].todo
    OBVIOUS
  <2> QED
    BY <1>1, <2>2, <2>3, <2>5, <2>6, <2>7, StepGoesOn
<1>5. CASE ReplayRow(c) \/ RefuseEntry(c)
  <2>1. AtHand(c) \in syncCalls[c].todo /\ ~At(c, "idle") /\ ~At(c, "mark")
    BY <1>5, HasAKey DEF QueueInv, ReplayRow, RefuseEntry, At
  <2>2. PICK k \in syncCalls[c].todo : k = AtHand(c)
    BY <2>1
  <2>3. Moves(c, "replay", StillToDo(c)) /\ UNCHANGED <<syncBegun, renewed>>
    BY <1>5 DEF ReplayRow, RefuseEntry
  <2>4. k \notin StillToDo(c) /\ StillToDo(c) \subseteq syncCalls[c].todo
    BY <2>2 DEF StillToDo
  <2>5. /\ entries' \in [SyncKeys -> EntryStatus] /\ applied' \in [SyncKeys -> 0 .. 2]
        /\ \A j \in SyncKeys \ {k} : entries'[j] = entries[j] /\ applied'[j] = applied[j]
        /\ \/ /\ entries'[k] = "processed"
              /\ \/ applied'[k] = IF applied[k] = 0 THEN 1 ELSE 2
                 \/ applied'[k] = applied[k] /\ k \in nothingDone'
           \/ entries'[k] = "failed" /\ applied'[k] = applied[k]
        /\ workable' \subseteq SyncKeys
        /\ nothingDone \subseteq nothingDone' /\ nothingDone' \subseteq SyncKeys
    BY <1>1, <1>5, <2>2 DEF ReplayRow, RefuseEntry, TakesEffect, EntryStatus
  <2>6. /\ k \notin tangled => applied'[k] <= IF entries'[k] = "processed" THEN 1 ELSE 0
        /\ applied'[k] >= applied[k] /\ (entries'[k] = "processed" => Replayed(k)')
    BY <1>1, <1>2, <2>1, <2>5 DEF Replayed
  <2> QED
    BY <2>1, <2>3, <2>4, <2>5, <2>6, StepGoesOn
<1> QED
  BY <1>4, <1>5

---------------------------------------------------------------------------
(* A bill is paid by the billing service before its entry is marked. *)
LEMMA StepReplaysBill ==
  ASSUME QueueInv, NEW c \in SyncCalls, ReplayBill(c)
  PROVE QueueInv'
<1> DEFINE k == AtHand(c)
           todo == syncCalls[c].todo
<1>1. /\ At(c, "replay") /\ TakesEffect(k) /\ Moves(c, "mark", todo)
      /\ UNCHANGED <<entries, syncBegun, renewed>>
  BY DEF ReplayBill
<1>2. k \in todo /\ k \in SyncKeys /\ todo \subseteq SyncKeys
  BY <1>1, HasAKey DEF QueueInv, At, SyncTypeOK
<1>3. /\ syncCalls' \in [SyncCalls -> SyncCall] /\ syncCalls'[c].todo = todo /\ syncCalls'[c].at = "mark"
      /\ \A d \in SyncCalls \ {c} : syncCalls'[d] = syncCalls[d]
      /\ tangled \subseteq tangled' /\ tangled' \subseteq SyncKeys /\ IdleHasNothing' /\ OneHolder'
  BY <1>1, <1>2, MovesKeeps DEF QueueInv
<1>4. \A d \in SyncCalls : AtHand(d)' = AtHand(d)
  BY <1>3 DEF AtHand
<1>5. At(c, "mark")' /\ \A d \in SyncCalls \ {c} : At(d, "mark")' <=> At(d, "mark")
  BY <1>3 DEF At
<1>6. /\ applied \in [SyncKeys -> 0 .. 2] /\ workable \subseteq SyncKeys /\ nothingDone \subseteq SyncKeys
      /\ k \notin tangled => applied[k] = 0
  BY <1>1, <1>2 DEF QueueInv, SyncTypeOK, HeldIsOpen, At
<1>7. /\ applied' \in [SyncKeys -> 0 .. 2] /\ applied'[k] >= applied[k]
      /\ \A j \in SyncKeys \ {k} : applied'[j] = applied[j]
      /\ applied'[k] > 0 \/ k \in nothingDone'
      /\ k \notin tangled => applied'[k] <= 1
      /\ workable' \subseteq SyncKeys /\ nothingDone \subseteq nothingDone' /\ nothingDone' \subseteq SyncKeys
  BY <1>1, <1>2, <1>6 DEF TakesEffect
<1>8. SyncTypeOK'
  BY <1>1, <1>3, <1>7 DEF QueueInv, SyncTypeOK, SyncCall
<1>9. MarkedWasApplied'
  <2>1. \A d \in SyncCalls \ {c} : At(d, "mark") => AtHand(d) \in SyncKeys
    BY HasAKey DEF QueueInv, At
  <2> QED
    BY <1>3, <1>4, <1>5, <1>6, <1>7, <2>1 DEF QueueInv, MarkedWasApplied, Replayed
<1>10. HeldIsOpen'
  <2>1. ASSUME NEW j \in todo, j \notin tangled'
        PROVE entries'[j] # "processed" /\ (j = k \/ applied'[j] = 0)
    BY <1>1, <1>2, <1>3, <1>7, <2>1 DEF QueueInv, HeldIsOpen, At
  <2>2. ASSUME NEW d \in SyncCalls \ {c}, NEW j \in syncCalls[d].todo, j \notin tangled'
        PROVE entries'[j] # "processed" /\ ((At(d, "mark")' /\ j = AtHand(d)') \/ applied'[j] = 0)
    <3>1. j # k
      BY <1>2, <1>3, <2>2 DEF QueueInv, OneHolder
    <3>2. j \in SyncKeys
      BY <2>2 DEF QueueInv, SyncTypeOK
    <3> QED
      BY <1>1, <1>3, <1>4, <1>5, <1>7, <2>2, <3>1, <3>2 DEF QueueInv, HeldIsOpen
  <2> QED
    BY <1>3, <1>4, <1>5, <2>1, <2>2 DEF HeldIsOpen
<1>11. EntryAgrees'
  <2>1. ASSUME NEW j \in SyncKeys PROVE entries'[j] = "processed" => Replayed(j)'
    BY <1>1, <1>6, <1>7, <2>1 DEF QueueInv, EntryAgrees, Replayed
  <2>2. ASSUME NEW j \in SyncKeys, j \notin tangled', \A d \in SyncCalls : At(d, "mark")' => j # AtHand(d)'
        PROVE applied'[j] <= IF entries'[j] = "processed" THEN 1 ELSE 0
    <3>1. j # k
      BY <1>4, <1>5, <2>2
    <3>2. \A d \in SyncCalls : At(d, "mark") => j # AtHand(d)
      BY <1>1, <1>4, <1>5, <2>2 DEF At
    <3> QED
      BY <1>1, <1>3, <1>7, <2>2, <3>1, <3>2 DEF QueueInv, EntryAgrees
  <2> QED
    BY <2>1, <2>2 DEF EntryAgrees
<1> QED
  BY <1>3, <1>8, <1>9, <1>10, <1>11 DEF QueueInv

LEMMA StepMarks ==
  ASSUME QueueInv, NEW c \in SyncCalls, MarkProcessed(c)
  PROVE QueueInv'
<1> DEFINE k == AtHand(c)
           todo == StillToDo(c)
<1>1. /\ At(c, "mark") /\ entries' = [entries EXCEPT ![k] = "processed"] /\ Moves(c, "replay", todo)
      /\ UNCHANGED <<workable, applied, syncBegun, nothingDone, renewed>>
  BY DEF MarkProcessed
<1>2. k \in syncCalls[c].todo /\ k \in SyncKeys /\ todo \subseteq syncCalls[c].todo \ {k}
      /\ syncCalls[c].todo \subseteq SyncKeys
  BY <1>1, HasAKey DEF QueueInv, At, SyncTypeOK, StillToDo
<1>3. /\ syncCalls' \in [SyncCalls -> SyncCall] /\ syncCalls'[c].todo = todo /\ ~At(c, "mark")'
      /\ \A d \in SyncCalls \ {c} : syncCalls'[d] = syncCalls[d]
      /\ tangled \subseteq tangled' /\ tangled' \subseteq SyncKeys /\ IdleHasNothing' /\ OneHolder'
  BY <1>1, <1>2, MovesKeeps DEF QueueInv, At
<1>4. \A d \in SyncCalls \ {c} : AtHand(d)' = AtHand(d) /\ (At(d, "mark")' <=> At(d, "mark"))
  BY <1>3 DEF AtHand, At
<1>5. entries \in [SyncKeys -> EntryStatus] /\ applied \in [SyncKeys -> 0 .. 2]
  BY DEF QueueInv, SyncTypeOK
<1>6. entries' \in [SyncKeys -> EntryStatus] /\ entries'[k] = "processed"
      /\ \A j \in SyncKeys \ {k} : entries'[j] = entries[j]
  BY <1>1, <1>2, <1>5 DEF EntryStatus
<1>7. SyncTypeOK'
  BY <1>1, <1>3, <1>6 DEF QueueInv, SyncTypeOK, SyncCall
<1>8. MarkedWasApplied'
  BY <1>1, <1>3, <1>4 DEF QueueInv, MarkedWasApplied, Replayed
<1>9. HeldIsOpen'
  <2>1. ASSUME NEW j \in todo, j \notin tangled' PROVE entries'[j] # "processed" /\ applied'[j] = 0
    BY <1>1, <1>2, <1>3, <1>6, <2>1 DEF QueueInv, HeldIsOpen
  <2>2. ASSUME NEW d \in SyncCalls \ {c}, NEW j \in syncCalls[d].todo, j \notin tangled'
        PROVE entries'[j] # "processed" /\ ((At(d, "mark")' /\ j = AtHand(d)') \/ applied'[j] = 0)
    <3>1. j # k
      BY <1>2, <1>3, <2>2 DEF QueueInv, OneHolder
    <3>2. j \in SyncKeys
      BY <2>2 DEF QueueInv, SyncTypeOK
    <3> QED
      BY <1>1, <1>3, <1>4, <1>6, <2>2, <3>1, <3>2 DEF QueueInv, HeldIsOpen
  <2> QED
    BY <1>3, <2>1, <2>2 DEF HeldIsOpen
<1>10. EntryAgrees'
  <2>1. Replayed(k)
    BY <1>1 DEF QueueInv, MarkedWasApplied
  <2>2. ASSUME NEW j \in SyncKeys PROVE entries'[j] = "processed" => Replayed(j)'
    BY <1>1, <1>6, <2>1, <2>2 DEF QueueInv, EntryAgrees, Replayed
  <2>3. k \notin tangled => applied[k] <= 1
    BY <1>1, <1>2 DEF QueueInv, MarkedWasApplied
  <2>4. ASSUME NEW j \in SyncKeys \ {k}, j \notin tangled', \A d \in SyncCalls : At(d, "mark")' => j # AtHand(d)'
        PROVE applied'[j] <= IF entries'[j] = "processed" THEN 1 ELSE 0
    <3>1. \A d \in SyncCalls : At(d, "mark") => j # AtHand(d)
      BY <1>4, <2>4
    <3> QED
      BY <1>1, <1>3, <1>6, <2>4, <3>1 DEF QueueInv, EntryAgrees
  <2> QED
    BY <1>1, <1>3, <1>6, <2>2, <2>3, <2>4 DEF EntryAgrees
<1> QED
  BY <1>3, <1>7, <1>8, <1>9, <1>10 DEF QueueInv

(* A call that is cut off between the payment and the mark, or whose mark fails, tangles its key. *)
LEMMA StepCut ==
  ASSUME QueueInv, NEW c \in SyncCalls, CutSync(c) \/ MarkFails(c)
  PROVE QueueInv'
<1>1. /\ ~At(c, "idle") /\ tangled' = IF At(c, "mark") THEN tangled \cup {AtHand(c)} ELSE tangled
      /\ UNCHANGED <<workable, applied, syncBegun, nothingDone, renewed>>
  BY DEF CutSync, MarkFails, At
<1>2. AtHand(c) \in SyncKeys
  BY <1>1, HasAKey DEF QueueInv
<1>3. /\ syncCalls' \in [SyncCalls -> SyncCall]
      /\ syncCalls'[c].todo \subseteq syncCalls[c].todo \ (IF At(c, "mark") THEN {AtHand(c)} ELSE {})
      /\ ~At(c, "mark")' /\ (At(c, "idle")' <=> syncCalls'[c].todo = {})
      /\ \A d \in SyncCalls \ {c} : syncCalls'[d] = syncCalls[d]
      /\ tangled \subseteq tangled' /\ tangled' \subseteq SyncKeys
  BY <1>1, <1>2 DEF QueueInv, SyncTypeOK, SyncCall, IdleSync, CutSync, MarkFails, CallAt, StillToDo, At
<1>4. \A d \in SyncCalls \ {c} : AtHand(d)' = AtHand(d) /\ (At(d, "mark")' <=> At(d, "mark"))
  BY <1>3 DEF AtHand, At
<1>5. /\ entries' \in [SyncKeys -> EntryStatus]
      /\ \A j \in SyncKeys : entries'[j] = entries[j] \/ (entries'[j] = "failed" /\ j \in tangled')
  BY <1>1, <1>2 DEF QueueInv, SyncTypeOK, CutSync, MarkFails, EntryStatus
<1>6. SyncTypeOK'
  BY <1>1, <1>3, <1>5 DEF QueueInv, SyncTypeOK, SyncCall
<1>7. IdleHasNothing' /\ OneHolder' /\ MarkedWasApplied'
  BY <1>1, <1>3, <1>4 DEF QueueInv, IdleHasNothing, OneHolder, MarkedWasApplied, Replayed, At
<1>8. HeldIsOpen'
  <2>1. ASSUME NEW j \in syncCalls'[c].todo, j \notin tangled'
        PROVE entries'[j] # "processed" /\ applied'[j] = 0
    <3>1. j \in syncCalls[c].todo /\ j \in SyncKeys /\ j \notin tangled /\ ~(At(c, "mark") /\ j = AtHand(c))
      BY <1>3, <2>1 DEF QueueInv, SyncTypeOK
    <3> QED
      BY <1>1, <1>5, <2>1, <3>1 DEF QueueInv, HeldIsOpen
  <2>2. ASSUME NEW d \in SyncCalls \ {c}, NEW j \in syncCalls[d].todo, j \notin tangled'
        PROVE entries'[j] # "processed" /\ ((At(d, "mark")' /\ j = AtHand(d)') \/ applied'[j] = 0)
    <3>1. j \in SyncKeys /\ j \notin tangled
      BY <1>3, <2>2 DEF QueueInv, SyncTypeOK
    <3> QED
      BY <1>1, <1>4, <1>5, <2>2, <3>1 DEF QueueInv, HeldIsOpen
  <2> QED
    BY <1>3, <2>1, <2>2 DEF HeldIsOpen
<1>9. EntryAgrees'
  BY <1>1, <1>3, <1>4, <1>5 DEF QueueInv, EntryAgrees, Replayed
<1> QED
  BY <1>6, <1>7, <1>8, <1>9 DEF QueueInv

(* What happens elsewhere touches no entry and no call. *)
LEMMA StepElsewhere ==
  ASSUME QueueInv, NEW k \in SyncKeys, ChangedElsewhere(k)
  PROVE QueueInv'
<1>1. /\ workable' \subseteq SyncKeys /\ renewed' \subseteq SyncKeys
      /\ UNCHANGED <<entries, applied, syncCalls, syncBegun, nothingDone, tangled>>
  BY DEF ChangedElsewhere, QueueInv, SyncTypeOK
<1> QED
  BY <1>1 DEF QueueInv, SyncTypeOK, IdleHasNothing, OneHolder, HeldIsOpen, MarkedWasApplied, EntryAgrees,
              Replayed, At, AtHand

(* An operation that leaves nothing to do again takes effect once, until somebody undoes it. *)
LEMMA StaysSpent ==
  ASSUME SyncTypeOK, IdleHasNothing, SpentOnce, [SyncNext]_syncVars
  PROVE SpentOnce'
<1>1. applied \in [SyncKeys -> 0 .. 2] /\ OnceKeys \subseteq SyncKeys
  BY SyncAssumption DEF SyncTypeOK
<1>2. CASE UNCHANGED <<workable, applied, renewed>>
  BY <1>2 DEF SpentOnce
<1>3. ASSUME NEW c \in SyncCalls, ReplayRow(c) \/ ReplayBill(c) PROVE SpentOnce'
  <2>1. TakesEffect(AtHand(c)) /\ renewed' = renewed /\ ~At(c, "idle")
    BY <1>3 DEF ReplayRow, ReplayBill, At
  <2>2. AtHand(c) \in SyncKeys
    BY <2>1, HasAKey
  <2>3. PICK k \in SyncKeys : k = AtHand(c)
    BY <2>2
  <2> QED
    BY <1>1, <2>1, <2>3 DEF SpentOnce, TakesEffect
<1>4. ASSUME NEW k \in SyncKeys, ChangedElsewhere(k) PROVE SpentOnce'
  BY <1>1, <1>4 DEF SpentOnce, ChangedElsewhere
<1> QED
  BY <1>2, <1>3, <1>4 DEF SyncNext, syncVars, QueueOperation, InsertEntry, ReplayAll, MarkProcessed, MarkFails,
     RefuseEntry, CutSync

---------------------------------------------------------------------------
(* The inductive invariant holds in every reachable state. *)
THEOREM SyncInvariant == SyncSpec => []SyncInv
<1>1. SyncInit => SyncInv
  BY SyncInitInv, SyncAssumption DEF SyncInv, SyncInit, SpentOnce
<1>2. SyncInv /\ [SyncNext]_syncVars => SyncInv'
  <2> SUFFICES ASSUME QueueInv, SpentOnce, [SyncNext]_syncVars PROVE QueueInv' /\ SpentOnce'
    BY DEF SyncInv
  <2>1. ASSUME NEW c \in SyncCalls, QueueOperation(c) \/ ReplayAll(c) PROVE QueueInv'
    BY <2>1, StepQueues
  <2>2. ASSUME NEW c \in SyncCalls, InsertEntry(c) \/ ReplayRow(c) \/ RefuseEntry(c) PROVE QueueInv'
    BY <2>2, StepReplays
  <2>3. ASSUME NEW c \in SyncCalls, ReplayBill(c) PROVE QueueInv'
    BY <2>3, StepReplaysBill
  <2>4. ASSUME NEW c \in SyncCalls, MarkProcessed(c) PROVE QueueInv'
    BY <2>4, StepMarks
  <2>5. ASSUME NEW c \in SyncCalls, CutSync(c) \/ MarkFails(c) PROVE QueueInv'
    BY <2>5, StepCut
  <2>6. ASSUME NEW k \in SyncKeys, ChangedElsewhere(k) PROVE QueueInv'
    BY <2>6, StepElsewhere
  <2>7. ASSUME UNCHANGED syncVars PROVE QueueInv'
    <3>1. SyncTypeOK' /\ IdleHasNothing' /\ OneHolder' /\ HeldIsOpen'
      BY <2>7 DEF syncVars, QueueInv, SyncTypeOK, IdleHasNothing, OneHolder, HeldIsOpen, At, AtHand
    <3>2. MarkedWasApplied'
      BY <2>7 DEF syncVars, QueueInv, MarkedWasApplied, Replayed, At, AtHand
    <3>3. \A d \in SyncCalls : AtHand(d)' = AtHand(d) /\ (At(d, "mark")' <=> At(d, "mark"))
      BY <2>7 DEF syncVars, At, AtHand
    <3>4. EntryAgrees'
      <4>1. \A k \in SyncKeys : (\A d \in SyncCalls : At(d, "mark") => k # AtHand(d))'
              <=> (\A d \in SyncCalls : At(d, "mark") => k # AtHand(d))
        BY <3>3
      <4>2. UNCHANGED <<entries, applied, nothingDone, tangled>>
        BY <2>7 DEF syncVars
      <4> QED
        BY <4>1, <4>2 DEF QueueInv, EntryAgrees, Replayed
    <3> QED
      BY <3>1, <3>2, <3>4 DEF QueueInv
  <2>8. QueueInv'
    BY <2>1, <2>2, <2>3, <2>4, <2>5, <2>6, <2>7 DEF SyncNext
  <2>9. SpentOnce'
    BY StaysSpent DEF QueueInv
  <2> QED
    BY <2>8, <2>9
<1> QED
  BY <1>1, <1>2, PTL DEF SyncSpec

(* Entries, calls and histories keep their types. *)
THEOREM SyncTypeCorrect == SyncSpec => []SyncTypeOK
<1>1. SyncInv => SyncTypeOK
  BY DEF SyncInv, QueueInv
<1> QED
  BY <1>1, SyncInvariant, PTL

(* An operation with a client key takes effect once at most, however often it is repeated, but for two   *)
(* repetitions that cross and for a call that fails between the payment of a bill and its mark; one that *)
(* leaves nothing to do again takes effect once even then.  Its entry says processed only after it took  *)
(* effect or found nothing to do.                                                                        *)
THEOREM QueuedTakesEffectOnceAlways == SyncSpec => []QueuedTakesEffectOnce
<1>1. SyncInv => QueuedTakesEffectOnce
  BY SyncAssumption DEF SyncInv, QueueInv, SyncTypeOK, EntryAgrees, SpentOnce, Replayed, QueuedTakesEffectOnce
<1> QED
  BY <1>1, SyncInvariant, PTL

---------------------------------------------------------------------------
(***************************************************************************)
(* WaiterCalls.  A handler that nobody saved beside still finds what it     *)
(* read: its request unknown and its table quiet when it creates one, the   *)
(* request pending when it accepts, the same waiter when it finishes.       *)
(***************************************************************************)

HandlerRow ==
  [does: {"nothing", "create", "accept", "finish", "reassign"},
   request: Requests, row: RequestRow, stale: BOOLEAN]

(* What a handler is about to save, and what it may rely on while no other one saved. *)
HandlerSound(h) ==
  LET me == handlers[h]
  IN /\ Busy(h) => me.row.status # "none"
     /\ me.does \in {"accept", "finish"} => me.row.status # "pending"
     /\ Busy(h) /\ ~me.stale =>
          /\ me.does = "create" => ~Known(me.request) /\ Waiting(me.row.table) = {}
          /\ me.does = "accept" => requests[me.request].status = "pending"
          /\ me.does = "finish" => me.row.waiter = requests[me.request].waiter

CallInv ==
  /\ CallTypeOK
  /\ IsFiniteSet({ r \in Requests : Known(r) })
  /\ \A r \in Requests : ~Known(r) => requests[r].waiter = Nobody
  /\ \A t \in CallTables \ crowded : \A r, s \in Waiting(t) : r = s
  /\ \A h \in Handlers : HandlerSound(h)

LEMMA CallTyped ==
  ASSUME CallInv
  PROVE  /\ requests \in [Requests -> RequestRow] /\ handlers \in [Handlers -> HandlerRow]
         /\ handled \in Nat /\ handled \in 0 .. MaxHandled /\ crowded \subseteq CallTables
  BY WaiterCallAssumption DEF CallInv, CallTypeOK, HandlerRow

LEMMA IdleHandlerTyped == NoRequest \in RequestRow /\ IdleHandler \in HandlerRow
<1>1. AnyCallTable \in CallTables /\ (CHOOSE r \in Requests : TRUE) \in Requests
  BY WaiterCallAssumption DEF AnyCallTable
<1>2. NoRequest \in RequestRow
  BY <1>1 DEF NoRequest, RequestRow, RequestStatus
<1>3. FALSE \in BOOLEAN
  OBVIOUS
<1> QED
  BY <1>1, <1>2, <1>3 DEF IdleHandler, HandlerRow

LEMMA CallInitial == CallInit => CallInv
<1> SUFFICES ASSUME CallInit PROVE CallInv
  OBVIOUS
<1>1. /\ requests \in [Requests -> RequestRow] /\ handlers \in [Handlers -> HandlerRow]
      /\ handled \in 0 .. MaxHandled /\ crowded \subseteq CallTables
  BY IdleHandlerTyped, WaiterCallAssumption DEF CallInit
<1>2. \A r \in Requests : ~Known(r) /\ requests[r].waiter = Nobody
  BY DEF CallInit, Known, NoRequest
<1>3. { r \in Requests : Known(r) } = {}
  BY <1>2
<1>4. IsFiniteSet({ r \in Requests : Known(r) })
  BY <1>3, FS_EmptySet
<1>5. \A t \in CallTables : Waiting(t) = {}
  BY <1>2 DEF Waiting, Known
<1>6. \A h \in Handlers : ~Busy(h)
  BY DEF CallInit, Busy, IdleHandler
<1>7. \A h \in Handlers : HandlerSound(h)
  BY <1>6 DEF HandlerSound, Busy
<1> QED
  BY <1>1, <1>2, <1>4, <1>5, <1>7 DEF CallInv, CallTypeOK, HandlerRow

(* A handler that begins or goes away changes nothing but itself. *)
LEMMA HandlerOnly ==
  ASSUME CallInv, NEW h \in Handlers, NEW q \in HandlerRow,
         handlers' = [handlers EXCEPT ![h] = q], UNCHANGED <<requests, crowded>>,
         handled' \in 0 .. MaxHandled, HandlerSound(h)'
  PROVE  CallInv'
<1>1. CallTypeOK'
  BY CallTyped DEF CallTypeOK, HandlerRow
<1>2. \A g \in Handlers : HandlerSound(g)'
  <2> SUFFICES ASSUME NEW g \in Handlers, g # h PROVE HandlerSound(g)'
    OBVIOUS
  <2>1. handlers'[g] = handlers[g] /\ HandlerSound(g)
    BY CallTyped DEF CallInv
  <2> QED
    BY <2>1 DEF HandlerSound, Busy, Known, Waiting
<1> QED
  BY <1>1, <1>2 DEF CallInv, Known, Waiting

LEMMA HandleBegins ==
  ASSUME CallInv, NEW h \in Handlers, NEW does \in {"create", "accept", "finish", "reassign"},
         NEW r \in Requests, NEW row \in RequestRow, Handle(h, does, r, row),
         row.status # "none",
         does = "create" => ~Known(r) /\ Waiting(row.table) = {},
         does = "accept" => requests[r].status = "pending" /\ row.status # "pending",
         does = "finish" => row.waiter = requests[r].waiter /\ row.status # "pending"
  PROVE  CallInv'
<1>1. PICK q : q = [does |-> does, request |-> r, row |-> row, stale |-> FALSE]
  OBVIOUS
<1>2. FALSE \in BOOLEAN
  OBVIOUS
<1>3. q \in HandlerRow /\ q.does = does /\ q.request = r /\ q.row = row
  BY <1>1, <1>2 DEF HandlerRow
<1>4. handlers' = [handlers EXCEPT ![h] = q] /\ UNCHANGED <<requests, crowded>>
  BY <1>1 DEF Handle
<1>5. handlers'[h] = q
  BY <1>4, CallTyped
<1>6. handled' \in 0 .. MaxHandled
  BY CallTyped, WaiterCallAssumption DEF Handle
<1>7. HandlerSound(h)'
  BY <1>3, <1>4, <1>5 DEF HandlerSound, Busy, Known, Waiting
<1> QED
  BY <1>3, <1>4, <1>6, <1>7, HandlerOnly

LEMMA CreateCalls == ASSUME CallInv, NEW h \in Handlers, CreateWaiterCall(h) PROVE CallInv'
<1>1. PICK r \in Requests, t \in CallTables :
        /\ ~Known(r) /\ Waiting(t) = {}
        /\ Handle(h, "create", r, [status |-> "pending", table |-> t, waiter |-> Nobody])
  BY DEF CreateWaiterCall, MayCall
<1>2. PICK row : row = [status |-> "pending", table |-> t, waiter |-> Nobody]
  OBVIOUS
<1>3. row \in RequestRow /\ row.status = "pending" /\ row.table = t
  BY <1>2 DEF RequestRow, RequestStatus
<1>4. Handle(h, "create", r, row)
  BY <1>1, <1>2
<1> QED
  BY <1>1, <1>3, <1>4, HandleBegins

LEMMA AcceptCalls == ASSUME CallInv, NEW h \in Handlers, AcceptWaiterCall(h) PROVE CallInv'
<1>1. PICK r \in Requests, w \in Waiters :
        /\ requests[r].status = "pending"
        /\ Handle(h, "accept", r, [requests[r] EXCEPT !.status = "accepted", !.waiter = w])
  BY DEF AcceptWaiterCall, ClaimableRequest
<1>2. PICK row : row = [requests[r] EXCEPT !.status = "accepted", !.waiter = w]
  OBVIOUS
<1>3. row \in RequestRow /\ row.status = "accepted"
  BY <1>2, CallTyped DEF RequestRow, RequestStatus
<1>4. Handle(h, "accept", r, row)
  BY <1>1, <1>2
<1> QED
  BY <1>1, <1>3, <1>4, HandleBegins

LEMMA FinishCalls == ASSUME CallInv, NEW h \in Handlers, FinishWaiterCall(h) PROVE CallInv'
<1>1. PICK r \in Requests, s \in {"arrived", "resolved", "cancelled"} :
        Handle(h, "finish", r, [requests[r] EXCEPT !.status = s])
  BY DEF FinishWaiterCall
<1>2. PICK row : row = [requests[r] EXCEPT !.status = s]
  OBVIOUS
<1>3. row \in RequestRow /\ row.status = s /\ row.waiter = requests[r].waiter
  BY <1>2, CallTyped DEF RequestRow, RequestStatus
<1>4. Handle(h, "finish", r, row)
  BY <1>1, <1>2
<1> QED
  BY <1>3, <1>4, HandleBegins

LEMMA ReassignCalls == ASSUME CallInv, NEW h \in Handlers, ReassignWaiterCall(h) PROVE CallInv'
<1>1. PICK r \in Requests, w \in Waiters :
        Handle(h, "reassign", r, [requests[r] EXCEPT !.status = "pending", !.waiter = w])
  BY DEF ReassignWaiterCall
<1>2. PICK row : row = [requests[r] EXCEPT !.status = "pending", !.waiter = w]
  OBVIOUS
<1>3. row \in RequestRow /\ row.status = "pending"
  BY <1>2, CallTyped DEF RequestRow, RequestStatus
<1>4. Handle(h, "reassign", r, row)
  BY <1>1, <1>2
<1> QED
  BY <1>3, <1>4, HandleBegins

LEMMA DropCalls == ASSUME CallInv, NEW h \in Handlers, DropHandler(h) PROVE CallInv'
<1>1. handlers' = [handlers EXCEPT ![h] = IdleHandler] /\ UNCHANGED <<requests, handled, crowded>>
  BY DEF DropHandler
<1>2. handlers'[h] = IdleHandler
  BY <1>1, CallTyped
<1>3. HandlerSound(h)'
  BY <1>2 DEF HandlerSound, Busy, IdleHandler
<1> QED
  BY <1>1, <1>3, CallTyped, IdleHandlerTyped, HandlerOnly

(* A save crowds no table but the one it notes, and makes all others in flight stale. *)
LEMMA SaveCalls == ASSUME CallInv, NEW h \in Handlers, SaveRequest(h) PROVE CallInv'
<1> DEFINE me == handlers[h]
<1>1. PICK r, row : r = me.request /\ row = me.row
  OBVIOUS
<1>2. /\ Busy(h) /\ requests' = [requests EXCEPT ![r] = row]
      /\ handlers' = [g \in Handlers |->
           IF g = h THEN IdleHandler ELSE [handlers[g] EXCEPT !.stale = Busy(g)]]
      /\ crowded' = IF row.status = "pending" /\ (me.stale \/ me.does = "reassign")
                    THEN crowded \cup {row.table} ELSE crowded
      /\ handled' = handled
  BY <1>1 DEF SaveRequest
<1>3. me \in HandlerRow /\ r \in Requests /\ row \in RequestRow
  BY <1>1, CallTyped DEF HandlerRow
<1>4. /\ row.status # "none"
      /\ row.status = "pending" => me.does \in {"create", "reassign"}
      /\ me.does = "create" /\ ~me.stale => ~Known(r) /\ Waiting(row.table) = {}
  BY <1>1, <1>2, <1>3 DEF CallInv, HandlerSound, Busy, HandlerRow
<1>5. /\ requests' \in [Requests -> RequestRow] /\ requests'[r] = row
      /\ \A s \in Requests : s # r => requests'[s] = requests[s]
  BY <1>2, <1>3, CallTyped
<1>6. crowded \subseteq crowded' /\ crowded' \subseteq CallTables
  BY <1>2, <1>3, CallTyped DEF RequestRow
<1>7. /\ handlers' \in [Handlers -> HandlerRow] /\ handlers'[h] = IdleHandler
      /\ \A g \in Handlers : g # h =>
           /\ handlers'[g].does = handlers[g].does /\ handlers'[g].row = handlers[g].row
           /\ handlers'[g].stale = Busy(g)
  <2>1. ASSUME NEW g \in Handlers, g # h
        PROVE  /\ handlers'[g] \in HandlerRow
               /\ handlers'[g].does = handlers[g].does /\ handlers'[g].row = handlers[g].row
               /\ handlers'[g].stale = Busy(g)
    <3>1. PICK b \in BOOLEAN : b = Busy(g)
      BY DEF Busy
    <3>2. handlers'[g] = [handlers[g] EXCEPT !.stale = b] /\ handlers[g] \in HandlerRow
      BY <1>2, <2>1, <3>1, CallTyped
    <3> QED
      BY <3>1, <3>2 DEF HandlerRow
  <2>2. handlers'[h] = IdleHandler
    BY <1>2
  <2> QED
    BY <1>2, <2>1, <2>2, IdleHandlerTyped
<1>8. CallTypeOK'
  BY <1>2, <1>5, <1>6, <1>7, CallTyped DEF CallTypeOK, HandlerRow
<1>9. IsFiniteSet({ s \in Requests : Known(s) }')
  <2>1. { s \in Requests : Known(s) }' \subseteq { s \in Requests : Known(s) } \cup {r}
    BY <1>5 DEF Known
  <2>2. IsFiniteSet({ s \in Requests : Known(s) } \cup {r})
    BY FS_AddElement DEF CallInv
  <2> QED
    BY <2>1, <2>2, FS_Subset
<1>10. \A s \in Requests : ~Known(s)' => requests'[s].waiter = Nobody
  BY <1>4, <1>5 DEF CallInv, Known
<1>11. ASSUME NEW t \in CallTables \ crowded', NEW x \in Waiting(t)', NEW y \in Waiting(t)' PROVE x = y
  <2>1. /\ x \in Requests /\ requests'[x].status = "pending" /\ requests'[x].table = t
        /\ y \in Requests /\ requests'[y].status = "pending" /\ requests'[y].table = t
    BY DEF Waiting
  <2>2. t \in CallTables \ crowded
    BY <1>6
  <2>3. CASE row.status = "pending" /\ row.table = t
    <3>1. me.does = "create" /\ ~me.stale
      BY <1>2, <1>4, <1>11, <2>3
    <3>2. Waiting(t) = {}
      BY <1>4, <2>3, <3>1
    <3> QED
      BY <1>5, <2>1, <3>2 DEF Waiting
  <2>4. CASE ~(row.status = "pending" /\ row.table = t)
    <3>1. x # r /\ y # r
      BY <1>5, <2>1, <2>4
    <3>2. x \in Waiting(t) /\ y \in Waiting(t)
      BY <1>5, <2>1, <3>1 DEF Waiting
    <3> QED
      BY <2>2, <3>2 DEF CallInv
  <2> QED
    BY <2>3, <2>4
<1>12. ASSUME NEW g \in Handlers PROVE HandlerSound(g)'
  <2>1. CASE g = h
    BY <1>7, <2>1 DEF HandlerSound, Busy, IdleHandler
  <2>2. CASE g # h
    <3>1. HandlerSound(g) /\ Busy(g)' = Busy(g)
      BY <1>7, <2>2 DEF CallInv, Busy
    <3>2. /\ Busy(g) => handlers'[g].row.status # "none"
          /\ handlers'[g].does \in {"accept", "finish"} => handlers'[g].row.status # "pending"
      BY <1>7, <2>2, <3>1 DEF HandlerSound
    <3>3. Busy(g) => handlers'[g].stale
      BY <1>7, <2>2
    <3> QED
      BY <3>1, <3>2, <3>3 DEF HandlerSound
  <2> QED
    BY <2>1, <2>2
<1> QED
  BY <1>8, <1>9, <1>10, <1>11, <1>12 DEF CallInv

LEMMA CallStep == ASSUME CallInv, [CallNext]_callVars PROVE CallInv'
<1>1. CASE UNCHANGED callVars
  BY <1>1 DEF CallInv, CallTypeOK, HandlerSound, Busy, Known, Waiting, callVars
<1>2. CASE CallNext
  BY <1>2, CreateCalls, AcceptCalls, FinishCalls, ReassignCalls, SaveCalls, DropCalls DEF CallNext
<1> QED
  BY <1>1, <1>2

(* The invariant of the calls holds in every reachable state of waiter-call.service.ts. *)
THEOREM CallInvariant == CallSpec => []CallInv
  BY CallInitial, CallStep, PTL DEF CallSpec

(* Requests and handlers keep their types. *)
THEOREM CallTypeCorrect == CallSpec => []CallTypeOK
<1>1. CallInv => CallTypeOK
  BY DEF CallInv
<1> QED
  BY <1>1, CallInvariant, PTL

LEMMA CallsAreFew == CallInv => OneRequestPerTable
<1> SUFFICES ASSUME CallInv, NEW t \in CallTables, Cardinality(Waiting(t)) > 1, t \notin crowded PROVE FALSE
  BY DEF OneRequestPerTable
<1>1. CASE Waiting(t) = {}
  <2>1. Cardinality(Waiting(t)) = 0
    BY <1>1, FS_EmptySet
  <2> QED
    BY <2>1
<1>2. CASE Waiting(t) # {}
  <2>1. PICK r : r \in Waiting(t)
    BY <1>2
  <2>2. Waiting(t) = {r}
    BY <2>1 DEF CallInv
  <2>3. Cardinality(Waiting(t)) = 1
    BY <2>2, FS_Singleton
  <2> QED
    BY <2>3
<1> QED
  BY <1>1, <1>2

(* A claim that changes hands changes them by a reassignment or a row read before another save. *)
LEMMA ClaimsChangeHands ==
  ASSUME CallInv, CallNext, NEW r \in Requests,
         requests[r].waiter # Nobody, requests[r].status # "pending",
         requests'[r].waiter # requests[r].waiter
  PROVE  \E h \in Handlers : /\ handlers[h].request = r
                             /\ handlers'[h].does = "nothing"
                             /\ handlers[h].stale \/ handlers[h].does = "reassign"
<1>1. PICK h \in Handlers : SaveRequest(h)
  BY DEF CallNext, CreateWaiterCall, AcceptWaiterCall, FinishWaiterCall, ReassignWaiterCall, DropHandler, Handle
<1>2. /\ Busy(h) /\ handlers[h].request = r /\ requests'[r] = handlers[h].row
  BY <1>1, CallTyped DEF SaveRequest
<1>3. handlers'[h].does = "nothing"
  BY <1>1 DEF SaveRequest, IdleHandler
<1>4. handlers[h] \in HandlerRow /\ HandlerSound(h) /\ (Known(r) \/ requests[r].waiter = Nobody)
  BY CallTyped DEF CallInv
<1>5. handlers[h].stale \/ handlers[h].does = "reassign"
  BY <1>2, <1>4 DEF HandlerRow, HandlerSound, Busy
<1> QED
  BY <1>2, <1>3, <1>5

(* A table's call is made once and answered by one: one request waits per table, and a claim is kept, but  *)
(* for saves of rows read before another save and for reassignments (createWaiterCall, acceptWaiterCall). *)
THEOREM CallsAreKeptAlways == CallSpec => CallsAreKept
<1> DEFINE Kept ==
      \A r \in Requests :
        /\ requests[r].waiter # Nobody
        /\ requests[r].status # "pending"
        /\ requests'[r].waiter # requests[r].waiter
        => \E h \in Handlers : /\ handlers[h].request = r
                               /\ handlers'[h].does = "nothing"
                               /\ handlers[h].stale \/ handlers[h].does = "reassign"
<1>1. CallInv /\ [CallNext]_callVars => [Kept]_callVars
  BY ClaimsChangeHands
<1>2. CallSpec => [][Kept]_callVars
  BY <1>1, CallInvariant, PTL DEF CallSpec
<1>3. CallSpec => []OneRequestPerTable
  BY CallInvariant, CallsAreFew, PTL
<1> QED
  BY <1>2, <1>3 DEF CallsAreKept, ClaimIsKept

---------------------------------------------------------------------------
(***************************************************************************)
(* Bookings.  A call that checked the table, and that nobody overtook, has  *)
(* a row that meets no other booking; one that did not check keeps the      *)
(* table and the times it found; and one about to seat a party has the tab  *)
(* still to open, or found it.                                              *)
(***************************************************************************)

Steps == {"insert", "save", "look", "tab"}

BookingCall == [todo: Seq(Steps), booking: Bookings \cup {NoBooking}, row: Row, checked: BOOLEAN, stale: BOOLEAN]

HasTab(q) == \E i \in DOMAIN q.todo : q.todo[i] = "tab"

LooksBefore(q) == \A i \in 1 .. Len(q.todo) : q.todo[i] = "look" => i < Len(q.todo)

TabComes(b) ==
  \/ b \in tabbed \/ b \in cutOff
  \/ \E c \in BookingCalls : bookingCalls[c].booking = b /\ HasTab(bookingCalls[c])

(* Two rows at one table at one time. *)
Meets(r, s) == r.table = s.table /\ r.start < EndOf(s) /\ s.start < EndOf(r)

(* What a call may rely on while no other call wrote. *)
RowFresh(q) ==
  /\ q.checked => \A x \in Bookings \ {q.booking} :
                     bookings[x].status \in Holding => ~Meets(q.row, bookings[x])
  /\ ~q.checked => /\ q.row.table = bookings[q.booking].table
                   /\ q.row.start = bookings[q.booking].start /\ q.row.len = bookings[q.booking].len

BookingSound(q) ==
  \/ q = IdleBookingCall
  \/ /\ q.todo # <<>> /\ q.booking \in Bookings /\ LooksBefore(q)
     /\ q.row.status = "seated" => TabComes(q.booking)
     /\ ~q.stale => RowFresh(q)

TablesApart ==
  \A a, b \in Bookings :
    a # b /\ bookings[a].status \in Holding /\ bookings[b].status \in Holding /\ Meets(bookings[a], bookings[b])
    => a \in misplaced \/ b \in misplaced

BookingInv ==
  /\ bookings \in [Bookings -> Row] /\ tabbed \subseteq Bookings /\ clock \in 0 .. LastTick
  /\ begun \in 0 .. MaxBookingCalls /\ bookingCalls \in [BookingCalls -> BookingCall]
  /\ misplaced \subseteq Bookings /\ cutOff \subseteq Bookings
  /\ \A c \in BookingCalls : BookingSound(bookingCalls[c])
  /\ \A b \in Bookings : bookings[b].status = "seated" => TabComes(b)
  /\ TablesApart

LEMMA RowNumbers ==
  ASSUME NEW r \in Row
  PROVE  /\ r.start \in Nat /\ r.len \in Nat /\ r.len > 0 /\ r.table \in Tables
         /\ r.status \in BookingStatus /\ r.start \in StartTicks /\ r.len \in Lengths
<1>1. /\ r.start \in StartTicks /\ r.len \in Lengths /\ r.table \in Tables /\ r.status \in BookingStatus
  BY DEF Row
<1>2. r.len \in Nat /\ r.len > 0
  <2>1. r.len \in Nat \ {0}
    BY <1>1, BookingAssumption
  <2> QED
    BY <2>1
<1>3. r.start \in Nat
  BY <1>1, BookingAssumption DEF StartTicks
<1> QED
  BY <1>1, <1>2, <1>3

LEMMA IdleBookingTyped ==
  /\ NoRow \in Row /\ IdleBookingCall \in BookingCall /\ IdleBookingCall.todo = <<>>
  /\ IdleBookingCall.booking = NoBooking
<1>1. (CHOOSE t \in Tables : TRUE) \in Tables /\ 0 \in StartTicks
  BY BookingAssumption DEF StartTicks
<1>2. NoRow \in Row
  BY <1>1, BookingAssumption DEF NoRow, Row, BookingStatus
<1>3. <<>> \in Seq(Steps) /\ FALSE \in BOOLEAN
  OBVIOUS
<1>4. IdleBookingCall \in BookingCall
  BY <1>2, <1>3 DEF IdleBookingCall, BookingCall
<1> QED
  BY <1>2, <1>4 DEF IdleBookingCall

LEMMA BookingInitial == BookingInit => BookingInv
<1> SUFFICES ASSUME BookingInit PROVE BookingInv
  OBVIOUS
<1>1. /\ bookings = [b \in Bookings |-> NoRow] /\ tabbed = {} /\ clock = 0 /\ begun = 0
      /\ bookingCalls = [c \in BookingCalls |-> IdleBookingCall] /\ misplaced = {} /\ cutOff = {}
  BY DEF BookingInit
<1>2. /\ bookings \in [Bookings -> Row] /\ bookingCalls \in [BookingCalls -> BookingCall]
      /\ clock \in 0 .. LastTick /\ begun \in 0 .. MaxBookingCalls
  BY <1>1, IdleBookingTyped, BookingAssumption
<1>3. \A b \in Bookings : bookings[b].status = "none"
  BY <1>1 DEF NoRow
<1>4. \A c \in BookingCalls : BookingSound(bookingCalls[c])
  BY <1>1 DEF BookingSound
<1>5. TablesApart
  BY <1>3 DEF TablesApart, Holding
<1> QED
  BY <1>1, <1>2, <1>3, <1>4, <1>5 DEF BookingInv

---------------------------------------------------------------------------
(* The statements a call has left. *)

LEMMA LaterSteps ==
  ASSUME NEW S, NEW s \in Seq(S), NEW n \in {1, 2}, n < Len(s)
  PROVE  /\ SubSeq(s, n + 1, Len(s)) \in Seq(S) /\ Len(SubSeq(s, n + 1, Len(s))) = Len(s) - n
         /\ \A i \in 1 .. (Len(s) - n) : SubSeq(s, n + 1, Len(s))[i] = s[i + n]
<1>1. PICK m \in Int, k \in Int : m = n + 1 /\ k = Len(s)
  OBVIOUS
<1>2. \A i \in m .. k : s[i] \in S
  BY <1>1
<1>3. /\ SubSeq(s, m, k) \in Seq(S) /\ Len(SubSeq(s, m, k)) = IF m <= k THEN k - m + 1 ELSE 0
      /\ \A i \in 1 .. k - m + 1 : SubSeq(s, m, k)[i] = s[m + i - 1]
  BY <1>2, SubSeqProperties
<1>4. k \in Nat /\ m <= k /\ k - m + 1 = k - n /\ Len(SubSeq(s, m, k)) = k - n
  BY <1>1, <1>3
<1>5. \A i \in 1 .. k - n : SubSeq(s, m, k)[i] = s[i + n]
  <2> SUFFICES ASSUME NEW i \in 1 .. k - n PROVE SubSeq(s, m, k)[i] = s[i + n]
    OBVIOUS
  <2>1. i \in 1 .. k - m + 1 /\ m + i - 1 = i + n
    BY <1>1, <1>4
  <2> QED
    BY <1>3, <2>1
<1> QED
  BY <1>1, <1>3, <1>4, <1>5

(* What is left keeps the row, and keeps the tab to open unless that is what was done. *)
LEMMA RestOfCall ==
  ASSUME NEW q \in BookingCall, q.todo # <<>>, LooksBefore(q), NEW n \in {1, 2}, n <= Len(q.todo)
  PROVE  /\ Rest(q, n) \in BookingCall
         /\ \/ Rest(q, n) = IdleBookingCall
            \/ /\ Rest(q, n).todo # <<>> /\ LooksBefore(Rest(q, n))
               /\ Rest(q, n).booking = q.booking /\ Rest(q, n).row = q.row
               /\ Rest(q, n).checked = q.checked /\ Rest(q, n).stale = q.stale
         /\ n = 1 /\ Head(q.todo) # "tab" /\ HasTab(q) => HasTab(Rest(q, n)) /\ Rest(q, n).booking = q.booking
<1>1. PICK s \in Seq(Steps) : s = q.todo
  BY DEF BookingCall
<1>2. Len(s) \in Nat /\ Len(s) > 0 /\ n <= Len(s) /\ Head(s) = s[1] /\ DOMAIN s = 1 .. Len(s)
  BY <1>1
<1>3. CASE Len(s) = n
  <2>1. Rest(q, n) = IdleBookingCall
    BY <1>1, <1>3 DEF Rest
  <2>2. n = 1 /\ HasTab(q) => Head(q.todo) = "tab"
    BY <1>1, <1>2, <1>3 DEF HasTab
  <2> QED
    BY <2>1, <2>2, IdleBookingTyped
<1>4. CASE Len(s) # n
  <2>1. PICK t : t = SubSeq(s, n + 1, Len(s))
    OBVIOUS
  <2>2. n < Len(s)
    <3>1. \A k, m \in Nat : m <= k /\ k # m => m < k
      OBVIOUS
    <3>2. n \in Nat /\ Len(s) \in Nat
      BY <1>2
    <3> QED
      BY <1>2, <1>4, <3>1, <3>2
  <2>3. t \in Seq(Steps) /\ Len(t) = Len(s) - n /\ \A i \in 1 .. Len(t) : t[i] = s[i + n]
    BY <2>1, <2>2, LaterSteps
  <2>4. PICK r : r = [q EXCEPT !.todo = t]
    OBVIOUS
  <2>5. Rest(q, n) = r
    BY <1>1, <1>4, <2>1, <2>4 DEF Rest
  <2>6. /\ r \in BookingCall /\ r.todo = t /\ r.booking = q.booking /\ r.row = q.row
        /\ r.checked = q.checked /\ r.stale = q.stale
    BY <2>3, <2>4 DEF BookingCall
  <2>7. Len(t) \in Nat /\ Len(t) > 0 /\ t # <<>> /\ DOMAIN t = 1 .. Len(t)
    BY <1>2, <2>2, <2>3
  <2>8. LooksBefore(r)
    <3> SUFFICES ASSUME NEW i \in 1 .. Len(t), t[i] = "look" PROVE i < Len(t)
      BY <2>6 DEF LooksBefore
    <3>1. s[i + n] = "look" /\ i + n \in 1 .. Len(s)
      BY <1>2, <2>3, <2>7
    <3>2. i + n < Len(s)
      BY <1>1, <3>1 DEF LooksBefore
    <3> QED
      BY <1>2, <2>3, <3>2
  <2>9. ASSUME n = 1, Head(q.todo) # "tab", HasTab(q) PROVE HasTab(r)
    <3>1. PICK i \in 1 .. Len(s) : s[i] = "tab"
      BY <1>1, <1>2, <2>9 DEF HasTab
    <3>2. i # 1
      BY <1>1, <1>2, <2>9, <3>1
    <3>3. i - 1 \in 1 .. Len(t) /\ (i - 1) + n = i
      BY <1>2, <2>3, <2>9, <3>1, <3>2
    <3>4. t[i - 1] = "tab"
      BY <2>3, <3>1, <3>3
    <3> QED
      BY <2>6, <2>7, <3>3, <3>4 DEF HasTab
  <2> QED
    BY <2>5, <2>6, <2>7, <2>8, <2>9
<1> QED
  BY <1>3, <1>4

---------------------------------------------------------------------------
(* Steps that leave the reservations alone: one call changes, and tabs and cut seatings only grow. *)

LEMMA TabStillComes ==
  ASSUME BookingInv, NEW c \in BookingCalls, NEW q \in BookingCall, bookingCalls' = [bookingCalls EXCEPT ![c] = q],
         tabbed \subseteq tabbed', cutOff \subseteq cutOff',
         HasTab(bookingCalls[c]) =>
           \/ HasTab(q) /\ q.booking = bookingCalls[c].booking
           \/ bookingCalls[c].booking \in tabbed' \cup cutOff',
         NEW b, TabComes(b)
  PROVE  TabComes(b)'
<1>1. CASE b \in tabbed \/ b \in cutOff
  BY <1>1 DEF TabComes
<1>2. CASE \E d \in BookingCalls : bookingCalls[d].booking = b /\ HasTab(bookingCalls[d])
  <2>1. PICK d \in BookingCalls : bookingCalls[d].booking = b /\ HasTab(bookingCalls[d])
    BY <1>2
  <2>2. CASE d # c
    <3>1. bookingCalls'[d] = bookingCalls[d]
      BY <2>2 DEF BookingInv
    <3> QED
      BY <2>1, <3>1 DEF TabComes, HasTab
  <2>3. CASE d = c
    <3>1. bookingCalls'[c] = q
      BY DEF BookingInv
    <3>2. \/ HasTab(q) /\ q.booking = b
          \/ b \in tabbed' \cup cutOff'
      BY <2>1, <2>3
    <3> QED
      BY <3>1, <3>2 DEF TabComes, HasTab
  <2> QED
    BY <2>2, <2>3
<1> QED
  BY <1>1, <1>2 DEF TabComes

LEMMA BookingOnly ==
  ASSUME BookingInv, NEW c \in BookingCalls, NEW q \in BookingCall, bookingCalls' = [bookingCalls EXCEPT ![c] = q],
         UNCHANGED <<bookings, misplaced>>, clock' \in 0 .. LastTick, begun' \in 0 .. MaxBookingCalls,
         tabbed \subseteq tabbed', cutOff \subseteq cutOff', tabbed' \subseteq Bookings, cutOff' \subseteq Bookings,
         HasTab(bookingCalls[c]) =>
           \/ HasTab(q) /\ q.booking = bookingCalls[c].booking
           \/ bookingCalls[c].booking \in tabbed' \cup cutOff',
         \/ q = IdleBookingCall
         \/ /\ q.todo # <<>> /\ q.booking \in Bookings /\ LooksBefore(q)
            /\ q.row.status = "seated" => TabComes(q.booking) \/ HasTab(q)
            /\ ~q.stale => RowFresh(q)
  PROVE  BookingInv'
<1>1. bookingCalls'[c] = q /\ \A d \in BookingCalls : d # c => bookingCalls'[d] = bookingCalls[d]
  BY DEF BookingInv
<1>2. \A b : TabComes(b) => TabComes(b)'
  BY TabStillComes
<1>3. \A x \in BookingCall : RowFresh(x) => RowFresh(x)'
  BY DEF RowFresh
<1>4. ASSUME NEW d \in BookingCalls PROVE BookingSound(bookingCalls[d])'
  <2>1. CASE d = c
    <3>1. HasTab(q) => TabComes(q.booking)'
      BY <1>1 DEF TabComes, HasTab
    <3>2. BookingSound(q)'
      BY <1>2, <1>3, <3>1 DEF BookingSound, LooksBefore
    <3> QED
      BY <1>1, <2>1, <3>2 DEF BookingSound, RowFresh, TabComes, LooksBefore
  <2>2. CASE d # c
    <3>1. PICK x : x = bookingCalls[d]
      OBVIOUS
    <3>2. x \in BookingCall /\ BookingSound(x)
      BY <3>1 DEF BookingInv
    <3>3. BookingSound(x)'
      BY <1>2, <1>3, <3>2 DEF BookingSound, LooksBefore
    <3>4. bookingCalls'[d] = x
      BY <1>1, <2>2, <3>1
    <3> QED
      BY <3>3, <3>4 DEF BookingSound, RowFresh, TabComes, LooksBefore
  <2> QED
    BY <2>1, <2>2
<1>5. \A b \in Bookings : bookings'[b].status = "seated" => TabComes(b)'
  BY <1>2 DEF BookingInv
<1>6. TablesApart'
  BY DEF BookingInv, TablesApart, Meets, EndOf
<1>7. bookingCalls' \in [BookingCalls -> BookingCall] /\ bookings' \in [Bookings -> Row] /\ misplaced' \subseteq Bookings
  BY DEF BookingInv
<1> QED
  BY <1>4, <1>5, <1>6, <1>7 DEF BookingInv

(* A call begins with what it read. *)
LEMMA CallBegins ==
  ASSUME BookingInv, NEW c \in BookingCalls, NEW b \in Bookings, NEW row \in Row, NEW todo \in Seq(Steps),
         NEW checked \in BOOLEAN, Begin(c, b, row, todo, checked), todo # <<>>,
         \A i \in 1 .. Len(todo) : todo[i] = "look" => i < Len(todo),
         row.status = "seated" => TabComes(b) \/ \E i \in DOMAIN todo : todo[i] = "tab",
         checked => \A x \in Bookings \ {b} : bookings[x].status \in Holding => ~Meets(row, bookings[x]),
         ~checked => row.table = bookings[b].table /\ row.start = bookings[b].start /\ row.len = bookings[b].len
  PROVE  BookingInv'
<1>1. PICK q : q = [todo |-> todo, booking |-> b, row |-> row, checked |-> checked, stale |-> FALSE]
  OBVIOUS
<1>2. FALSE \in BOOLEAN
  OBVIOUS
<1>3. q \in BookingCall /\ q.todo = todo /\ q.booking = b /\ q.row = row /\ q.checked = checked
  BY <1>1, <1>2 DEF BookingCall
<1>4. /\ bookingCalls' = [bookingCalls EXCEPT ![c] = q] /\ bookingCalls[c] = IdleBookingCall
      /\ UNCHANGED <<bookings, tabbed, clock, misplaced, cutOff>>
      /\ begun < MaxBookingCalls /\ begun' = begun + 1
  BY <1>1 DEF Begin
<1>5. begun' \in 0 .. MaxBookingCalls
  BY <1>4, BookingAssumption DEF BookingInv
<1>6. ~HasTab(bookingCalls[c])
  BY <1>4, IdleBookingTyped DEF HasTab
<1>7. LooksBefore(q) /\ RowFresh(q) /\ (q.row.status = "seated" => TabComes(q.booking) \/ HasTab(q))
  BY <1>3 DEF LooksBefore, RowFresh, HasTab
<1> QED
  BY <1>3, <1>4, <1>5, <1>6, <1>7, BookingOnly DEF BookingInv

(* Lists of statements. *)
LEMMA StepLists ==
  /\ <<"insert">> \in Seq(Steps) /\ <<"insert">> # <<>> /\ Len(<<"insert">>) = 1 /\ <<"insert">>[1] = "insert"
  /\ <<"save">> \in Seq(Steps) /\ <<"save">> # <<>> /\ Len(<<"save">>) = 1 /\ <<"save">>[1] = "save"
  /\ <<"insert", "tab">> \in Seq(Steps) /\ <<"insert", "tab">> # <<>> /\ Len(<<"insert", "tab">>) = 2
  /\ <<"insert", "tab">>[1] = "insert" /\ <<"insert", "tab">>[2] = "tab"
  BY DEF Steps

LEMMA SeatLists ==
  /\ <<"look", "tab", "save">> \in Seq(Steps) /\ <<"look", "tab", "save">> # <<>> /\ Len(<<"look", "tab", "save">>) = 3
  /\ <<"look", "tab", "save">>[1] = "look" /\ <<"look", "tab", "save">>[2] = "tab" /\ <<"look", "tab", "save">>[3] = "save"
  /\ <<"save", "look", "tab">> \in Seq(Steps) /\ <<"save", "look", "tab">> # <<>> /\ Len(<<"save", "look", "tab">>) = 3
  /\ <<"save", "look", "tab">>[1] = "save" /\ <<"save", "look", "tab">>[2] = "look" /\ <<"save", "look", "tab">>[3] = "tab"
  BY DEF Steps

LEMMA ListsLook ==
  ASSUME NEW todo \in {<<"insert">>, <<"save">>, <<"insert", "tab">>}
  PROVE  /\ todo \in Seq(Steps) /\ todo # <<>>
         /\ \A i \in 1 .. Len(todo) : todo[i] = "look" => i < Len(todo)
         /\ todo = <<"insert", "tab">> => \E i \in DOMAIN todo : todo[i] = "tab"
<1>1. CASE todo \in {<<"insert">>, <<"save">>}
  BY <1>1, StepLists
<1>2. CASE todo = <<"insert", "tab">>
  <2>1. /\ todo \in Seq(Steps) /\ todo # <<>> /\ Len(todo) = 2 /\ todo[1] = "insert" /\ todo[2] = "tab"
        /\ DOMAIN todo = 1 .. 2
    BY <1>2, StepLists
  <2> QED
    BY <2>1
<1> QED
  BY <1>1, <1>2

(* A table the look-up leaves is met by nobody at that time. *)
LEMMA FreeIsFree ==
  ASSUME NEW start, NEW len, NEW except, NEW t, t \notin TakenTables(start, len, except),
         NEW row, row.table = t, row.start = start, row.len = len
  PROVE  \A x \in Bookings \ {except} : bookings[x].status \in Holding => ~Meets(row, bookings[x])
  BY DEF TakenTables, InTheWay, Meets, EndOf

LEMMA BeginsCreate == ASSUME BookingInv, NEW c \in BookingCalls, BeginCreate(c) PROVE BookingInv'
<1>1. PICK b \in Bookings, party \in PartySizes, start \in StartTicks, len \in Lengths,
           status \in {"pending", "confirmed"} :
        \E t \in FreeTables(party, start, len, NoBooking) :
          Begin(c, b, [status |-> status, table |-> t, start |-> start, len |-> len], <<"insert">>, TRUE)
  BY DEF BeginCreate
<1>2. PICK t \in FreeTables(party, start, len, NoBooking) :
        Begin(c, b, [status |-> status, table |-> t, start |-> start, len |-> len], <<"insert">>, TRUE)
  BY <1>1
<1>3. t \in Tables /\ t \notin TakenTables(start, len, NoBooking)
  BY DEF FreeTables, UsableTables
<1>4. PICK row : row = [status |-> status, table |-> t, start |-> start, len |-> len]
  OBVIOUS
<1>5. row \in Row /\ row.status = status /\ row.table = t /\ row.start = start /\ row.len = len
  BY <1>3, <1>4 DEF Row, BookingStatus
<1>6. \A x \in Bookings \ {b} : bookings[x].status \in Holding => ~Meets(row, bookings[x])
  BY <1>3, <1>5, FreeIsFree, BookingAssumption
<1>7. PICK todo : todo = <<"insert">>
  OBVIOUS
<1>8. Begin(c, b, row, todo, TRUE) /\ TRUE \in BOOLEAN
  BY <1>2, <1>4, <1>7
<1>9. /\ todo \in Seq(Steps) /\ todo # <<>>
      /\ \A i \in 1 .. Len(todo) : todo[i] = "look" => i < Len(todo)
  BY <1>7, ListsLook
<1> QED
  BY <1>5, <1>6, <1>8, <1>9, CallBegins

LEMMA BeginsWalkin == ASSUME BookingInv, NEW c \in BookingCalls, BeginWalkin(c) PROVE BookingInv'
<1>1. PICK b \in Bookings, len \in Lengths, t \in Tables :
        /\ t \notin TakenTables(clock, len, NoBooking) /\ clock \in StartTicks
        /\ Begin(c, b, [status |-> "seated", table |-> t, start |-> clock, len |-> len], <<"insert", "tab">>, TRUE)
  BY DEF BeginWalkin
<1>2. PICK row : row = [status |-> "seated", table |-> t, start |-> clock, len |-> len]
  OBVIOUS
<1>3. row \in Row /\ row.table = t /\ row.start = clock /\ row.len = len
  BY <1>1, <1>2 DEF Row, BookingStatus
<1>4. \A x \in Bookings \ {b} : bookings[x].status \in Holding => ~Meets(row, bookings[x])
  BY <1>1, <1>3, FreeIsFree, BookingAssumption
<1>5. PICK todo : todo = <<"insert", "tab">>
  OBVIOUS
<1>6. Begin(c, b, row, todo, TRUE) /\ TRUE \in BOOLEAN
  BY <1>1, <1>2, <1>5
<1>7. /\ todo \in Seq(Steps) /\ todo # <<>>
      /\ \A i \in 1 .. Len(todo) : todo[i] = "look" => i < Len(todo)
      /\ \E i \in DOMAIN todo : todo[i] = "tab"
  BY <1>5, ListsLook
<1> QED
  BY <1>3, <1>4, <1>6, <1>7, CallBegins

LEMMA BeginsMove == ASSUME BookingInv, NEW c \in BookingCalls, BeginMove(c) PROVE BookingInv'
<1>1. PICK b \in Bookings, party \in PartySizes, start \in StartTicks, len \in Lengths :
        \E t \in FreeTables(party, start, len, b) :
          Begin(c, b, [bookings[b] EXCEPT !.table = t, !.start = start, !.len = len], <<"save">>, TRUE)
  BY DEF BeginMove
<1>2. PICK t \in FreeTables(party, start, len, b) :
        Begin(c, b, [bookings[b] EXCEPT !.table = t, !.start = start, !.len = len], <<"save">>, TRUE)
  BY <1>1
<1>3. t \in Tables /\ t \notin TakenTables(start, len, b)
  BY DEF FreeTables, UsableTables
<1>4. PICK row : row = [bookings[b] EXCEPT !.table = t, !.start = start, !.len = len]
  OBVIOUS
<1>5. bookings[b] \in Row
  BY DEF BookingInv
<1>6. row \in Row /\ row.status = bookings[b].status /\ row.table = t /\ row.start = start /\ row.len = len
  BY <1>3, <1>4, <1>5 DEF Row
<1>7. \A x \in Bookings \ {b} : bookings[x].status \in Holding => ~Meets(row, bookings[x])
  BY <1>3, <1>6, FreeIsFree
<1>8. PICK todo : todo = <<"save">>
  OBVIOUS
<1>9. Begin(c, b, row, todo, TRUE) /\ TRUE \in BOOLEAN
  BY <1>2, <1>4, <1>8
<1>10. row.status = "seated" => TabComes(b)
  BY <1>6 DEF BookingInv
<1>11. /\ todo \in Seq(Steps) /\ todo # <<>>
       /\ \A i \in 1 .. Len(todo) : todo[i] = "look" => i < Len(todo)
  BY <1>8, ListsLook
<1> QED
  BY <1>6, <1>7, <1>9, <1>10, <1>11, CallBegins

LEMMA BeginsStatus ==
  ASSUME BookingInv, NEW c \in BookingCalls,
         BeginSetStatus(c) \/ ConfirmByCode(c) \/ CancelByCode(c) \/ SeatBooking(c) \/ SendReminder(c)
  PROVE  BookingInv'
<1>1. PICK b \in Bookings, status \in BookingStatus, todo \in {<<"save">>, <<"look", "tab", "save">>, <<"save", "look", "tab">>} :
        /\ Begin(c, b, [bookings[b] EXCEPT !.status = status], todo, FALSE)
        /\ status = "seated" => todo # <<"save">>
  <2>1. CASE BeginSetStatus(c)
    <3>1. PICK b \in Bookings, status \in BookingStatus :
            Begin(c, b, [bookings[b] EXCEPT !.status = status],
                  IF status = "seated" THEN <<"look", "tab", "save">> ELSE <<"save">>, FALSE)
      BY <2>1 DEF BeginSetStatus
    <3>2. CASE status = "seated"
      <4>1. Begin(c, b, [bookings[b] EXCEPT !.status = status], <<"look", "tab", "save">>, FALSE)
        BY <3>1, <3>2
      <4>2. <<"look", "tab", "save">> # <<"save">>
        BY StepLists, SeatLists
      <4> QED
        BY <4>1, <4>2
    <3>3. CASE status # "seated"
      <4>1. Begin(c, b, [bookings[b] EXCEPT !.status = status], <<"save">>, FALSE)
        BY <3>1, <3>3
      <4> QED
        BY <3>3, <4>1
    <3> QED
      BY <3>2, <3>3
  <2>2. CASE ConfirmByCode(c) \/ CancelByCode(c)
    <3>1. PICK b \in Bookings, status \in {"confirmed", "over"} :
            Begin(c, b, [bookings[b] EXCEPT !.status = status], <<"save">>, FALSE)
      BY <2>2 DEF ConfirmByCode, CancelByCode
    <3> QED
      BY <3>1 DEF BookingStatus
  <2>3. CASE SeatBooking(c)
    <3>1. PICK b \in Bookings : Begin(c, b, [bookings[b] EXCEPT !.status = "seated"], <<"save", "look", "tab">>, FALSE)
      BY <2>3 DEF SeatBooking, SeatSteps
    <3>2. <<"save", "look", "tab">> # <<"save">>
      BY StepLists, SeatLists
    <3> QED
      BY <3>1, <3>2 DEF BookingStatus
  <2>4. CASE SendReminder(c)
    <3>1. PICK b \in Bookings : bookings[b].status \in {"pending", "confirmed"} /\ Begin(c, b, bookings[b], <<"save">>, FALSE)
      BY <2>4 DEF SendReminder
    <3>2. bookings[b] = [bookings[b] EXCEPT !.status = bookings[b].status]
      BY DEF BookingInv, Row
    <3> QED
      BY <3>1, <3>2 DEF BookingStatus
  <2> QED
    BY <2>1, <2>2, <2>3, <2>4
<1>2. PICK row : row = [bookings[b] EXCEPT !.status = status]
  OBVIOUS
<1>3. bookings[b] \in Row
  BY DEF BookingInv
<1>4. row \in Row /\ row.status = status /\ row.table = bookings[b].table
      /\ row.start = bookings[b].start /\ row.len = bookings[b].len
  BY <1>2, <1>3 DEF Row
<1>5. Begin(c, b, row, todo, FALSE) /\ FALSE \in BOOLEAN
  BY <1>1, <1>2
<1>6. /\ todo \in Seq(Steps) /\ todo # <<>>
      /\ \A i \in 1 .. Len(todo) : todo[i] = "look" => i < Len(todo)
      /\ todo # <<"save">> => \E i \in DOMAIN todo : todo[i] = "tab"
  <2>1. CASE todo = <<"save">>
    BY <2>1, StepLists
  <2>2. CASE todo = <<"look", "tab", "save">>
    <3>1. Len(todo) = 3 /\ todo[1] = "look" /\ todo[2] = "tab" /\ todo[3] = "save" /\ todo \in Seq(Steps) /\ todo # <<>>
      BY <2>2, SeatLists
    <3>2. DOMAIN todo = 1 .. 3
      BY <3>1
    <3> QED
      BY <3>1, <3>2
  <2>3. CASE todo = <<"save", "look", "tab">>
    <3>1. Len(todo) = 3 /\ todo[1] = "save" /\ todo[2] = "look" /\ todo[3] = "tab" /\ todo \in Seq(Steps) /\ todo # <<>>
      BY <2>3, SeatLists
    <3>2. DOMAIN todo = 1 .. 3
      BY <3>1
    <3> QED
      BY <3>1, <3>2
  <2> QED
    BY <2>1, <2>2, <2>3
<1> QED
  BY <1>1, <1>4, <1>5, <1>6, CallBegins

---------------------------------------------------------------------------
(* The statements. *)

LEMMA AtStep ==
  ASSUME BookingInv, NEW c \in BookingCalls, bookingCalls[c] # IdleBookingCall
  PROVE  /\ bookingCalls[c] \in BookingCall /\ bookingCalls[c].todo # <<>> /\ bookingCalls[c].booking \in Bookings
         /\ LooksBefore(bookingCalls[c]) /\ Len(bookingCalls[c].todo) \in Nat /\ Len(bookingCalls[c].todo) >= 1
         /\ bookingCalls[c].row.status = "seated" => TabComes(bookingCalls[c].booking)
         /\ ~bookingCalls[c].stale => RowFresh(bookingCalls[c])
<1>1. bookingCalls[c] \in BookingCall /\ BookingSound(bookingCalls[c])
  BY DEF BookingInv
<1>2. bookingCalls[c].todo \in Seq(Steps) /\ bookingCalls[c].todo # <<>>
  BY <1>1 DEF BookingSound, BookingCall
<1>3. Len(bookingCalls[c].todo) \in Nat /\ Len(bookingCalls[c].todo) >= 1
  BY <1>2
<1> QED
  BY <1>1, <1>2, <1>3 DEF BookingSound

(* A call that takes n statements off its list, and leaves a tab to open unless it is there by then. *)
LEMMA TakesSteps ==
  ASSUME BookingInv, NEW c \in BookingCalls, bookingCalls[c] # IdleBookingCall, NEW n \in {1, 2},
         n <= Len(bookingCalls[c].todo), bookingCalls' = [bookingCalls EXCEPT ![c] = Rest(@, n)],
         UNCHANGED <<bookings, clock, begun, misplaced, cutOff>>,
         tabbed \subseteq tabbed', tabbed' \subseteq Bookings,
         (n = 1 /\ Head(bookingCalls[c].todo) # "tab") \/ bookingCalls[c].booking \in tabbed'
  PROVE  BookingInv'
<1>1. PICK me : me = bookingCalls[c]
  OBVIOUS
<1>2. /\ me \in BookingCall /\ me.todo # <<>> /\ me.booking \in Bookings /\ LooksBefore(me)
      /\ me.row.status = "seated" => TabComes(me.booking)
      /\ ~me.stale => RowFresh(me)
  BY <1>1, AtStep
<1>3. PICK q : q = Rest(me, n)
  OBVIOUS
<1>4. /\ q \in BookingCall
      /\ \/ q = IdleBookingCall
         \/ /\ q.todo # <<>> /\ LooksBefore(q) /\ q.booking = me.booking /\ q.row = me.row
            /\ q.checked = me.checked /\ q.stale = me.stale
      /\ n = 1 /\ Head(me.todo) # "tab" /\ HasTab(me) => HasTab(q) /\ q.booking = me.booking
  BY <1>1, <1>2, <1>3, RestOfCall
<1>5. bookingCalls' = [bookingCalls EXCEPT ![c] = q]
  BY <1>1, <1>3
<1>6. \/ q = IdleBookingCall
      \/ /\ q.todo # <<>> /\ q.booking \in Bookings /\ LooksBefore(q)
         /\ q.row.status = "seated" => TabComes(q.booking) \/ HasTab(q)
         /\ ~q.stale => RowFresh(q)
  <2>1. ASSUME q # IdleBookingCall, ~q.stale PROVE RowFresh(q)
    BY <1>2, <1>4, <2>1 DEF RowFresh
  <2> QED
    BY <1>2, <1>4, <2>1
<1>7. HasTab(me) => \/ HasTab(q) /\ q.booking = me.booking
                    \/ me.booking \in tabbed' \cup cutOff'
  BY <1>1, <1>4
<1>8. clock' \in 0 .. LastTick /\ begun' \in 0 .. MaxBookingCalls /\ cutOff' \subseteq Bookings
  BY DEF BookingInv
<1> QED
  BY <1>1, <1>4, <1>5, <1>6, <1>7, <1>8, BookingOnly

LEMMA DoingIsAt ==
  ASSUME BookingInv, NEW c \in BookingCalls, NEW step, Doing(c, step)
  PROVE  bookingCalls[c] # IdleBookingCall /\ Head(bookingCalls[c].todo) = step
  BY IdleBookingTyped DEF Doing

LEMMA Looks == ASSUME BookingInv, NEW c \in BookingCalls, LookForTab(c) PROVE BookingInv'
<1>1. /\ bookingCalls[c] # IdleBookingCall /\ Head(bookingCalls[c].todo) = "look"
      /\ UNCHANGED <<bookings, tabbed, clock, begun, misplaced, cutOff>>
  BY DoingIsAt DEF LookForTab
<1>2. PICK n \in {1, 2} : n = IF bookingCalls[c].booking \in tabbed THEN 2 ELSE 1
  OBVIOUS
<1>3. bookingCalls' = [bookingCalls EXCEPT ![c] = Rest(@, n)]
  BY <1>2 DEF LookForTab
<1>4. n <= Len(bookingCalls[c].todo)
  <2>1. PICK s \in Seq(Steps) : s = bookingCalls[c].todo
    BY <1>1, AtStep DEF BookingCall
  <2>2. s[1] = "look" /\ Len(s) \in Nat /\ Len(s) >= 1
    BY <1>1, <2>1, AtStep
  <2>3. 1 < Len(s)
    BY <1>1, <2>1, <2>2, AtStep DEF LooksBefore
  <2> QED
    BY <2>1, <2>2, <2>3
<1>5. (n = 1 /\ Head(bookingCalls[c].todo) # "tab") \/ bookingCalls[c].booking \in tabbed'
  BY <1>1, <1>2
<1> QED
  BY <1>1, <1>3, <1>4, <1>5, TakesSteps DEF BookingInv

LEMMA Opens == ASSUME BookingInv, NEW c \in BookingCalls, CreateTab(c) PROVE BookingInv'
<1>1. /\ bookingCalls[c] # IdleBookingCall /\ tabbed' = tabbed \cup {bookingCalls[c].booking}
      /\ bookingCalls' = [bookingCalls EXCEPT ![c] = Rest(@, 1)]
      /\ UNCHANGED <<bookings, clock, begun, misplaced, cutOff>>
  BY DoingIsAt DEF CreateTab
<1>2. bookingCalls[c].booking \in Bookings /\ 1 <= Len(bookingCalls[c].todo)
  BY <1>1, AtStep
<1>3. tabbed \subseteq tabbed' /\ tabbed' \subseteq Bookings
  BY <1>1, <1>2 DEF BookingInv
<1> QED
  BY <1>1, <1>2, <1>3, TakesSteps

LEMMA Aborts == ASSUME BookingInv, NEW c \in BookingCalls, AbortBooking(c) PROVE BookingInv'
<1>1. /\ bookingCalls[c] # IdleBookingCall /\ bookingCalls' = [bookingCalls EXCEPT ![c] = IdleBookingCall]
      /\ cutOff' = IF HasTab(bookingCalls[c]) THEN cutOff \cup {bookingCalls[c].booking} ELSE cutOff
      /\ UNCHANGED <<bookings, tabbed, clock, begun, misplaced>>
  BY DEF AbortBooking, HasTab
<1>2. bookingCalls[c].booking \in Bookings
  BY <1>1, AtStep
<1>3. /\ cutOff \subseteq cutOff' /\ cutOff' \subseteq Bookings
      /\ HasTab(bookingCalls[c]) => bookingCalls[c].booking \in cutOff'
  BY <1>1, <1>2 DEF BookingInv
<1>4. clock' \in 0 .. LastTick /\ begun' \in 0 .. MaxBookingCalls /\ tabbed' \subseteq Bookings
  BY <1>1 DEF BookingInv
<1> QED
  BY <1>1, <1>3, <1>4, IdleBookingTyped, BookingOnly

LEMMA TimeGoesBy == ASSUME BookingInv, TimePasses PROVE BookingInv'
<1>1. clock' \in 0 .. LastTick /\ UNCHANGED <<bookings, tabbed, bookingCalls, begun, misplaced, cutOff>>
  BY BookingAssumption DEF TimePasses, BookingInv
<1> QED
  BY <1>1 DEF BookingInv, BookingSound, TabComes, RowFresh, TablesApart, Meets, EndOf, HasTab, LooksBefore

(* A write makes the others stale and no tab less to come. *)
LEMMA BookingWritten ==
  ASSUME BookingInv, NEW c \in BookingCalls, bookingCalls[c] # IdleBookingCall,
         Head(bookingCalls[c].todo) # "tab", WriteRow(c)
  PROVE  BookingInv'
<1>1. PICK me, b : me = bookingCalls[c] /\ b = me.booking
  OBVIOUS
<1>2. /\ me \in BookingCall /\ me.todo # <<>> /\ b \in Bookings /\ LooksBefore(me) /\ 1 <= Len(me.todo)
      /\ me.row.status = "seated" => TabComes(b)
      /\ ~me.stale => RowFresh(me)
  BY <1>1, AtStep
<1>3. PICK row \in Row : row = me.row
  BY <1>2 DEF BookingCall
<1>4. PICK q : q = Rest(me, 1)
  OBVIOUS
<1>5. /\ q \in BookingCall
      /\ \/ q = IdleBookingCall
         \/ /\ q.todo # <<>> /\ LooksBefore(q) /\ q.booking = me.booking /\ q.row = me.row
            /\ q.checked = me.checked /\ q.stale = me.stale
      /\ HasTab(me) => HasTab(q) /\ q.booking = me.booking
  BY <1>1, <1>2, <1>4, RestOfCall
<1>6. /\ bookings' = [bookings EXCEPT ![b] = row]
      /\ bookingCalls' = [d \in BookingCalls |->
           IF d = c THEN q ELSE [bookingCalls[d] EXCEPT !.stale = bookingCalls[d] # IdleBookingCall]]
      /\ UNCHANGED <<tabbed, clock, begun, cutOff>>
  BY <1>1, <1>3, <1>4 DEF WriteRow
<1>7. \/ me.checked /\ ~me.stale /\ misplaced' = misplaced \ {b}
      \/ misplaced' = misplaced \cup {b}
      \/ /\ ~me.checked /\ ~me.stale /\ misplaced' = misplaced
         /\ row.status \in Holding => bookings[b].status \in Holding
  BY <1>1, <1>3 DEF WriteRow
<1>8. bookings' \in [Bookings -> Row] /\ bookings'[b] = row /\ \A x \in Bookings \ {b} : bookings'[x] = bookings[x]
  BY <1>2, <1>3, <1>6 DEF BookingInv
<1>9. bookingCalls'[c] = q /\ \A d \in BookingCalls \ {c} :
        /\ bookingCalls'[d] \in BookingCall
        /\ bookingCalls'[d].todo = bookingCalls[d].todo /\ bookingCalls'[d].booking = bookingCalls[d].booking
        /\ bookingCalls'[d].row = bookingCalls[d].row
        /\ bookingCalls[d] = IdleBookingCall => bookingCalls'[d] = IdleBookingCall
        /\ bookingCalls[d] # IdleBookingCall => bookingCalls'[d].stale
  <2>1. ASSUME NEW d \in BookingCalls \ {c}
        PROVE  /\ bookingCalls'[d] \in BookingCall
               /\ bookingCalls'[d].todo = bookingCalls[d].todo /\ bookingCalls'[d].booking = bookingCalls[d].booking
               /\ bookingCalls'[d].row = bookingCalls[d].row
               /\ bookingCalls[d] = IdleBookingCall => bookingCalls'[d] = IdleBookingCall
               /\ bookingCalls[d] # IdleBookingCall => bookingCalls'[d].stale
    <3>1. PICK s \in BOOLEAN : s = (bookingCalls[d] # IdleBookingCall)
      OBVIOUS
    <3>2. PICK x \in BookingCall : x = bookingCalls[d]
      BY DEF BookingInv
    <3>3. bookingCalls'[d] = [x EXCEPT !.stale = s]
      BY <1>6, <3>1, <3>2
    <3>4. ASSUME x = IdleBookingCall PROVE [x EXCEPT !.stale = s] = IdleBookingCall
      <4>a. bookingCalls[d] = IdleBookingCall
        BY <3>2, <3>4
      <4>b. ~s
        BY <3>1, <4>a
      <4>c. x.stale = FALSE
        BY <3>4 DEF IdleBookingCall
      <4>1. s = FALSE /\ x.stale = FALSE
        BY <4>b, <4>c
      <4>2. PICK y : y = [x EXCEPT !.stale = s]
        OBVIOUS
      <4>3. /\ y.todo = x.todo /\ y.booking = x.booking /\ y.row = x.row /\ y.checked = x.checked
            /\ y.stale = x.stale /\ y \in BookingCall
        BY <4>1, <4>2 DEF BookingCall
      <4>4. y = x
        BY <4>3 DEF BookingCall
      <4> QED
        BY <3>4, <4>2, <4>4
    <3> QED
      BY <3>1, <3>2, <3>3, <3>4 DEF BookingCall
  <2>2. bookingCalls'[c] = q
    BY <1>6
  <2> QED
    BY <2>1, <2>2
<1>10. \A x : TabComes(x) => TabComes(x)'
  <2> SUFFICES ASSUME NEW x, TabComes(x) PROVE TabComes(x)'
    OBVIOUS
  <2>1. CASE x \in tabbed \/ x \in cutOff
    BY <1>6, <2>1 DEF TabComes
  <2>2. CASE \E d \in BookingCalls : bookingCalls[d].booking = x /\ HasTab(bookingCalls[d])
    <3>1. PICK d \in BookingCalls : bookingCalls[d].booking = x /\ HasTab(bookingCalls[d])
      BY <2>2
    <3>2. CASE d = c
      BY <1>1, <1>5, <1>9, <3>1, <3>2 DEF TabComes, HasTab
    <3>3. CASE d # c
      BY <1>9, <3>1, <3>3 DEF TabComes, HasTab
    <3> QED
      BY <3>2, <3>3
  <2> QED
    BY <2>1, <2>2 DEF TabComes
<1>11. \A x \in Bookings : bookings'[x].status = "seated" => TabComes(x)'
  BY <1>2, <1>3, <1>8, <1>10 DEF BookingInv
<1>12. ASSUME NEW d \in BookingCalls PROVE BookingSound(bookingCalls[d])'
  <2>1. CASE d = c
    <3>1. ASSUME q # IdleBookingCall, ~q.stale PROVE RowFresh(q)'
      <4>1. RowFresh(me) /\ q.checked = me.checked /\ q.booking = b /\ q.row = row
        BY <1>1, <1>2, <1>3, <1>5, <3>1
      <4>2. q.checked => \A x \in Bookings \ {b} : bookings'[x].status \in Holding => ~Meets(q.row, bookings'[x])
        BY <1>1, <1>3, <1>8, <4>1 DEF RowFresh
      <4>3. /\ q.row.table = bookings'[b].table /\ q.row.start = bookings'[b].start
            /\ q.row.len = bookings'[b].len
        BY <1>8, <4>1
      <4> QED
        BY <4>1, <4>2, <4>3 DEF RowFresh, Meets, EndOf
    <3>2. BookingSound(q)'
      BY <1>1, <1>2, <1>5, <1>10, <3>1 DEF BookingSound, LooksBefore
    <3> QED
      BY <1>9, <2>1, <3>2 DEF BookingSound, RowFresh, TabComes, LooksBefore
  <2>2. CASE d # c
    <3>1. PICK x : x = bookingCalls'[d]
      OBVIOUS
    <3>2. CASE bookingCalls[d] = IdleBookingCall
      BY <1>9, <2>2, <3>2 DEF BookingSound
    <3>3. CASE bookingCalls[d] # IdleBookingCall
      <4>1. /\ x.todo # <<>> /\ x.booking \in Bookings /\ x.stale
            /\ \A i \in 1 .. Len(x.todo) : x.todo[i] = "look" => i < Len(x.todo)
            /\ x.row.status = "seated" => TabComes(x.booking)
        BY <1>9, <2>2, <3>1, <3>3, AtStep DEF LooksBefore
      <4>2. BookingSound(x)'
        BY <1>10, <4>1 DEF BookingSound, LooksBefore
      <4> QED
        BY <3>1, <4>2 DEF BookingSound, RowFresh, TabComes, LooksBefore
    <3> QED
      BY <3>2, <3>3
  <2> QED
    BY <2>1, <2>2
<1>13. ASSUME NEW x \in Bookings, NEW y \in Bookings, x # y, bookings'[x].status \in Holding,
              bookings'[y].status \in Holding, Meets(bookings'[x], bookings'[y])
       PROVE  x \in misplaced' \/ y \in misplaced'
  <2>1. CASE misplaced' = misplaced \cup {b} /\ b \in {x, y}
    BY <2>1
  <2>2. CASE b \notin {x, y}
    <3>1. x \in misplaced \/ y \in misplaced
      BY <1>8, <1>13, <2>2 DEF BookingInv, TablesApart
    <3> QED
      BY <1>7, <2>2, <3>1
  <2>3. CASE me.checked /\ ~me.stale /\ b \in {x, y}
    <3>1. PICK z \in Bookings : z # b /\ z \in {x, y}
      BY <1>13
    <3>2. bookings[z].status \in Holding => ~Meets(row, bookings[z])
      BY <1>1, <1>2, <1>3, <2>3, <3>1 DEF RowFresh
    <3>3. bookings'[z] = bookings[z] /\ bookings'[z].status \in Holding
      BY <1>8, <1>13, <3>1
    <3>4. Meets(row, bookings'[z])
      <4>1. CASE x = b
        BY <1>8, <1>13, <2>3, <3>1, <4>1
      <4>2. CASE y = b
        <5>1. Meets(bookings'[z], row)
          BY <1>8, <1>13, <2>3, <3>1, <4>2
        <5> QED
          BY <5>1 DEF Meets
      <4> QED
        BY <2>3, <4>1, <4>2
    <3> QED
      BY <3>2, <3>3, <3>4
  <2>4. CASE ~me.checked /\ ~me.stale /\ misplaced' = misplaced /\ b \in {x, y}
             /\ (row.status \in Holding => bookings[b].status \in Holding)
    <3>1. /\ row.table = bookings[b].table /\ row.start = bookings[b].start /\ row.len = bookings[b].len
      BY <1>1, <1>2, <1>3, <2>4 DEF RowFresh
    <3>2. \A z \in Bookings : /\ bookings'[z].table = bookings[z].table /\ bookings'[z].start = bookings[z].start
                              /\ bookings'[z].len = bookings[z].len
      BY <1>8, <3>1
    <3>3. Meets(bookings[x], bookings[y])
      BY <1>13, <3>2 DEF Meets, EndOf
    <3>4. bookings[x].status \in Holding /\ bookings[y].status \in Holding
      BY <1>8, <1>13, <2>4
    <3> QED
      BY <1>13, <2>4, <3>3, <3>4 DEF BookingInv, TablesApart
  <2> QED
    BY <1>7, <2>1, <2>2, <2>3, <2>4
<1>14. TablesApart'
  BY <1>13 DEF TablesApart, Meets, EndOf
<1>15. bookingCalls' \in [BookingCalls -> BookingCall]
  BY <1>5, <1>6, <1>9
<1>16. misplaced' \subseteq Bookings
  BY <1>2, <1>7 DEF BookingInv
<1> QED
  BY <1>6, <1>8, <1>11, <1>12, <1>14, <1>15, <1>16 DEF BookingInv

LEMMA WritesRow == ASSUME BookingInv, NEW c \in BookingCalls, InsertBooking(c) \/ SaveBooking(c) PROVE BookingInv'
<1>1. WriteRow(c) /\ bookingCalls[c] # IdleBookingCall /\ Head(bookingCalls[c].todo) # "tab"
  BY DoingIsAt DEF InsertBooking, SaveBooking
<1> QED
  BY <1>1, BookingWritten

LEMMA BookingStep == ASSUME BookingInv, [BookingNext]_bookingVars PROVE BookingInv'
<1>1. CASE UNCHANGED bookingVars
  BY <1>1 DEF BookingInv, BookingSound, TabComes, RowFresh, TablesApart, Meets, EndOf, HasTab, LooksBefore, bookingVars
<1>2. CASE BookingNext
  BY <1>2, BeginsCreate, BeginsWalkin, BeginsMove, BeginsStatus, WritesRow, Looks, Opens, Aborts, TimeGoesBy DEF BookingNext
<1> QED
  BY <1>1, <1>2

(* The invariant of the bookings holds in every reachable state of reservations.service.ts. *)
THEOREM BookingInvariant == BookingSpec => []BookingInv
  BY BookingInitial, BookingStep, PTL DEF BookingSpec

LEMMA BookingImplies == BookingInv => BookingTypeOK /\ NoDoubleBooking /\ SeatedHasTab
<1> SUFFICES ASSUME BookingInv PROVE BookingTypeOK /\ NoDoubleBooking /\ SeatedHasTab
  OBVIOUS
<1>1. BookingTypeOK
  <2>1. ASSUME NEW c \in BookingCalls
        PROVE  /\ bookingCalls[c] \in BookingCall
               /\ (bookingCalls[c].booking = NoBooking) <=> (bookingCalls[c].todo = <<>>)
    BY IdleBookingTyped, BookingAssumption DEF BookingInv, BookingSound
  <2> QED
    BY <2>1 DEF BookingInv, BookingTypeOK, BookingCall
<1>2. SeatedHasTab
  BY DEF BookingInv, SeatedHasTab, TabComes, HasTab
<1>3. NoDoubleBooking
  <2> SUFFICES ASSUME NEW a \in Bookings, NEW b \in Bookings, a # b,
                      bookings[a].status \in {"pending", "confirmed", "seated"},
                      bookings[b].status \in {"pending", "confirmed", "seated"},
                      bookings[a].table = bookings[b].table, Slots(a) \cap Slots(b) # {}
               PROVE  a \in misplaced \/ b \in misplaced
    BY DEF NoDoubleBooking
  <2>1. PICK x : x \in Slots(a) /\ x \in Slots(b)
    OBVIOUS
  <2>2. /\ bookings[a].start \in Nat /\ bookings[a].len \in Nat /\ bookings[b].start \in Nat /\ bookings[b].len \in Nat
    BY RowNumbers DEF BookingInv
  <2>3. Meets(bookings[a], bookings[b])
    BY <2>1, <2>2 DEF Slots, Meets, EndOf
  <2> QED
    BY <2>3 DEF BookingInv, TablesApart, Holding
<1> QED
  BY <1>1, <1>2, <1>3

(* The availability endpoint's loop and the look-up of create() agree on every slot, whatever is booked. *)
LEMMA OfferedAre == BookableIsOffered
<1> SUFFICES ASSUME NEW party \in PartySizes, NEW s \in StartTicks, FreeTables(party, s, DefaultLength, NoBooking) # {}
             PROVE  s \in OfferedSlots(party)
  BY DEF BookableIsOffered
<1>1. PICK t : t \in FreeTables(party, s, DefaultLength, NoBooking)
  OBVIOUS
<1>2. /\ s + DefaultLength <= Closing /\ t \in UsableTables(party)
      /\ t \notin TakenTables(s, DefaultLength, NoBooking)
  BY <1>1 DEF FreeTables
<1>3. t \in Tables /\ Capacity[t] >= party
  <2>1. t \in Tables /\ (Capacity[t] = party \/ Capacity[t] > party)
    BY <1>2 DEF UsableTables
  <2>2. party \in Nat /\ Capacity[t] \in Nat
    BY <2>1, BookingAssumption
  <2> QED
    BY <2>1, <2>2
<1> QED
  BY <1>2, <1>3 DEF OfferedSlots, SlotTables

(* Rows, calls and histories keep their types. *)
THEOREM BookingTypeCorrect == BookingSpec => []BookingTypeOK
  BY BookingInvariant, BookingImplies, PTL

(* Two bookings hold one table at one time only if one of them was written unchecked or overtaken, and what   *)
(* create() accepts is offered (checkAvailability and the availability endpoint of reservations.service.ts). *)
THEOREM TablesAreKeptAlways == BookingSpec => []TablesAreKept
<1>1. BookingInv => TablesAreKept
  BY BookingImplies, OfferedAre DEF TablesAreKept
<1> QED
  BY <1>1, BookingInvariant, PTL

(* A seated party has a tab, or gets it yet, or its seating was cut off before (createTabFromReservation).     *)
THEOREM SeatedHasTabAlways == BookingSpec => []SeatedHasTab
  BY BookingInvariant, BookingImplies, PTL

---------------------------------------------------------------------------
(***************************************************************************)
(* Subscriptions.  While nothing spoilt it, paid time is in the row itself: *)
(* active or cancelled, with a period that reaches as far.  A request that  *)
(* no save came between still writes the period it found.                   *)
(***************************************************************************)

Biller ==
  [does: {"nothing", "initialize", "charge", "link", "failed", "cancel", "extend", "grant", "expire"},
   row: SubRow, until: 0 .. LastDate, stale: BOOLEAN]

(* What a request or the job is about to save. *)
BillerSound(b) ==
  /\ b.does = "nothing" => b = IdleBiller
  /\ b.does \in {"charge", "grant"} => b.row.status = "active" /\ b.row.period = b.until
  /\ b.does = "cancel" => b.row.status = "canceled"
  /\ ~b.stale =>
       /\ b.does \in {"link", "cancel", "extend", "expire"} => b.row.period = sub.period
       /\ b.does = "link" => b.row.status = sub.status
       /\ b.does = "extend" => b.row.status = sub.status \/ sub.status = "expired"
       /\ b.does = "expire" => Overdue

PaidTimeStands ==
  spoilt = {} /\ today < paidUntil => sub.status \in {"active", "canceled"} /\ sub.period >= paidUntil

SubscriptionInv ==
  /\ sub \in SubRow /\ today \in 1 .. LastDay
  /\ billers \in [Billers -> Biller] /\ nightly \in Biller
  /\ billingsBegun \in 0 .. MaxBillings /\ paidUntil \in 0 .. LastDate
  /\ spoilt \subseteq Reasons
  /\ \A c \in Billers : BillerSound(billers[c]) /\ billers[c].does # "expire"
  /\ BillerSound(nightly) /\ nightly.does \in {"nothing", "expire"}
  /\ PaidTimeStands

LEMMA Dates ==
  /\ LastDate \in Nat /\ LastDay \in Nat /\ 0 \in 0 .. LastDate /\ 1 \in 1 .. LastDay
  /\ \A d \in 1 .. LastDay : d + Trial \in 0 .. LastDate /\ d + Period \in 0 .. LastDate
                             /\ d + Grace \in 0 .. LastDate
  BY SubscriptionAssumption DEF LastDate

LEMMA SubNumbers ==
  ASSUME SubscriptionInv
  PROVE  /\ sub.trial \in Nat /\ sub.period \in Nat /\ sub.grace \in Nat
         /\ today \in Nat /\ today \in 1 .. LastDay /\ paidUntil \in Nat /\ 0 .. LastDate \subseteq Nat
<1>1. sub \in SubRow /\ today \in 1 .. LastDay /\ paidUntil \in 0 .. LastDate
  BY DEF SubscriptionInv
<1>2. LastDate \in Nat /\ LastDay \in Nat
  BY Dates
<1>3. sub.trial \in 0 .. LastDate /\ sub.period \in 0 .. LastDate /\ sub.grace \in 0 .. LastDate
  BY <1>1 DEF SubRow
<1>4. today \in Nat /\ paidUntil \in Nat /\ 0 .. LastDate \subseteq Nat
  BY <1>1, <1>2
<1> QED
  BY <1>1, <1>2, <1>3, <1>4

LEMMA IdleBillerTyped == NoSub \in SubRow /\ IdleBiller \in Biller /\ IdleBiller.does = "nothing"
<1>1. FALSE \in BOOLEAN
  OBVIOUS
<1>2. NoSub \in SubRow
  BY <1>1, Dates DEF NoSub, SubRow, SubStatus
<1> QED
  BY <1>1, <1>2, Dates DEF IdleBiller, Biller

LEMMA OnTrialTyped == ASSUME today \in 1 .. LastDay PROVE OnTrial \in SubRow
<1>1. FALSE \in BOOLEAN
  OBVIOUS
<1> QED
  BY <1>1, Dates DEF OnTrial, NoSub, SubRow, SubStatus

LEMMA SubscriptionInitial == SubscriptionInit => SubscriptionInv
<1> SUFFICES ASSUME SubscriptionInit PROVE SubscriptionInv
  OBVIOUS
<1>1. today \in 1 .. LastDay /\ paidUntil = 0 /\ spoilt = {} /\ billingsBegun = 0
  BY Dates DEF SubscriptionInit
<1>2. sub \in SubRow
  BY <1>1, OnTrialTyped, IdleBillerTyped DEF SubscriptionInit
<1>3. nightly = IdleBiller /\ billers = [c \in Billers |-> IdleBiller]
  BY DEF SubscriptionInit
<1>4. BillerSound(IdleBiller)
  BY DEF BillerSound, IdleBiller
<1>5. PaidTimeStands
  BY <1>1 DEF PaidTimeStands
<1> QED
  BY <1>1, <1>2, <1>3, <1>4, <1>5, IdleBillerTyped, Dates, SubscriptionAssumption DEF SubscriptionInv

---------------------------------------------------------------------------
(* Beginnings: only one request is new, and it holds what it read. *)

LEMMA BillerOnly ==
  ASSUME SubscriptionInv, NEW c \in Billers, NEW q \in Biller, BillerSound(q), q.does # "expire",
         billers' = [billers EXCEPT ![c] = q], billingsBegun' \in 0 .. MaxBillings,
         UNCHANGED <<sub, today, nightly, paidUntil, spoilt>>
  PROVE  SubscriptionInv'
<1>1. billers' \in [Billers -> Biller] /\ BillerSound(nightly)'
  BY DEF SubscriptionInv, BillerSound, Overdue, Ended
<1>2. \A d \in Billers : BillerSound(billers[d])' /\ billers'[d].does # "expire"
  BY DEF SubscriptionInv, BillerSound, Overdue, Ended
<1> QED
  BY <1>1, <1>2 DEF SubscriptionInv, PaidTimeStands

LEMMA BillingBegins ==
  ASSUME SubscriptionInv, NEW c \in Billers,
         NEW does \in {"initialize", "charge", "link", "failed", "cancel", "extend", "grant"},
         NEW row \in SubRow, NEW until \in 0 .. LastDate, BeginBilling(c, does, row, until),
         does \in {"charge", "grant"} => row.status = "active" /\ row.period = until,
         does = "cancel" => row.status = "canceled",
         does \in {"link", "cancel", "extend"} => row.period = sub.period,
         does = "link" => row.status = sub.status,
         does = "extend" => row.status = sub.status \/ sub.status = "expired"
  PROVE  SubscriptionInv'
<1>1. PICK q : q = [does |-> does, row |-> row, until |-> until, stale |-> FALSE]
  OBVIOUS
<1>2. FALSE \in BOOLEAN
  OBVIOUS
<1>3. q \in Biller /\ q.does = does /\ q.row = row /\ q.until = until
  BY <1>1, <1>2 DEF Biller
<1>4. BillerSound(q) /\ q.does # "expire"
  BY <1>3 DEF BillerSound
<1>5. /\ billers' = [billers EXCEPT ![c] = q] /\ UNCHANGED <<sub, today, nightly, paidUntil, spoilt>>
      /\ billingsBegun < MaxBillings /\ billingsBegun' = billingsBegun + 1
  BY <1>1 DEF BeginBilling
<1>6. billingsBegun' \in 0 .. MaxBillings
  <2>1. billingsBegun \in 0 .. MaxBillings /\ MaxBillings \in Nat
    BY SubscriptionAssumption DEF SubscriptionInv
  <2> QED
    BY <1>5, <2>1
<1> QED
  BY <1>3, <1>4, <1>5, <1>6, BillerOnly

(* The requests that set one column of the status and keep the rest. *)
LEMMA BillerBegins ==
  ASSUME SubscriptionInv, NEW c \in Billers,
         \/ Initialize(c) \/ ChargeSuccess(c) \/ SubscriptionCreate(c) \/ InvoicePaymentFailed(c)
         \/ SubscriptionDisable(c) \/ CancelSubscription(c) \/ ExtendGracePeriod(c) \/ AdminGrant(c)
  PROVE  SubscriptionInv'
<1>0. sub \in SubRow /\ today \in 1 .. LastDay
  BY DEF SubscriptionInv
<1>1. CASE Initialize(c)
  <2>1. PICK row : row = IF Subscribed THEN [sub EXCEPT !.status = "trialing"] ELSE OnTrial
    OBVIOUS
  <2>2. row \in SubRow
    BY <1>0, <2>1, OnTrialTyped DEF SubRow, SubStatus
  <2>3. BeginBilling(c, "initialize", row, 0)
    BY <1>1, <2>1 DEF Initialize
  <2> QED
    BY <2>2, <2>3, BillingBegins, Dates
<1>2. CASE ChargeSuccess(c)
  <2>0. PICK day \in 1 .. today :
          \E end \in {day + Period, today + Period} : BeginBilling(c, "charge", Paid(end), end)
    BY <1>2 DEF ChargeSuccess
  <2>1. PICK end \in {day + Period, today + Period} : BeginBilling(c, "charge", Paid(end), end)
    BY <2>0
  <2>2. day \in 1 .. LastDay
    BY <1>0, Dates
  <2>3. end \in 0 .. LastDate
    BY <1>0, <2>2, Dates
  <2>4. PICK row : row = Paid(end)
    OBVIOUS
  <2>5. TRUE \in BOOLEAN
    OBVIOUS
  <2>6. row \in SubRow /\ row.status = "active" /\ row.period = end
    BY <1>0, <2>3, <2>4, <2>5, Dates DEF Paid, SubRow, SubStatus
  <2>7. BeginBilling(c, "charge", row, end)
    BY <2>1, <2>4
  <2> QED
    BY <2>3, <2>6, <2>7, BillingBegins
<1>3. CASE SubscriptionCreate(c)
  <2>1. PICK row : row = [sub EXCEPT !.linked = TRUE]
    OBVIOUS
  <2>2. TRUE \in BOOLEAN
    OBVIOUS
  <2>3. row \in SubRow /\ row.period = sub.period /\ row.status = sub.status
    BY <1>0, <2>1, <2>2 DEF SubRow
  <2>4. BeginBilling(c, "link", row, 0)
    BY <1>3, <2>1 DEF SubscriptionCreate
  <2> QED
    BY <2>3, <2>4, BillingBegins, Dates
<1>4. CASE InvoicePaymentFailed(c)
  <2>1. PICK row : row = [sub EXCEPT !.status = "past_due", !.grace = today + Grace]
    OBVIOUS
  <2>2. row \in SubRow
    BY <1>0, <2>1, Dates DEF SubRow, SubStatus
  <2>3. BeginBilling(c, "failed", row, 0)
    BY <1>4, <2>1 DEF InvoicePaymentFailed
  <2> QED
    BY <2>2, <2>3, BillingBegins, Dates
<1>5. CASE SubscriptionDisable(c) \/ CancelSubscription(c)
  <2>1. PICK row : row = [sub EXCEPT !.status = "canceled"]
    OBVIOUS
  <2>2. row \in SubRow /\ row.period = sub.period /\ row.status = "canceled"
    BY <1>0, <2>1 DEF SubRow, SubStatus
  <2>3. BeginBilling(c, "cancel", row, 0)
    BY <1>5, <2>1 DEF SubscriptionDisable, CancelSubscription
  <2> QED
    BY <2>2, <2>3, BillingBegins, Dates
<1>6. CASE ExtendGracePeriod(c)
  <2>1. PICK row : row = [sub EXCEPT !.grace = today + Grace, !.status = IF @ = "expired" THEN "past_due" ELSE @]
    OBVIOUS
  <2>2. row \in SubRow /\ row.period = sub.period /\ (row.status = sub.status \/ sub.status = "expired")
    BY <1>0, <2>1, Dates DEF SubRow, SubStatus
  <2>3. BeginBilling(c, "extend", row, 0)
    BY <1>6, <2>1 DEF ExtendGracePeriod
  <2> QED
    BY <2>2, <2>3, BillingBegins, Dates
<1>7. CASE AdminGrant(c)
  <2>1. PICK row : row = [sub EXCEPT !.status = "active", !.trial = 0, !.grace = 0, !.period = today + Period]
    OBVIOUS
  <2>2. PICK end \in 0 .. LastDate : end = today + Period
    BY <1>0, Dates
  <2>3. row \in SubRow /\ row.period = end /\ row.status = "active"
    BY <1>0, <2>1, <2>2, Dates DEF SubRow, SubStatus
  <2>4. BeginBilling(c, "grant", row, end)
    BY <1>7, <2>1, <2>2 DEF AdminGrant
  <2> QED
    BY <2>3, <2>4, BillingBegins
<1> QED
  BY <1>1, <1>2, <1>3, <1>4, <1>5, <1>6, <1>7

LEMMA Drops == ASSUME SubscriptionInv, NEW c \in Billers, DropRequest(c) PROVE SubscriptionInv'
<1>1. /\ billers' = [billers EXCEPT ![c] = IdleBiller]
      /\ UNCHANGED <<sub, today, nightly, billingsBegun, paidUntil, spoilt>>
  BY DEF DropRequest
<1>2. BillerSound(IdleBiller)
  BY DEF BillerSound, IdleBiller
<1>3. IdleBiller \in Biller /\ IdleBiller.does # "expire"
  BY IdleBillerTyped
<1>4. billingsBegun' \in 0 .. MaxBillings
  BY <1>1 DEF SubscriptionInv
<1> QED
  BY <1>1, <1>2, <1>3, <1>4, BillerOnly

---------------------------------------------------------------------------
(* Saves: whoever is still at work is stale from then on. *)

LEMMA AgedSound ==
  ASSUME NEW b \in Biller, BillerSound(b)
  PROVE  Aged(b) \in Biller /\ BillerSound(Aged(b))' /\ Aged(b).does = b.does
<1>1. PICK s \in BOOLEAN : s = (b # IdleBiller)
  OBVIOUS
<1>2. PICK q : q = [b EXCEPT !.stale = s]
  OBVIOUS
<1>3. q = Aged(b)
  BY <1>1, <1>2 DEF Aged
<1>4. q \in Biller /\ q.does = b.does /\ q.row = b.row /\ q.until = b.until /\ q.stale = s
  BY <1>2 DEF Biller
<1>5. CASE b = IdleBiller
  <2>1. s = FALSE
    BY <1>1, <1>5
  <2>2. q = IdleBiller
    BY <1>2, <1>5, <2>1 DEF IdleBiller
  <2>3. BillerSound(q)'
    BY <2>2 DEF BillerSound, IdleBiller
  <2> QED
    BY <1>3, <1>4, <2>3
<1>6. CASE b # IdleBiller
  <2>1. s /\ b.does # "nothing"
    BY <1>1, <1>6 DEF BillerSound
  <2>2. BillerSound(q)'
    BY <1>4, <2>1 DEF BillerSound
  <2> QED
    BY <1>3, <1>4, <2>2
<1> QED
  BY <1>5, <1>6

(* What a save leaves of the reasons: none only if there was none, or it is a payment in time. *)
LEMMA SpoiltTyped ==
  ASSUME SubscriptionInv, NEW b \in Biller
  PROVE  /\ SpoiltBy(b) \subseteq Reasons
         /\ SpoiltBy(b) = {} =>
              /\ ~b.stale /\ b.does \notin {"initialize", "failed"}
              /\ b.does \in {"charge", "grant"} => b.until >= paidUntil
              /\ b.does \notin {"charge", "grant"} => spoilt = {}
<1>1. Spoils(b) \subseteq Reasons /\ spoilt \subseteq Reasons
  BY DEF Spoils, SubscriptionInv
<1>2. SpoiltBy(b) \subseteq Reasons
  BY <1>1 DEF SpoiltBy
<1>3. ASSUME SpoiltBy(b) = {}
      PROVE  /\ ~b.stale /\ b.does \notin {"initialize", "failed"}
             /\ b.does \in {"charge", "grant"} => b.until >= paidUntil
             /\ b.does \notin {"charge", "grant"} => spoilt = {}
  <2>1. Spoils(b) = {} /\ (b.does \notin {"charge", "grant"} => spoilt = {})
    BY <1>3 DEF SpoiltBy
  <2>2. ~b.stale /\ b.does \notin {"initialize", "failed"} /\ ~(b.does \in {"charge", "grant"} /\ b.until < paidUntil)
    BY <2>1 DEF Spoils, Reasons
  <2>3. b.until \in 0 .. LastDate
    BY DEF Biller
  <2>4. b.until \in Nat /\ paidUntil \in Nat
    BY <2>3, SubNumbers
  <2> QED
    BY <2>1, <2>2, <2>4
<1> QED
  BY <1>2, <1>3

LEMMA Saves == ASSUME SubscriptionInv, NEW c \in Billers, SaveSub(c) PROVE SubscriptionInv'
<1>1. PICK me : me = billers[c]
  OBVIOUS
<1>2. /\ me # IdleBiller /\ sub' = me.row
      /\ billers' = [d \in Billers |-> IF d = c THEN IdleBiller ELSE Aged(billers[d])]
      /\ nightly' = Aged(nightly) /\ spoilt' = SpoiltBy(me)
      /\ paidUntil' = IF me.does = "grant" /\ me.until > paidUntil THEN me.until ELSE paidUntil
      /\ UNCHANGED <<today, billingsBegun>>
  BY <1>1 DEF SaveSub
<1>3. me \in Biller /\ BillerSound(me) /\ me.does \notin {"nothing", "expire"}
  BY <1>1, <1>2 DEF SubscriptionInv, BillerSound
<1>4. sub' \in SubRow /\ paidUntil' \in 0 .. LastDate
  BY <1>2, <1>3 DEF SubscriptionInv, Biller
<1>5. nightly' \in Biller /\ BillerSound(nightly)' /\ nightly'.does = nightly.does
  <2>1. PICK b : b = nightly
    OBVIOUS
  <2>2. b \in Biller /\ BillerSound(b)
    BY <2>1 DEF SubscriptionInv
  <2>3. BillerSound(Aged(b))' /\ Aged(b) \in Biller /\ Aged(b).does = b.does
    BY <2>2, AgedSound
  <2> QED
    BY <1>2, <2>1, <2>3 DEF BillerSound
<1>6. ASSUME NEW d \in Billers
      PROVE  billers'[d] \in Biller /\ BillerSound(billers[d])' /\ billers'[d].does # "expire"
  <2>1. CASE d = c
    <3>1. billers'[d] = IdleBiller
      BY <1>2, <2>1
    <3> QED
      BY <3>1, IdleBillerTyped DEF BillerSound, IdleBiller
  <2>2. CASE d # c
    <3>1. PICK b : b = billers[d]
      OBVIOUS
    <3>2. b \in Biller /\ BillerSound(b) /\ b.does # "expire"
      BY <3>1 DEF SubscriptionInv
    <3>3. Aged(b) \in Biller /\ BillerSound(Aged(b))' /\ Aged(b).does = b.does
      BY <3>2, AgedSound
    <3>4. billers'[d] = Aged(b)
      BY <1>2, <2>2, <3>1
    <3> QED
      BY <3>2, <3>3, <3>4 DEF BillerSound
  <2> QED
    BY <2>1, <2>2
<1>7. spoilt' \subseteq Reasons
  BY <1>2, <1>3, SpoiltTyped
<1>8. PaidTimeStands'
  <2> SUFFICES ASSUME spoilt' = {}, today' < paidUntil'
               PROVE  sub'.status \in {"active", "canceled"} /\ sub'.period >= paidUntil'
    BY DEF PaidTimeStands
  <2>1. /\ ~me.stale /\ me.does \in {"charge", "grant", "link", "cancel", "extend"}
        /\ me.does \in {"charge", "grant"} => me.until >= paidUntil
        /\ me.does \notin {"charge", "grant"} => spoilt = {}
    BY <1>2, <1>3, SpoiltTyped DEF Biller
  <2>2. me.until \in Nat /\ paidUntil \in Nat /\ me.row.period \in Nat
    <3>1. me.until \in 0 .. LastDate /\ me.row \in SubRow
      BY <1>3 DEF Biller
    <3>2. me.row.period \in 0 .. LastDate
      BY <3>1 DEF SubRow
    <3> QED
      BY <3>1, <3>2, SubNumbers
  <2>3. CASE me.does \in {"charge", "grant"}
    <3>1. paidUntil' <= me.until
      BY <1>2, <2>1, <2>2, <2>3
    <3>2. paidUntil' \in Nat
      BY <1>2, <2>2
    <3> QED
      BY <1>2, <1>3, <2>2, <2>3, <3>1, <3>2 DEF BillerSound
  <2>4. CASE me.does \in {"link", "cancel", "extend"}
    <3>1. paidUntil' = paidUntil /\ spoilt = {} /\ today < paidUntil
      BY <1>2, <2>1, <2>4
    <3>2. sub.status \in {"active", "canceled"} /\ sub.period >= paidUntil
      BY <3>1 DEF SubscriptionInv, PaidTimeStands
    <3> QED
      BY <1>2, <1>3, <2>1, <2>4, <3>1, <3>2 DEF BillerSound
  <2> QED
    BY <2>1, <2>3, <2>4
<1> QED
  BY <1>2, <1>4, <1>5, <1>6, <1>7, <1>8 DEF SubscriptionInv

(* The job marks what it read as overdue; it saves it so only while nobody paid. *)
LEMMA OverdueRead == ASSUME SubscriptionInv, ReadOverdue PROVE SubscriptionInv'
<1>1. PICK q : q = [IdleBiller EXCEPT !.does = "expire", !.row = [sub EXCEPT !.status = "expired"]]
  OBVIOUS
<1>2. nightly' = q /\ Overdue /\ UNCHANGED <<sub, today, billers, billingsBegun, paidUntil, spoilt>>
  BY <1>1 DEF ReadOverdue
<1>3. PICK row : row = [sub EXCEPT !.status = "expired"]
  OBVIOUS
<1>4. row \in SubRow /\ row.period = sub.period
  BY <1>3 DEF SubscriptionInv, SubRow, SubStatus
<1>5. FALSE \in BOOLEAN
  OBVIOUS
<1>6. q \in Biller /\ q.does = "expire" /\ q.row = row
  BY <1>1, <1>3, <1>4, <1>5, Dates DEF IdleBiller, Biller
<1>7. BillerSound(nightly)'
  BY <1>2, <1>4, <1>6 DEF BillerSound, Overdue, Ended
<1>8. \A d \in Billers : BillerSound(billers[d])' /\ billers'[d].does # "expire"
  BY <1>2 DEF SubscriptionInv, BillerSound, Overdue, Ended
<1> QED
  BY <1>2, <1>6, <1>7, <1>8 DEF SubscriptionInv, PaidTimeStands

LEMMA OverdueSaved == ASSUME SubscriptionInv, SaveOverdue PROVE SubscriptionInv'
<1>1. PICK me : me = nightly
  OBVIOUS
<1>2. /\ me # IdleBiller /\ sub' = me.row /\ spoilt' = SpoiltBy(me) /\ nightly' = IdleBiller
      /\ billers' = [c \in Billers |-> Aged(billers[c])]
      /\ UNCHANGED <<today, billingsBegun, paidUntil>>
  BY <1>1 DEF SaveOverdue
<1>3. me \in Biller /\ BillerSound(me) /\ me.does = "expire"
  BY <1>1, <1>2 DEF SubscriptionInv, BillerSound
<1>4. sub' \in SubRow
  BY <1>2, <1>3 DEF Biller
<1>5. BillerSound(nightly)' /\ nightly' \in Biller /\ nightly'.does = "nothing"
  BY <1>2, IdleBillerTyped DEF BillerSound, IdleBiller
<1>6. ASSUME NEW d \in Billers
      PROVE  billers'[d] \in Biller /\ BillerSound(billers[d])' /\ billers'[d].does # "expire"
  <2>1. PICK b : b = billers[d]
    OBVIOUS
  <2>2. b \in Biller /\ BillerSound(b) /\ b.does # "expire"
    BY <2>1 DEF SubscriptionInv
  <2>3. Aged(b) \in Biller /\ BillerSound(Aged(b))' /\ Aged(b).does = b.does
    BY <2>2, AgedSound
  <2>4. billers'[d] = Aged(b)
    BY <1>2, <2>1
  <2> QED
    BY <2>2, <2>3, <2>4 DEF BillerSound
<1>7. spoilt' \subseteq Reasons
  BY <1>2, <1>3, SpoiltTyped
<1>8. PaidTimeStands'
  <2> SUFFICES ASSUME spoilt' = {}, today' < paidUntil' PROVE FALSE
    BY DEF PaidTimeStands
  <2>1. ~me.stale /\ spoilt = {} /\ today < paidUntil
    BY <1>2, <1>3, SpoiltTyped
  <2>2. sub.status \in {"active", "canceled"} /\ sub.period >= paidUntil
    BY <2>1 DEF SubscriptionInv, PaidTimeStands
  <2>3. Overdue
    BY <1>3, <2>1 DEF BillerSound
  <2>4. sub.period < today
    BY <2>2, <2>3 DEF Overdue, Ended
  <2>5. sub.period \in Nat /\ today \in Nat /\ paidUntil \in Nat
    BY SubNumbers
  <2> QED
    BY <2>1, <2>2, <2>4, <2>5
<1> QED
  BY <1>2, <1>4, <1>5, <1>6, <1>7, <1>8 DEF SubscriptionInv

(* A payment counts from the moment it is taken, and nothing is promised for it before it is credited. *)
LEMMA Pays ==
  ASSUME SubscriptionInv, TakePayment \/ (\E c \in Billers : CreditOtherBranch(c))
  PROVE  SubscriptionInv'
<1>1. /\ UNCHANGED <<sub, today, billers, nightly>>
      /\ spoilt' = spoilt \/ spoilt' = spoilt \cup {"not credited"}
      /\ paidUntil' = paidUntil \/ (paidUntil' = today + Period /\ "not credited" \in spoilt')
      /\ "not credited" \in spoilt'
  BY DEF TakePayment, CreditOtherBranch
<1>2. paidUntil' \in 0 .. LastDate /\ spoilt' \subseteq Reasons
  BY <1>1, Dates DEF SubscriptionInv, Reasons
<1>3. billingsBegun' \in 0 .. MaxBillings
  <2>1. billingsBegun \in 0 .. MaxBillings /\ MaxBillings \in Nat
    BY SubscriptionAssumption DEF SubscriptionInv
  <2>2. billingsBegun' = billingsBegun \/ (billingsBegun < MaxBillings /\ billingsBegun' = billingsBegun + 1)
    BY DEF TakePayment, CreditOtherBranch
  <2> QED
    BY <2>1, <2>2
<1>4. BillerSound(nightly)' /\ \A d \in Billers : BillerSound(billers[d])' /\ billers'[d].does # "expire"
  BY <1>1 DEF SubscriptionInv, BillerSound, Overdue, Ended
<1>5. PaidTimeStands'
  BY <1>1 DEF PaidTimeStands
<1> QED
  BY <1>1, <1>2, <1>3, <1>4, <1>5 DEF SubscriptionInv

LEMMA DaysPass == ASSUME SubscriptionInv, DayPasses PROVE SubscriptionInv'
<1>1. /\ today' = today + 1 /\ today' \in 1 .. LastDay
      /\ UNCHANGED <<sub, billers, nightly, billingsBegun, paidUntil, spoilt>>
  BY SubNumbers, SubscriptionAssumption DEF DayPasses
<1>2. today \in Nat /\ paidUntil \in Nat
  BY SubNumbers
<1>3. Overdue => Overdue'
  <2>1. sub.trial \in Nat /\ sub.grace \in Nat /\ sub.period \in Nat
    BY SubNumbers
  <2> QED
    BY <1>1, <1>2, <2>1 DEF Overdue, Ended
<1>4. BillerSound(nightly)' /\ \A d \in Billers : BillerSound(billers[d])' /\ billers'[d].does # "expire"
  BY <1>1, <1>3 DEF SubscriptionInv, BillerSound
<1>5. PaidTimeStands'
  BY <1>1, <1>2 DEF SubscriptionInv, PaidTimeStands
<1> QED
  BY <1>1, <1>4, <1>5 DEF SubscriptionInv

---------------------------------------------------------------------------
LEMMA SubscriptionStep == ASSUME SubscriptionInv, [SubscriptionNext]_subscriptionVars PROVE SubscriptionInv'
<1>1. CASE UNCHANGED subscriptionVars
  BY <1>1 DEF SubscriptionInv, BillerSound, Overdue, Ended, PaidTimeStands, subscriptionVars
<1>2. CASE SubscriptionNext
  BY <1>2, BillerBegins, Saves, Drops, OverdueRead, OverdueSaved, Pays, DaysPass DEF SubscriptionNext
<1> QED
  BY <1>1, <1>2

(* The invariant of the subscription holds in every reachable state of subscription.service.ts and its job. *)
THEOREM SubscriptionInvariant == SubscriptionSpec => []SubscriptionInv
  BY SubscriptionInitial, SubscriptionStep, PTL DEF SubscriptionSpec

LEMMA SubscriptionImplies == SubscriptionInv => SubscriptionTypeOK /\ PaidIsServed
<1> SUFFICES ASSUME SubscriptionInv PROVE SubscriptionTypeOK /\ PaidIsServed
  OBVIOUS
<1>1. \A b \in { billers[c] : c \in Billers } \cup {nightly} : b \in Biller
  BY DEF SubscriptionInv
<1>2. SubscriptionTypeOK
  BY <1>1 DEF SubscriptionInv, SubscriptionTypeOK, Biller
<1>3. PaidIsServed
  <2>1. sub.period \in Nat /\ today \in Nat /\ paidUntil \in Nat
    BY SubNumbers
  <2> QED
    BY <2>1 DEF SubscriptionInv, PaidTimeStands, PaidIsServed, Admitted
<1> QED
  BY <1>2, <1>3

(* The row, the requests and the histories keep their types. *)
THEOREM SubscriptionTypeCorrect == SubscriptionSpec => []SubscriptionTypeOK
  BY SubscriptionInvariant, SubscriptionImplies, PTL

(* A branch is served until the end of what it paid for or was granted, but for the reasons the history *)
(* names: a payment that was not credited to it, and those of the saves (evaluateSubscription of        *)
(* subscription.service.ts).                                                                            *)
THEOREM PaidIsServedAlways == SubscriptionSpec => []PaidIsServed
  BY SubscriptionInvariant, SubscriptionImplies, PTL

---------------------------------------------------------------------------
(***************************************************************************)
(* WebhookDoor.  A paid bill is never touched again, so whatever accounts   *)
(* for a deposit stays; and a delivery about to be answered with a success, *)
(* or recorded as one, is accounted for by then.                            *)
(***************************************************************************)

Door ==
  [at: {"idle", "verify", "dedupe", "reference", "match", "settle", "answer"},
   deposit: Deposits \cup {NoDeposit}, bill: DoorBills \cup {NoBill}]

Accounted(d) == PaidFor(d) \/ d \in told \/ d \in unheard

(* What is known of a delivery being handled: whose it is, what the bill it settles is worth, *)
(* and that its deposit paid, or met a paid bill, when the answer is all that is left.         *)
DoorSound(c) ==
  LET me == doors[c]
  IN /\ me.at # "idle" => me.deposit \in Deposits
     /\ me.at = "settle" => me.bill \in DoorBills /\ Fits(me.deposit, me.bill)
     /\ me.at = "answer" => PaidFor(me.deposit)

DoorInv ==
  /\ DoorTypeOK
  /\ \A b, c \in DoorBills : accounts[b].paidBy \in Deposits /\ accounts[b].paidBy = accounts[c].paidBy => b = c
  /\ \A d \in accepted : Accounted(d)
  /\ \A d \in Deposits : HasSettledPayload(d) => PaidFor(d)
  /\ \A c \in DoorCalls : DoorSound(c)

LEMMA DoorTyped ==
  ASSUME DoorInv
  PROVE  /\ accounts \in [DoorBills -> Account] /\ provider \in {"missing", "wrong", "right"}
         /\ aged \subseteq Dated /\ ledger \subseteq [deposit: Deposits, outcome: WebhookOutcome]
         /\ told \subseteq Deposits /\ unheard \subseteq Deposits /\ accepted \subseteq Deposits
         /\ doors \in [DoorCalls -> Door] /\ arrived \in 0 .. MaxDoorCalls
  BY DEF DoorInv, DoorTypeOK, Door

LEMMA IdleDoorTyped == IdleDoor \in Door
  BY DEF IdleDoor, Door

LEMMA DoorInitial == DoorInit => DoorInv
<1> SUFFICES ASSUME DoorInit PROVE DoorInv
  OBVIOUS
<1>1. accounts \in [DoorBills -> Account] /\ \A b \in DoorBills : accounts[b].paidBy = NoDeposit
  BY DEF DoorInit
<1>2. /\ provider \in {"missing", "wrong", "right"} /\ aged = {} /\ ledger = {} /\ told = {} /\ unheard = {} /\ accepted = {}
      /\ doors \in [DoorCalls -> Door] /\ arrived \in 0 .. MaxDoorCalls
  BY IdleDoorTyped, DoorAssumption DEF DoorInit
<1>3. DoorTypeOK
  BY <1>1, <1>2 DEF DoorTypeOK, Door
<1>4. \A c \in DoorCalls : DoorSound(c)
  BY DEF DoorInit, DoorSound, IdleDoor
<1>5. \A d \in Deposits : ~HasSettledPayload(d)
  BY <1>2 DEF HasSettledPayload
<1> QED
  BY <1>1, <1>2, <1>3, <1>4, <1>5, DoorAssumption DEF DoorInv

---------------------------------------------------------------------------
(* Bills that are left as they are, or paid or voided while unpaid. *)

PaidStay == \A b \in DoorBills :
  /\ accounts'[b].total = accounts[b].total
  /\ ~Unpaid(b) => accounts'[b] = accounts[b]

LEMMA PaidForStays ==
  ASSUME PaidStay, NEW d \in Deposits, PaidFor(d)
  PROVE  PaidFor(d)'
<1>1. PICK b \in DoorBills : PaysFor(d, b) \/ PaidElsewhere(d, b)
  BY DEF PaidFor
<1>2. ~Unpaid(b)
  BY <1>1, DoorAssumption DEF PaysFor, PaidElsewhere, Unpaid
<1>3. accounts'[b] = accounts[b]
  BY <1>2 DEF PaidStay
<1> QED
  BY <1>1, <1>3 DEF PaidFor, PaysFor, PaidElsewhere, Fits, Unpaid

LEMMA AccountedStays ==
  ASSUME PaidStay, told \subseteq told', unheard \subseteq unheard', NEW d \in Deposits, Accounted(d)
  PROVE  Accounted(d)'
  BY PaidForStays DEF Accounted

OneBillEach ==
  \A b, c \in DoorBills : accounts[b].paidBy \in Deposits /\ accounts[b].paidBy = accounts[c].paidBy => b = c

(* A step that leaves paid bills, the alerts and the ledger as they are or adds what is accounted for. *)
LEMMA DoorKeeps ==
  ASSUME DoorInv, PaidStay, told \subseteq told', unheard \subseteq unheard', ledger \subseteq ledger',
         \A d \in Deposits : HasSettledPayload(d)' => HasSettledPayload(d) \/ PaidFor(d)',
         \A d \in accepted' : d \in accepted \/ Accounted(d)', DoorTypeOK', OneBillEach',
         \A e \in DoorCalls : doors'[e] = doors[e] \/ DoorSound(e)'
  PROVE  DoorInv'
<1>1. \A d \in accepted' : Accounted(d)'
  BY AccountedStays, DoorTyped DEF DoorInv
<1>2. \A d \in Deposits : HasSettledPayload(d)' => PaidFor(d)'
  BY PaidForStays DEF DoorInv
<1>3. ASSUME NEW e \in DoorCalls PROVE DoorSound(e)'
  <2>1. CASE DoorSound(e)'
    BY <2>1
  <2>2. CASE doors'[e] = doors[e]
    <3>1. DoorSound(e)
      BY DEF DoorInv
    <3>2. doors[e].at = "settle" => doors[e].bill \in DoorBills /\ Fits(doors[e].deposit, doors[e].bill)'
      BY <2>2, <3>1 DEF DoorSound, Fits, PaidStay
    <3>3. PICK d : d = doors[e].deposit
      OBVIOUS
    <3>4. doors[e].at = "answer" => PaidFor(d)'
      <4>1. doors[e].at = "answer" => d \in Deposits /\ PaidFor(d)
        BY <3>1, <3>3 DEF DoorSound
      <4> QED
        BY <4>1, PaidForStays
    <3>5. doors'[e].deposit = d /\ doors'[e].bill = doors[e].bill /\ doors'[e].at = doors[e].at
      BY <2>2, <3>3
    <3>6. doors'[e].at = "answer" => PaidFor(doors[e].deposit)'
      BY <3>4, <3>5 DEF PaidFor, PaysFor, PaidElsewhere, Fits
    <3>7. doors'[e].at = "settle" => doors'[e].bill \in DoorBills /\ Fits(doors[e].deposit, doors[e].bill)'
      BY <3>2, <3>5
    <3>8. doors'[e].at # "idle" => doors'[e].deposit \in Deposits
      BY <3>1, <3>3, <3>5 DEF DoorSound
    <3> QED
      BY <3>6, <3>7, <3>8 DEF DoorSound
  <2> QED
    BY <2>1, <2>2
<1> QED
  BY <1>1, <1>2, <1>3 DEF DoorInv, OneBillEach

(* The bills stay as they are, and one delivery moves. *)
LEMMA DoorMoves ==
  ASSUME DoorInv, NEW c \in DoorCalls, NEW q \in Door, doors' = [doors EXCEPT ![c] = q], DoorSound(c)',
         accounts' = accounts, told \subseteq told', told' \subseteq Deposits, unheard \subseteq unheard', unheard' \subseteq Deposits,
         UNCHANGED <<provider, aged>>, arrived' \in 0 .. MaxDoorCalls,
         ledger \subseteq ledger', ledger' \subseteq [deposit: Deposits, outcome: WebhookOutcome],
         \A d \in Deposits : HasSettledPayload(d)' => HasSettledPayload(d) \/ PaidFor(d)',
         accepted' \subseteq Deposits, \A d \in accepted' : d \in accepted \/ Accounted(d)'
  PROVE  DoorInv'
<1>1. PaidStay /\ OneBillEach'
  BY DEF PaidStay, OneBillEach, DoorInv
<1>2. DoorTypeOK'
  BY DoorTyped DEF DoorTypeOK, Door
<1>3. \A e \in DoorCalls : doors'[e] = doors[e] \/ DoorSound(e)'
  BY DoorTyped
<1> QED
  BY <1>1, <1>2, <1>3, DoorKeeps

LEMMA Replies ==
  ASSUME DoorInv, NEW c \in DoorCalls, NEW o \in WebhookOutcome, NEW success \in BOOLEAN, Reply(c, o, success),
         NEW d \in Deposits, d = doors[c].deposit, accounts' = accounts,
         told \subseteq told', told' \subseteq Deposits, unheard \subseteq unheard', unheard' \subseteq Deposits, UNCHANGED <<provider, aged, arrived>>,
         success => Accounted(d)',
         o \in {"settled", "already_paid", "duplicate"} => PaidFor(d)'
  PROVE  DoorInv'
<1>1. PICK row : row = [deposit |-> d, outcome |-> o]
  OBVIOUS
<1>2. /\ ledger' \in {ledger, ledger \cup {row}} /\ doors' = [doors EXCEPT ![c] = IdleDoor]
      /\ accepted' = IF success THEN accepted \cup {d} ELSE accepted
  BY <1>1 DEF Reply
<1>3. row \in [deposit: Deposits, outcome: WebhookOutcome] /\ row.deposit = d /\ row.outcome = o
  BY <1>1
<1>4. ledger \subseteq ledger' /\ ledger' \subseteq [deposit: Deposits, outcome: WebhookOutcome]
  BY <1>2, <1>3, DoorTyped
<1>5. ASSUME NEW x \in Deposits, HasSettledPayload(x)' PROVE HasSettledPayload(x) \/ PaidFor(x)'
  <2>1. PICK p \in {"settled", "already_paid", "duplicate"} : [deposit |-> x, outcome |-> p] \in ledger'
    BY <1>5 DEF HasSettledPayload
  <2>2. CASE [deposit |-> x, outcome |-> p] \in ledger
    BY <2>2 DEF HasSettledPayload
  <2>3. CASE [deposit |-> x, outcome |-> p] = row
    <3>1. x = d /\ p = o
      BY <1>1, <2>3
    <3> QED
      BY <2>1, <3>1
  <2> QED
    BY <1>2, <2>1, <2>2, <2>3
<1>6. accepted' \subseteq Deposits /\ \A x \in accepted' : x \in accepted \/ Accounted(x)'
  <2>1. CASE success
    BY <1>2, <2>1, DoorTyped
  <2>2. CASE ~success
    BY <1>2, <2>2, DoorTyped
  <2> QED
    BY <2>1, <2>2
<1>7. doors'[c] = IdleDoor
  BY <1>2, DoorTyped
<1>8. DoorSound(c)'
  BY <1>7 DEF DoorSound, IdleDoor
<1>9. arrived' \in 0 .. MaxDoorCalls
  BY DoorTyped
<1> QED
  BY <1>2, <1>4, <1>5, <1>6, <1>8, <1>9, IdleDoorTyped, DoorMoves

(* A delivery goes on to a step, with the bill it found. *)
LEMMA Continues ==
  ASSUME DoorInv, NEW c \in DoorCalls, NEW at \in {"dedupe", "reference", "match", "settle"},
         NEW b \in DoorBills \cup {NoBill}, GoesOn(c, at, b), doors[c].at # "idle",
         UNCHANGED <<accounts, provider, aged, told, unheard, arrived>>,
         at = "settle" => b \in DoorBills /\ Fits(doors[c].deposit, b)
  PROVE  DoorInv'
<1>1. PICK q : q = [doors[c] EXCEPT !.at = at, !.bill = b]
  OBVIOUS
<1>2. doors' = [doors EXCEPT ![c] = q] /\ UNCHANGED <<ledger, accepted>>
  BY <1>1, DoorTyped DEF GoesOn
<1>3. doors[c] \in Door
  BY DoorTyped
<1>4. q \in Door /\ q.at = at /\ q.bill = b /\ q.deposit = doors[c].deposit
  BY <1>1, <1>3 DEF Door
<1>5. doors'[c] = q /\ q.deposit \in Deposits
  BY <1>2, <1>4, DoorTyped DEF DoorInv, DoorSound
<1>6. DoorSound(c)'
  BY <1>4, <1>5 DEF DoorSound, Fits
<1>7. \A d \in Deposits : HasSettledPayload(d)' => HasSettledPayload(d)
  BY <1>2 DEF HasSettledPayload
<1> QED
  BY <1>2, <1>4, <1>6, <1>7, DoorTyped, DoorMoves

(* A delivery is dropped or refused, or one arrives. *)
LEMMA Leaves ==
  ASSUME DoorInv, NEW c \in DoorCalls, doors' = [doors EXCEPT ![c] = IdleDoor],
         UNCHANGED <<accounts, provider, aged, ledger, told, unheard, accepted, arrived>>
  PROVE  DoorInv'
<1>1. doors'[c] = IdleDoor
  BY DoorTyped
<1>2. DoorSound(c)'
  BY <1>1 DEF DoorSound, IdleDoor
<1>3. \A d \in Deposits : HasSettledPayload(d)' => HasSettledPayload(d)
  BY DEF HasSettledPayload
<1> QED
  BY <1>2, <1>3, IdleDoorTyped, DoorTyped, DoorMoves

LEMMA Arrives == ASSUME DoorInv, NEW c \in DoorCalls, Deliver(c) PROVE DoorInv'
<1>1. PICK d \in Deposits : doors' = [doors EXCEPT ![c] = [at |-> "verify", deposit |-> d, bill |-> NoBill]]
  BY DEF Deliver
<1>2. PICK q : q = [at |-> "verify", deposit |-> d, bill |-> NoBill]
  OBVIOUS
<1>3. q \in Door /\ q.at = "verify" /\ q.deposit = d
  BY <1>2 DEF Door
<1>4. doors' = [doors EXCEPT ![c] = q] /\ doors'[c] = q
  BY <1>1, <1>2, DoorTyped
<1>5. DoorSound(c)'
  BY <1>3, <1>4 DEF DoorSound
<1>6. /\ arrived' = arrived + 1 /\ arrived < MaxDoorCalls
      /\ UNCHANGED <<accounts, provider, aged, ledger, told, unheard, accepted>>
  BY DEF Deliver, OutsideTheDesk
<1>7. arrived' \in 0 .. MaxDoorCalls
  BY <1>6, DoorTyped, DoorAssumption
<1>8. \A d2 \in Deposits : HasSettledPayload(d2)' => HasSettledPayload(d2)
  BY <1>6 DEF HasSettledPayload
<1> QED
  BY <1>3, <1>4, <1>5, <1>6, <1>7, <1>8, DoorTyped, DoorMoves

---------------------------------------------------------------------------
(* The steps of a delivery. *)

LEMMA AtWork ==
  ASSUME DoorInv, NEW c \in DoorCalls, doors[c].at # "idle"
  PROVE  doors[c].deposit \in Deposits
  BY DEF DoorInv, DoorSound

LEMMA Verified == ASSUME DoorInv, NEW c \in DoorCalls, VerifyDelivery(c) PROVE DoorInv'
<1>1. doors[c].at # "idle" /\ UNCHANGED <<accounts, provider, aged, told, unheard, arrived>>
  BY DEF VerifyDelivery, Before, OutsideTheDesk
<1>2. GoesOn(c, "dedupe", NoBill) \/ Refuse(c)
  BY DEF VerifyDelivery
<1>3. CASE GoesOn(c, "dedupe", NoBill)
  BY <1>1, <1>3, Continues
<1>4. CASE Refuse(c)
  BY <1>1, <1>4, Leaves DEF Refuse
<1> QED
  BY <1>2, <1>3, <1>4

LEMMA Deduplicated == ASSUME DoorInv, NEW c \in DoorCalls, Deduplicate(c) PROVE DoorInv'
<1>1. doors[c].at # "idle" /\ UNCHANGED <<accounts, provider, aged, told, unheard, arrived>>
  BY DEF Deduplicate, Before, OutsideTheDesk
<1>2. PICK d \in Deposits : d = doors[c].deposit
  BY <1>1, AtWork
<1>3. CASE HasSettledPayload(d) /\ Reply(c, "duplicate", TRUE)
  <2>1. PaidStay
    BY <1>1 DEF PaidStay
  <2>2. PaidFor(d)' /\ Accounted(d)'
    BY <1>1, <1>3, <2>1, PaidForStays DEF DoorInv, Accounted
  <2>3. "duplicate" \in WebhookOutcome /\ TRUE \in BOOLEAN
    BY DEF WebhookOutcome
  <2> QED
    BY <1>1, <1>2, <1>3, <2>2, <2>3, DoorTyped, Replies
<1>4. CASE GoesOn(c, "reference", NoBill)
  BY <1>1, <1>4, Continues
<1> QED
  BY <1>2, <1>3, <1>4 DEF Deduplicate

LEMMA Told == ASSUME NEW d \in Deposits, Alert(d), told \subseteq Deposits, unheard \subseteq Deposits
              PROVE  /\ told \subseteq told' /\ told' \subseteq Deposits
                     /\ unheard \subseteq unheard' /\ unheard' \subseteq Deposits /\ Accounted(d)'
  BY DEF Alert, Accounted

LEMMA ResolvedByReference == ASSUME DoorInv, NEW c \in DoorCalls, ResolveByReference(c) PROVE DoorInv'
<1>1. doors[c].at # "idle" /\ UNCHANGED <<accounts, provider, aged, arrived>>
  BY DEF ResolveByReference, Before, OutsideTheDesk
<1>2. PICK d \in Deposits : d = doors[c].deposit
  BY <1>1, AtWork
<1>3. CASE GoesOn(c, "match", NoBill) /\ UNCHANGED <<told, unheard>>
  BY <1>1, <1>3, Continues
<1>4. CASE \E b \in ReferredBy(d) : Judge(c, b)
  <2>1. PICK b \in DoorBills : accounts[b].reference = d /\ Judge(c, b)
    BY <1>4 DEF ReferredBy
  <2>2. /\ {"already_paid", "amount_mismatch"} \subseteq WebhookOutcome /\ TRUE \in BOOLEAN
        /\ "amount_mismatch" \notin {"settled", "already_paid", "duplicate"}
    BY DEF WebhookOutcome
  <2>3. CASE ~Unpaid(b) /\ Reply(c, "already_paid", TRUE) /\ UNCHANGED <<told, unheard>>
    <3>1. PaidFor(d)' /\ Accounted(d)'
      BY <1>1, <2>1, <2>3 DEF Accounted, PaidFor, PaidElsewhere, Unpaid
    <3> QED
      BY <1>1, <1>2, <2>2, <2>3, <3>1, DoorTyped, Replies
  <2>4. CASE Alert(d) /\ Reply(c, "amount_mismatch", TRUE)
    BY <1>1, <1>2, <2>2, <2>4, Told, DoorTyped, Replies
  <2>5. CASE Fits(d, b) /\ GoesOn(c, "settle", b) /\ UNCHANGED <<told, unheard>>
    BY <1>1, <1>2, <2>5, Continues
  <2> QED
    BY <1>2, <2>1, <2>3, <2>4, <2>5 DEF Judge
<1> QED
  BY <1>2, <1>3, <1>4 DEF ResolveByReference

LEMMA ResolvedByAmount == ASSUME DoorInv, NEW c \in DoorCalls, ResolveByAmount(c) PROVE DoorInv'
<1>1. doors[c].at # "idle" /\ UNCHANGED <<accounts, provider, aged, arrived>>
  BY DEF ResolveByAmount, Before, OutsideTheDesk
<1>2. PICK d \in Deposits : d = doors[c].deposit
  BY <1>1, AtWork
<1>3. \/ \E b \in DoorBills : Fits(d, b) /\ GoesOn(c, "settle", b) /\ UNCHANGED <<told, unheard>>
      \/ Alert(d) /\ Reply(c, "no_bill", TRUE)
  BY <1>2 DEF ResolveByAmount
<1>4. CASE \E b \in DoorBills : Fits(d, b) /\ GoesOn(c, "settle", b) /\ UNCHANGED <<told, unheard>>
  BY <1>1, <1>2, <1>4, Continues
<1>5. CASE Alert(d) /\ Reply(c, "no_bill", TRUE)
  <2>1. "no_bill" \in WebhookOutcome /\ TRUE \in BOOLEAN /\ "no_bill" \notin {"settled", "already_paid", "duplicate"}
    BY DEF WebhookOutcome
  <2> QED
    BY <1>1, <1>2, <1>5, <2>1, Told, DoorTyped, Replies
<1> QED
  BY <1>3, <1>4, <1>5

LEMMA SettlementFailed == ASSUME DoorInv, NEW c \in DoorCalls, SettlementFails(c) PROVE DoorInv'
<1>1. /\ doors[c].at # "idle" /\ UNCHANGED <<accounts, provider, aged, told, unheard, arrived>>
      /\ Reply(c, "error", FALSE)
  BY DEF SettlementFails, Before, OutsideTheDesk
<1>2. PICK d \in Deposits : d = doors[c].deposit
  BY <1>1, AtWork
<1>3. "error" \in WebhookOutcome /\ FALSE \in BOOLEAN /\ "error" \notin {"settled", "already_paid", "duplicate"}
  BY DEF WebhookOutcome
<1> QED
  BY <1>1, <1>2, <1>3, DoorTyped, Replies

LEMMA DoorAnswered == ASSUME DoorInv, NEW c \in DoorCalls, AnswerSettled(c) PROVE DoorInv'
<1>1. /\ doors[c].at = "answer" /\ UNCHANGED <<accounts, provider, aged, told, unheard, arrived>>
      /\ Reply(c, "settled", TRUE)
  BY DEF AnswerSettled, Before, OutsideTheDesk
<1>2. PICK d \in Deposits : d = doors[c].deposit
  BY <1>1, AtWork
<1>3. PaidFor(d)
  BY <1>1, <1>2 DEF DoorInv, DoorSound
<1>4. PaidStay
  BY <1>1 DEF PaidStay
<1>5. PaidFor(d)' /\ Accounted(d)'
  BY <1>3, <1>4, PaidForStays DEF Accounted
<1>6. "settled" \in WebhookOutcome /\ TRUE \in BOOLEAN
  BY DEF WebhookOutcome
<1> QED
  BY <1>1, <1>2, <1>5, <1>6, DoorTyped, Replies

(* The settlement: the deposit pays the bill, or has paid one, or the bill was paid by something else. *)
LEMMA Settled == ASSUME DoorInv, NEW c \in DoorCalls, Settle(c) PROVE DoorInv'
<1>1. PICK d, b : d = doors[c].deposit /\ b = doors[c].bill
  OBVIOUS
<1>2. doors[c].at = "settle" /\ d \in Deposits /\ b \in DoorBills /\ Fits(d, b)
  BY <1>1 DEF Settle, Before, DoorInv, DoorSound
<1>3. /\ UNCHANGED <<provider, aged, told, unheard, ledger, accepted, arrived>>
      /\ doors' = [doors EXCEPT ![c].at = "answer", ![c].bill = b]
  BY <1>1 DEF Settle, Before, GoesOn, OutsideTheDesk
<1>4. PICK q : q = [doors[c] EXCEPT !.at = "answer", !.bill = b]
  OBVIOUS
<1>5. doors[c] \in Door
  BY DoorTyped
<1>6. q \in Door /\ q.at = "answer" /\ q.deposit = d
  BY <1>1, <1>2, <1>4, <1>5 DEF Door
<1>7. doors' = [doors EXCEPT ![c] = q]
  BY <1>3, <1>4, DoorTyped
<1>8. PICK row : row = [accounts[b] EXCEPT !.paidBy = d, !.reference = d]
  OBVIOUS
<1>9. \/ accounts' = accounts /\ ((\E o \in DoorBills : accounts[o].paidBy = d) \/ ~Unpaid(b))
      \/ /\ accounts' = [accounts EXCEPT ![b] = row] /\ Unpaid(b)
         /\ ~ \E o \in DoorBills : accounts[o].paidBy = d
  BY <1>1, <1>8, DoorTyped DEF Settle
<1>10. accounts[b] \in Account
  BY <1>2, DoorTyped
<1>11. row \in Account /\ row.paidBy = d /\ row.total = accounts[b].total
  BY <1>2, <1>8, <1>10 DEF Account, Payer
<1>12. accounts' \in [DoorBills -> Account] /\ PaidStay
  BY <1>9, <1>11, DoorTyped DEF PaidStay
<1>13. OneBillEach'
  <2>1. CASE accounts' = accounts
    BY <2>1 DEF DoorInv, OneBillEach
  <2>2. CASE accounts' = [accounts EXCEPT ![b] = row] /\ ~ \E o \in DoorBills : accounts[o].paidBy = d
    <3> SUFFICES ASSUME NEW x \in DoorBills, NEW y \in DoorBills,
                        accounts'[x].paidBy \in Deposits, accounts'[x].paidBy = accounts'[y].paidBy
                 PROVE  x = y
      BY DEF OneBillEach
    <3>1. CASE x = b
      BY <1>11, <2>2, <3>1, DoorTyped
    <3>2. CASE x # b
      BY <1>11, <2>2, <3>2, DoorTyped DEF DoorInv
    <3> QED
      BY <3>1, <3>2
  <2> QED
    BY <1>9, <2>1, <2>2
<1>14. PaidFor(d)'
  <2>1. CASE accounts' = accounts /\ ((\E o \in DoorBills : accounts[o].paidBy = d) \/ ~Unpaid(b))
    BY <1>2, <2>1 DEF PaidFor, PaysFor, PaidElsewhere, Fits, Unpaid
  <2>2. CASE accounts' = [accounts EXCEPT ![b] = row]
    BY <1>2, <1>11, <2>2, DoorTyped DEF PaidFor, PaysFor
  <2> QED
    BY <1>9, <2>1, <2>2
<1>15. DoorSound(c)'
  <2>1. doors'[c] = q
    BY <1>7, DoorTyped
  <2>2. PaidFor(doors[c].deposit)'
    BY <1>6, <1>14, <2>1 DEF PaidFor, PaysFor, PaidElsewhere, Fits
  <2> QED
    BY <1>2, <1>6, <2>1, <2>2 DEF DoorSound
<1>16. DoorTypeOK'
  <2>1. doors' \in [DoorCalls -> Door]
    BY <1>6, <1>7, DoorTyped
  <2> QED
    BY <1>3, <1>12, <2>1, DoorTyped DEF DoorTypeOK, Door
<1>17. \A e \in DoorCalls : doors'[e] = doors[e] \/ DoorSound(e)'
  BY <1>7, <1>15, DoorTyped
<1>18. \A x \in Deposits : HasSettledPayload(x)' => HasSettledPayload(x)
  BY <1>3 DEF HasSettledPayload
<1> QED
  BY <1>3, <1>12, <1>13, <1>16, <1>17, <1>18, DoorKeeps

---------------------------------------------------------------------------
(* Around the door, a bill is paid or voided while it is unpaid, and time passes. *)

LEMMA DeskActs == ASSUME DoorInv, AtTheDesk PROVE DoorInv'
<1>1. PICK b \in DoorBills : DeskPays(b) \/ DeskVoids(b)
  BY DEF AtTheDesk
<1>2. UNCHANGED <<provider, aged, ledger, told, unheard, accepted, doors, arrived>>
  BY DEF AtTheDesk, OutsideTheDesk
<1>3. PICK row : row \in {[accounts[b] EXCEPT !.paidBy = "desk"], [accounts[b] EXCEPT !.voided = TRUE]}
                 /\ accounts' = [accounts EXCEPT ![b] = row]
  BY <1>1, DoorTyped DEF DeskPays, DeskVoids
<1>4. Unpaid(b) /\ accounts[b] \in Account
  BY <1>1, DoorTyped DEF DeskPays, DeskVoids
<1>5. TRUE \in BOOLEAN
  OBVIOUS
<1>6. row \in Account /\ row.total = accounts[b].total /\ row.paidBy \notin Deposits
  <2>1. CASE row = [accounts[b] EXCEPT !.paidBy = "desk"]
    BY <1>4, <2>1, DoorAssumption DEF Account, Payer
  <2>2. CASE row = [accounts[b] EXCEPT !.voided = TRUE]
    BY <1>4, <1>5, <2>2, DoorAssumption DEF Account, Payer, Unpaid
  <2> QED
    BY <1>3, <2>1, <2>2
<1>7. accounts' \in [DoorBills -> Account] /\ PaidStay
  BY <1>3, <1>4, <1>6, DoorTyped DEF PaidStay
<1>8. OneBillEach'
  BY <1>3, <1>6, DoorTyped DEF DoorInv, OneBillEach
<1>9. DoorTypeOK'
  BY <1>2, <1>7, DoorTyped DEF DoorTypeOK, Door
<1>10. \A x \in Deposits : HasSettledPayload(x)' => HasSettledPayload(x)
  BY <1>2 DEF HasSettledPayload
<1> QED
  BY <1>2, <1>7, <1>8, <1>9, <1>10, DoorKeeps

LEMMA DoorAround == ASSUME DoorInv, Configure \/ Ages \/ UNCHANGED doorVars PROVE DoorInv'
<1>1. UNCHANGED <<accounts, ledger, told, unheard, accepted, doors, arrived>>
  BY DEF Configure, Ages, doorVars
<1>2. provider' \in {"missing", "wrong", "right"} /\ aged' \subseteq Dated
  BY DoorTyped DEF Configure, Ages, doorVars
<1>3. DoorTypeOK'
  BY <1>1, <1>2, DoorTyped DEF DoorTypeOK, Door
<1>4. PaidStay /\ OneBillEach'
  BY <1>1 DEF PaidStay, OneBillEach, DoorInv
<1>5. \A x \in Deposits : HasSettledPayload(x)' => HasSettledPayload(x)
  BY <1>1 DEF HasSettledPayload
<1> QED
  BY <1>1, <1>3, <1>4, <1>5, DoorKeeps

LEMMA Lost == ASSUME DoorInv, NEW c \in DoorCalls, LoseDelivery(c) PROVE DoorInv'
  BY Leaves DEF LoseDelivery, OutsideTheDesk

LEMMA DoorStep == ASSUME DoorInv, [DoorNext]_doorVars PROVE DoorInv'
  BY Arrives, Verified, Deduplicated, ResolvedByReference, ResolvedByAmount, Settled, DoorAnswered,
     SettlementFailed, Lost, DeskActs, DoorAround DEF DoorNext

(* The invariant of the door holds in every reachable state of the webhooks of payment.controller.ts. *)
THEOREM DoorInvariant == DoorSpec => []DoorInv
  BY DoorInitial, DoorStep, PTL DEF DoorSpec

(* Bills, ledger, deliveries and histories keep their types. *)
THEOREM DoorTypeCorrect == DoorSpec => []DoorTypeOK
<1>1. DoorInv => DoorTypeOK
  BY DEF DoorInv
<1> QED
  BY <1>1, DoorInvariant, PTL

LEMMA DoorImplies == DoorInv => AcceptedIsAccounted
<1> SUFFICES ASSUME DoorInv, NEW d \in Deposits
             PROVE  /\ Cardinality({ b \in DoorBills : PaysFor(d, b) }) <= 1
                    /\ d \in accepted => Accounted(d)
                    /\ HasSettledPayload(d) => PaidFor(d)
  BY DEF AcceptedIsAccounted, Accounted, HasSettledPayload
<1> DEFINE S == { b \in DoorBills : PaysFor(d, b) }
<1>1. CASE S = {}
  <2>1. Cardinality(S) = 0
    BY <1>1, FS_EmptySet
  <2> QED
    BY <2>1 DEF DoorInv
<1>2. CASE S # {}
  <2>1. PICK b : b \in S
    BY <1>2
  <2>2. S = {b}
    BY <2>1 DEF DoorInv, PaysFor
  <2>3. Cardinality(S) = 1
    BY <2>2, FS_Singleton
  <2> QED
    BY <2>3 DEF DoorInv
<1> QED
  BY <1>1, <1>2

(* A deposit whose delivery was answered with a success paid a bill, or met a bill it could have been for    *)
(* that was paid by something else, or an alert was raised, which the staff got or only the log; what is     *)
(* recorded as settled did pay or met a paid bill, and no deposit pays two (payment.controller.ts).          *)
THEOREM AcceptedIsAccountedAlways == DoorSpec => []AcceptedIsAccounted
  BY DoorInvariant, DoorImplies, PTL

===========================================================================
