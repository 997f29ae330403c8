------------------------------- MODULE Rooms -------------------------------
(***************************************************************************)
(* The sockets of staff and guests (gateway/gateway.gateway.ts,              *)
(* public.gateway.ts) and what realtime.service.ts says in which room.       *)
(* A staff socket joins rooms by the claims of the token it came with; a     *)
(* guest joins the room of a tab, or of a group of orders, with its code.    *)
(* Servers share their rooms through Redis, or not at all.  A sign-out of    *)
(* the business (revokeBusinessSessions of admin.service.ts) drops the       *)
(* sockets of one branch after the other.                                    *)
(*                                                                           *)
(* A socket that is in several rooms of one event hears it several times;    *)
(* the registry of connected clients is kept but read by nobody.             *)
(***************************************************************************)
EXTENDS Naturals, FiniteSets

CONSTANTS
  Sockets, SocketServers,
  Branches,        \* of one business
  StaffRoles,      \* the roles of the staff that connect
  Guests, Tabs,
  Groups,          \* groups of orders without a tab, named by their code
  CodeOf,          \* the tracking code of a tab
  Statuses,        \* of orders, that a socket may subscribe to
  MaxRoomCalls,    \* bound: sign-ins, connections, subscriptions and sign-outs
  NoBranch, NoServer

ASSUME RoomsAssumption ==
  /\ NoBranch \notin Branches /\ NoServer \notin SocketServers
  /\ StaffRoles \subseteq {"owner", "manager", "supervisor", "cashier", "rider", "waiter"}
  /\ Tabs \cap Groups = {} /\ DOMAIN CodeOf = Tabs
  /\ MaxRoomCalls \in Nat

VARIABLES
  adapter,      \* whether REDIS_URL is set
  tokens,       \* the claims of the token each device holds
  sockets,      \* where each is connected, in which rooms, and since which sign-out
  dropped,      \* how often the sockets of a branch were dropped
  toDrop,       \* the branches a sign-out has yet to come to
  guests,       \* rooms of tabs and groups, and the codes given for them
  roomCalls,
  heard,        \* history: of which branch a connected socket heard
  skipped       \* history: sockets a sign-out could not reach

roomVars == <<adapter, tokens, sockets, dropped, toDrop, guests, roomCalls, heard, skipped>>

Topics == {"branch", "managers", "riders", "tables", "dashboard", "orders"} \cup Statuses
Off == [server |-> NoServer, rooms |-> {}, since |-> 0]

RoomInit ==
  /\ adapter \in BOOLEAN
  /\ tokens \in [Sockets -> [branch: Branches \cup {NoBranch}, role: StaffRoles]]
  /\ sockets = [s \in Sockets |-> Off]
  /\ dropped = [b \in Branches |-> 0]
  /\ toDrop = {}
  /\ guests = [g \in Guests |-> [rooms |-> {}, codes |-> {}]]
  /\ roomCalls = 0
  /\ heard = [s \in Sockets |-> {}]
  /\ skipped = {}

On(s) == sockets[s].server # NoServer
Counts == roomCalls < MaxRoomCalls /\ roomCalls' = roomCalls + 1

---------------------------------------------------------------------------
(* The rooms *)

Manages(role) == role \in {"owner", "manager", "cashier"}

(* handleConnection: rooms by role, and none without a branch. *)
(* Mutant: the claim is read by its old name, and every socket shares the rooms of no branch. *)
TopicsOf(role) ==
  {"branch"} \cup (IF Manages(role) THEN {"managers"} ELSE {}) \cup (IF role = "rider" THEN {"riders"} ELSE {})
JoinedByOldClaim(claims) == TopicsOf(claims.role) \X {NoBranch}
Joined(claims) == IF claims.branch = NoBranch THEN {} ELSE TopicsOf(claims.role) \X {claims.branch}

(* A device signs in again, as somebody else, in another role or for another branch. *)
TakeToken(s) ==
  \E b \in Branches \cup {NoBranch}, r \in StaffRoles :
    /\ ~On(s) /\ Counts
    /\ tokens' = [tokens EXCEPT ![s] = [branch |-> b, role |-> r]]
    /\ UNCHANGED <<adapter, sockets, dropped, toDrop, guests, heard, skipped>>

Connect(s) ==
  \E v \in SocketServers :
    /\ ~On(s) /\ Counts
    /\ LET b == tokens[s].branch
       IN sockets' = [sockets EXCEPT ![s] =
            [server |-> v, rooms |-> Joined(tokens[s]), since |-> IF b = NoBranch THEN 0 ELSE dropped[b]]]
    /\ UNCHANGED <<adapter, tokens, dropped, toDrop, guests, heard, skipped>>

Leave(s) ==
  /\ On(s)
  /\ sockets' = [sockets EXCEPT ![s] = Off]
  /\ heard' = [heard EXCEPT ![s] = {}]
  /\ skipped' = skipped \ {s}
  /\ UNCHANGED <<adapter, tokens, dropped, toDrop, guests, roomCalls>>

(* subscribe:tables, subscribe:orders and subscribe:dashboard name a branch; a socket without one may name   *)
(* none, and joins rooms of no branch, which no event is said in.                                           *)
MaySubscribe(s, topic, b) ==
  /\ b = tokens[s].branch
  /\ topic = "dashboard" => tokens[s].role \in {"owner", "manager"}

Subscribe(s) ==
  \E topic \in {"tables", "dashboard", "orders"} \cup Statuses, b \in Branches \cup {NoBranch} :
    /\ On(s) /\ MaySubscribe(s, topic, b) /\ Counts
    /\ sockets' = [sockets EXCEPT ![s].rooms = @ \cup ({topic} \cup (IF topic \in Statuses THEN {"orders"} ELSE {})) \X {b}]
    /\ UNCHANGED <<adapter, tokens, dropped, toDrop, guests, heard, skipped>>

(* subscribe:tab, by the id of a tab and its code, or by the code of a group. *)
SubscribeTab(g) ==
  \E k \in Tabs \cup Groups, code \in { CodeOf[t] : t \in Tabs } \cup Groups :
    /\ IF k \in Tabs THEN CodeOf[k] = code ELSE k = code
    /\ Counts
    /\ guests' = [guests EXCEPT ![g].rooms = @ \cup {k}, ![g].codes = @ \cup {code}]
    /\ UNCHANGED <<adapter, tokens, sockets, dropped, toDrop, heard, skipped>>

---------------------------------------------------------------------------
(* What is said where *)

Events == {"tab", "table", "orderCreated", "dashboard", "notification", "shift", "waiterCall",
           "deliveryAvailable", "delivery", "reservation"} \cup Statuses

(* Mutant: managers are not told of deliveries. *)
AudienceUnmanaged(event, b) ==
  (CASE event = "deliveryAvailable" -> {"riders"} [] OTHER -> {"managers"}) \X {b}
Audience(event, b) ==
  (CASE event \in {"tab", "reservation"} -> {"branch", "managers"}
     [] event = "table" -> {"tables", "managers"}
     [] event = "orderCreated" -> {"orders", "pending", "managers"}
     [] event \in Statuses -> {"orders", event, "managers"}
     [] event = "dashboard" -> {"dashboard", "managers"}
     [] event = "notification" -> {"branch"}
     [] event = "shift" -> {"managers"}
     [] event = "waiterCall" -> {"branch", "managers", "tables"}
     [] event = "deliveryAvailable" -> {"riders", "managers"}
     [] event = "delivery" -> {"riders", "managers", "branch"}) \X {b}

Hears(s, event, b) == On(s) /\ sockets[s].rooms \cap Audience(event, b) # {}

(* An event of a branch, said by one of the servers: late is what is heard after a sign-out. *)
Emit ==
  \E v \in SocketServers, event \in Events, b \in Branches :
    /\ heard' = [s \in Sockets |->
         IF Hears(s, event, b) /\ (adapter \/ sockets[s].server = v)
         THEN heard[s] \cup {[branch |-> b, late |-> sockets[s].since < dropped[b]]}
         ELSE heard[s]]
    /\ UNCHANGED <<adapter, tokens, sockets, dropped, toDrop, guests, roomCalls, skipped>>

---------------------------------------------------------------------------
(* Sign-outs of the business, and restarts *)

SignOut ==
  /\ toDrop = {} /\ Counts
  /\ toDrop' = Branches
  /\ UNCHANGED <<adapter, tokens, sockets, dropped, guests, heard, skipped>>

(* disconnectBranch reaches the sockets of the other servers only through Redis. *)
(* Mutant: the rooms of the managers are dropped, and theirs alone. *)
ReachedManagers(v, b) == { s \in Sockets : <<"managers", b>> \in sockets[s].rooms /\ (adapter \/ sockets[s].server = v) }
Reached(v, b) == { s \in Sockets : <<"branch", b>> \in sockets[s].rooms /\ (adapter \/ sockets[s].server = v) }

DisconnectBranch ==
  \E v \in SocketServers, b \in toDrop :
    LET gone == Reached(v, b)
    IN /\ toDrop' = toDrop \ {b}
       /\ dropped' = [dropped EXCEPT ![b] = @ + 1]
       /\ sockets' = [s \in Sockets |-> IF s \in gone THEN Off ELSE sockets[s]]
       /\ heard' = [s \in Sockets |-> IF s \in gone THEN {} ELSE heard[s]]
       /\ skipped' = (skipped \ gone) \cup
            { s \in Sockets : On(s) /\ ~adapter /\ sockets[s].server # v /\ tokens[s].branch = b }
       /\ UNCHANGED <<adapter, tokens, guests, roomCalls>>

(* The audit entry of a branch cannot be written, or the server stops: the rest keep their sockets. *)
CutSignOut ==
  /\ toDrop # {}
  /\ toDrop' = {}
  /\ UNCHANGED <<adapter, tokens, sockets, dropped, guests, roomCalls, heard, skipped>>

RestartServer ==
  \E v \in SocketServers :
    LET gone == { s \in Sockets : sockets[s].server = v }
    IN /\ gone # {}
       /\ sockets' = [s \in Sockets |-> IF s \in gone THEN Off ELSE sockets[s]]
       /\ heard' = [s \in Sockets |-> IF s \in gone THEN {} ELSE heard[s]]
       /\ skipped' = skipped \ gone
       /\ UNCHANGED <<adapter, tokens, dropped, toDrop, guests, roomCalls>>

RoomNext ==
  \/ \E s \in Sockets : TakeToken(s) \/ Connect(s) \/ Leave(s) \/ Subscribe(s)
  \/ \E g \in Guests : SubscribeTab(g)
  \/ Emit \/ SignOut \/ DisconnectBranch \/ CutSignOut \/ RestartServer

RoomSpec == RoomInit /\ [][RoomNext]_roomVars

---------------------------------------------------------------------------
(* Tokens, sockets and histories have their types. *)
RoomTypeOK ==
  /\ adapter \in BOOLEAN
  /\ tokens \in [Sockets -> [branch: Branches \cup {NoBranch}, role: StaffRoles]]
  /\ \A s \in Sockets :
       /\ sockets[s].server \in SocketServers \cup {NoServer}
       /\ sockets[s].rooms \subseteq Topics \X (Branches \cup {NoBranch})
       /\ sockets[s].since \in 0 .. MaxRoomCalls
  /\ dropped \in [Branches -> 0 .. MaxRoomCalls]
  /\ toDrop \subseteq Branches
  /\ \A g \in Guests : guests[g].rooms \subseteq Tabs \cup Groups
  /\ roomCalls \in 0 .. MaxRoomCalls
  /\ \A s \in Sockets : heard[s] \subseteq [branch: Branches, late: BOOLEAN]
  /\ skipped \subseteq Sockets

(* A socket hears of the branch its token names and of no other; after a sign-out has come to its branch  *)
(* it hears nothing more until it connects again, unless it hangs on a server the call could not reach.    *)
HeardIsOwn ==
  \A s \in Sockets : \A h \in heard[s] : h.branch = tokens[s].branch /\ (h.late => s \in skipped)

(* Owners, managers and cashiers hear what happens in their branch without asking for any room. *)
ManagersHear ==
  \A s \in Sockets :
    On(s) /\ Manages(tokens[s].role) /\ tokens[s].branch # NoBranch
      => \A event \in Events : Hears(s, event, tokens[s].branch)

(* A guest is in the rooms whose codes it gave. *)
GuestsInOwnRooms ==
  \A g \in Guests : \A k \in guests[g].rooms :
    (IF k \in Tabs THEN CodeOf[k] ELSE k) \in guests[g].codes

(* All three: who hears what. *)
RoomsAreRight == HeardIsOwn /\ ManagersHear /\ GuestsInOwnRooms

=============================================================================
