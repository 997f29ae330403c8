---------------------------- MODULE Credentials ----------------------------
(***************************************************************************)
(* The credential a branch connects its payment terminals with               *)
(* (upsertCredential, updateCredential and resolveClient of                  *)
(* payment/moniepoint-erp.service.ts) and the client a push is sent by       *)
(* (payment/moniepoint-channel.client.ts).  One row per branch is meant, and *)
(* looked for; nothing makes it unique.  A save writes back every column of  *)
(* the row it read.                                                          *)
(*                                                                           *)
(* A secret is one the provider issued to a client id.  The environment is   *)
(* stored and shown, never used.  A client lives as long as its push, so     *)
(* the bearer token it caches is never used again.  What becomes of a push   *)
(* is in TerminalPushes.                                                     *)
(***************************************************************************)
EXTENDS Naturals, FiniteSets

CONSTANTS
  ErpClients,      \* client ids of the provider
  MaxSecret,       \* bound: secrets issued to a client
  CredentialRows,  \* ids of rows
  ErpCalls,        \* requests in flight at the same time
  MaxErpCalls,     \* bound: requests begun in a behaviour
  MaxKey,          \* bound: encryption keys the server is started with
  NoClient, NoRowId

ASSUME CredentialsAssumption ==
  /\ NoClient \notin ErpClients /\ NoRowId \notin CredentialRows
  /\ MaxSecret \in Nat \ {0} /\ MaxErpCalls \in Nat /\ MaxKey \in Nat

VARIABLES
  credentials,   \* rows of moniepoint_erp_credentials of the branch
  serverKey,     \* the key secrets are encrypted with
  erpCalls,      \* the requests in flight, with the row they read
  erpBegun,
  meant,         \* history: what the latest requests that were answered asked for, column by column
  atOnce,        \* history: two requests that save worked at the same time
  pushed         \* history: what the provider accepted pushes with

credentialVars == <<credentials, serverKey, erpCalls, erpBegun, meant, atOnce, pushed>>

ErpSecret == [of: ErpClients \cup {NoClient}, n: 0 .. MaxSecret]
NoSecret == [of |-> NoClient, n |-> 0]
Credential == [client: ErpClients \cup {NoClient}, secret: ErpSecret, key: 0 .. MaxKey, active: BOOLEAN]
NoCredential == [client |-> NoClient, secret |-> NoSecret, key |-> 0, active |-> FALSE]
IdleErpCall == [at |-> "idle", id |-> NoRowId, row |-> NoCredential, asks |-> {}]

CredentialInit ==
  /\ credentials = [r \in CredentialRows |-> NoCredential]
  /\ serverKey = 0
  /\ erpCalls = [c \in ErpCalls |-> IdleErpCall]
  /\ erpBegun = 0
  /\ meant = NoCredential /\ atOnce = FALSE /\ pushed = {}

Enrolled == { r \in CredentialRows : credentials[r] # NoCredential }
ErpCallAt(c, at) == erpCalls[c].at = at
BeginErpCall(c, call) ==
  /\ ErpCallAt(c, "idle")
  /\ erpBegun < MaxErpCalls /\ erpBegun' = erpBegun + 1
  /\ erpCalls' = [erpCalls EXCEPT ![c] = call]
MoveErpCall(c, call) == erpCalls' = [erpCalls EXCEPT ![c] = call] /\ UNCHANGED erpBegun
NoteSaver == atOnce' = (atOnce \/ \E d \in ErpCalls : ErpCallAt(d, "save"))

(* encrypt; a value that another key encrypted comes back from decrypt as it is. *)
Encrypted(row, secret) == [row EXCEPT !.secret = secret, !.key = serverKey]
Decrypts(row) == row.key = serverKey

---------------------------------------------------------------------------
(* upsertCredential *)

(* Mutant: the secret of the row that is replaced is kept. *)
EnrolOverOldSecret(row, client, secret, active) ==
  IF row = NoCredential THEN [Encrypted(row, secret) EXCEPT !.client = client, !.active = active]
  ELSE [row EXCEPT !.client = client, !.active = active]
EnrolOver(row, client, secret, active) == [Encrypted(row, secret) EXCEPT !.client = client, !.active = active]

Enrol(c) ==
  \E client \in ErpClients, n \in 1 .. MaxSecret, active \in BOOLEAN,
     r \in IF Enrolled = {} THEN { x \in CredentialRows : \A d \in ErpCalls : erpCalls[d].id # x } ELSE Enrolled :
    /\ BeginErpCall(c, [at |-> "save", id |-> r,
                        row |-> EnrolOver(credentials[r], client, [of |-> client, n |-> n], active),
                        asks |-> {"client", "secret", "active"}])
    /\ NoteSaver
    /\ UNCHANGED <<credentials, serverKey, meant, pushed>>

(* updateCredential: the secret is another of the client enrolled; what is left out stays as it was read. *)
Update(c) ==
  \E r \in Enrolled, asks \in SUBSET {"secret", "active"}, n \in 1 .. MaxSecret, active \in BOOLEAN :
    LET row == credentials[r]
        rotated == IF "secret" \in asks THEN Encrypted(row, [of |-> row.client, n |-> n]) ELSE row
    IN /\ BeginErpCall(c, [at |-> "save", id |-> r, asks |-> asks,
                           row |-> IF "active" \in asks THEN [rotated EXCEPT !.active = active] ELSE rotated])
       /\ NoteSaver
       /\ UNCHANGED <<credentials, serverKey, meant, pushed>>

SaveCredential(c) ==
  LET me == erpCalls[c]
  IN /\ ErpCallAt(c, "save")
     /\ credentials' = [credentials EXCEPT ![me.id] = me.row]
     /\ meant' = [client |-> IF "client" \in me.asks THEN me.row.client ELSE meant.client,
                  secret |-> IF "secret" \in me.asks THEN me.row.secret ELSE meant.secret,
                  key    |-> IF "secret" \in me.asks THEN me.row.key ELSE meant.key,
                  active |-> IF "active" \in me.asks THEN me.row.active ELSE meant.active]
     /\ MoveErpCall(c, IdleErpCall)
     /\ UNCHANGED <<serverKey, atOnce, pushed>>

---------------------------------------------------------------------------
(* pushPayment: resolveClient, authenticate, and the transaction *)

(* Mutant: is_active is not asked for. *)
ResolvesInactive(row) == Decrypts(row)
Resolves(row) == row.active /\ Decrypts(row)

ResolveClient(c) ==
  \E r \in Enrolled :
    /\ Resolves(credentials[r])
    /\ BeginErpCall(c, [IdleErpCall EXCEPT !.at = "auth", !.id = r, !.row = credentials[r]])
    /\ UNCHANGED <<credentials, serverKey, meant, atOnce, pushed>>

(* A row of another key refuses the push; so does an inactive one. *)
RefusePush(c) ==
  \E r \in Enrolled :
    /\ ~Resolves(credentials[r])
    /\ BeginErpCall(c, IdleErpCall)
    /\ UNCHANGED <<credentials, serverKey, meant, atOnce, pushed>>

(* The provider knows the secrets it issued to a client. *)
Authenticate(c) ==
  LET me == erpCalls[c]
  IN /\ ErpCallAt(c, "auth")
     /\ MoveErpCall(c, IF me.row.secret.of = me.row.client THEN [me EXCEPT !.at = "transact"] ELSE IdleErpCall)
     /\ UNCHANGED <<credentials, serverKey, meant, atOnce, pushed>>

Transact(c) ==
  LET me == erpCalls[c]
  IN /\ ErpCallAt(c, "transact")
     /\ pushed' = pushed \cup {[client |-> me.row.client, active |-> me.row.active]}
     /\ MoveErpCall(c, IdleErpCall)
     /\ UNCHANGED <<credentials, serverKey, meant, atOnce>>

---------------------------------------------------------------------------
(* A call of the provider fails or takes longer than ten seconds, or the request stops before its save. *)
CutErpCall(c) ==
  /\ ~ErpCallAt(c, "idle")
  /\ MoveErpCall(c, IdleErpCall)
  /\ UNCHANGED <<credentials, serverKey, meant, atOnce, pushed>>

(* The server starts with another ENCRYPTION_KEY; no request outlives it. *)
ChangeKey ==
  /\ serverKey < MaxKey /\ serverKey' = serverKey + 1
  /\ erpCalls' = [c \in ErpCalls |-> IdleErpCall]
  /\ UNCHANGED <<credentials, erpBegun, meant, atOnce, pushed>>

CredentialNext ==
  \/ \E c \in ErpCalls :
       \/ Enrol(c) \/ Update(c) \/ SaveCredential(c)
       \/ ResolveClient(c) \/ RefusePush(c) \/ Authenticate(c) \/ Transact(c) \/ CutErpCall(c)
  \/ ChangeKey

CredentialSpec == CredentialInit /\ [][CredentialNext]_credentialVars

---------------------------------------------------------------------------
(* Rows, requests and histories have their types. *)
CredentialTypeOK ==
  /\ credentials \in [CredentialRows -> Credential]
  /\ serverKey \in 0 .. MaxKey
  /\ \A c \in ErpCalls :
       /\ erpCalls[c].at \in {"idle", "save", "auth", "transact"}
       /\ erpCalls[c].id \in CredentialRows \cup {NoRowId} /\ erpCalls[c].row \in Credential
  /\ erpBegun \in 0 .. MaxErpCalls
  /\ meant \in Credential /\ atOnce \in BOOLEAN

(* A branch has one row, and it holds in every column what was last asked for it: the client, a secret issued *)
(* to that client under the key of that moment, and whether it is active.  Not so once two requests saved at  *)
(* the same time: the later wrote back what it had read, or inserted a second row.                            *)
CredentialIsMeant ==
  atOnce \/ (Cardinality(Enrolled) <= 1 /\ \A r \in Enrolled : credentials[r] = meant)

(* The provider accepts no push with a credential that was switched off when the push began, and without two *)
(* saves at once it refuses none for a secret of another client.                                             *)
PushesAreActive ==
  /\ \A p \in pushed : p.active
  /\ atOnce \/ \A r \in Enrolled : credentials[r].secret.of = credentials[r].client

(* Both: what overlapping requests may do to a credential, and nothing else does. *)
CredentialHolds == CredentialIsMeant /\ PushesAreActive

=============================================================================
