------------------------------ MODULE Accounts ------------------------------
(***************************************************************************)
(* How businesses come to be (auth/auth.service.ts: register and             *)
(* setupSuperAdmin; create of branch/branch.service.ts;                      *)
(* extendBusinessSubscription of admin/admin.service.ts) and the one-time    *)
(* tokens that reset a password or verify an address.  register is one       *)
(* transaction; the others commit every row on its own.                      *)
(*                                                                           *)
(* The platform's own business is seeded by a migration with its super       *)
(* admin, so the set-up finds one, unless the account was removed since.     *)
(* Where the business itself is missing the set-up fails: the owner it       *)
(* writes first, 'pending', is not a uuid.  Nobody registers a business      *)
(* under the platform's name.  Sessions, staff and roles have modules of     *)
(* their own.                                                                *)
(***************************************************************************)
EXTENDS Naturals, FiniteSets

CONSTANTS
  Houses,            \* businesses that register, by slug
  Platform,          \* the platform's business
  Offices,           \* ids of branches
  Emails,
  AccountTokens,     \* ids of verification tokens
  AccountCalls,      \* requests in flight at the same time
  MaxAccountCalls,   \* bound: requests begun in a behaviour
  NoHouse, NoOffice, NoEmail, NoAccountToken

ASSUME AccountsAssumption ==
  /\ Platform \notin Houses /\ NoHouse \notin Houses \cup {Platform}
  /\ Offices \cap (Houses \cup {Platform}) = {}
  /\ NoOffice \notin Offices /\ NoEmail \notin Emails /\ NoAccountToken \notin AccountTokens
  /\ MaxAccountCalls \in Nat

VARIABLES
  houses,         \* rows of businesses, with owner_id
  offices,        \* rows of branches, with business_id
  subscribed,     \* branches with a row of subscriptions
  accounts,       \* rows of users
  accountTokens,  \* rows of verification_tokens
  accountCalls,   \* the requests in flight; a transaction's rows are in its call until it commits
  accountsBegun,
  unfinished,     \* history: branches and businesses whose creation was cut between two rows
  overlapped,     \* history: tokens and set-ups used by two requests at once, or cut before they were marked
  spent           \* history: how often a token took effect

accountVars == <<houses, offices, subscribed, accounts, accountTokens, accountCalls, accountsBegun,
                 unfinished, overlapped, spent>>

House == Houses \cup {Platform}
HouseRow == [exists: BOOLEAN, owner: Emails \cup {NoEmail}]
AccountRow == [office: Offices \cup {NoOffice}, role: {"none", "owner", "superadmin"}]
NoAccount == [office |-> NoOffice, role |-> "none"]
TokenRow == [of: Emails \cup {NoEmail}, state: {"unsent", "sent", "used", "expired"}]
IdleAccountCall == [at |-> "idle", house |-> NoHouse, office |-> NoOffice, email |-> NoEmail, token |-> NoAccountToken]

(* The migration's business, with or without the rows that came with it. *)
AccountInit ==
  \E e \in Emails, o \in Offices, seeded \in {"all", "office", "house", "nothing"} :
    /\ houses = [h \in House |-> [exists |-> h = Platform /\ seeded # "nothing",
                                  owner |-> IF h = Platform /\ seeded = "all" THEN e ELSE NoEmail]]
    /\ offices = [p \in Offices |-> IF p = o /\ seeded \in {"all", "office"} THEN Platform ELSE NoHouse]
    /\ subscribed = { p \in Offices : p = o /\ seeded = "all" }
    /\ accounts = [x \in Emails |-> IF x = e /\ seeded = "all" THEN [office |-> o, role |-> "superadmin"] ELSE NoAccount]
    /\ accountTokens = [t \in AccountTokens |-> [of |-> NoEmail, state |-> "unsent"]]
    /\ accountCalls = [c \in AccountCalls |-> IdleAccountCall]
    /\ accountsBegun = 0
    /\ unfinished = IF seeded = "all" THEN {} ELSE {Platform} \cup { p \in Offices : p = o /\ seeded = "office" }
    /\ overlapped = {}
    /\ spent = [t \in AccountTokens |-> 0]

At(c, at) == accountCalls[c].at = at
Has(e) == accounts[e].role # "none"
FreeOffice(o) == offices[o] = NoHouse /\ \A c \in AccountCalls : accountCalls[c].office # o
BeginsAccount(c, call) ==
  /\ At(c, "idle")
  /\ accountsBegun < MaxAccountCalls /\ accountsBegun' = accountsBegun + 1
  /\ accountCalls' = [accountCalls EXCEPT ![c] = call]
Goes(c, at) ==
  /\ accountCalls' = [accountCalls EXCEPT ![c] = IF at = "idle" THEN IdleAccountCall ELSE [@ EXCEPT !.at = at]]
  /\ UNCHANGED accountsBegun
Goes2(c, at, o) ==
  /\ accountCalls' = [accountCalls EXCEPT ![c] = [@ EXCEPT !.at = at, !.office = o]]
  /\ UNCHANGED accountsBegun

---------------------------------------------------------------------------
(* register *)

(* The slug is unique: whoever inserts it waits for a transaction that has, and fails where it is taken. *)
Register(c) ==
  \E h \in Houses, o \in Offices, e \in Emails :
    /\ FreeOffice(o) /\ ~houses[h].exists
    /\ \A d \in AccountCalls : At(d, "owner") => accountCalls[d].house # h
    /\ BeginsAccount(c, [IdleAccountCall EXCEPT !.at = "owner", !.house = h, !.office = o, !.email = e])
    /\ UNCHANGED <<houses, offices, subscribed, accounts, accountTokens, unfinished, overlapped, spent>>

(* What the commit makes visible.  Mutant: the trial subscription is left to a later request. *)
CommittedUnsubscribed(o) == subscribed
Committed(o) == subscribed \cup {o}

(* The owner's address is unique too: the transaction commits all its rows, or rolls back. *)
CommitRegister(c) ==
  LET me == accountCalls[c]
  IN /\ At(c, "owner") /\ ~Has(me.email)
     /\ houses' = [houses EXCEPT ![me.house] = [exists |-> TRUE, owner |-> me.email]]
     /\ offices' = [offices EXCEPT ![me.office] = me.house]
     /\ subscribed' = Committed(me.office)
     /\ accounts' = [accounts EXCEPT ![me.email] = [office |-> me.office, role |-> "owner"]]
     /\ Goes(c, "idle")
     /\ UNCHANGED <<accountTokens, unfinished, overlapped, spent>>

RefuseRegister(c) ==
  /\ At(c, "owner") /\ Has(accountCalls[c].email)
  /\ Goes(c, "idle")
  /\ UNCHANGED <<houses, offices, subscribed, accounts, accountTokens, unfinished, overlapped, spent>>

---------------------------------------------------------------------------
(* Another branch of a business, and the administrator's grant *)

CreateBranch(c) ==
  \E h \in Houses, o \in Offices :
    /\ houses[h].exists /\ FreeOffice(o)
    /\ offices' = [offices EXCEPT ![o] = h]
    /\ BeginsAccount(c, [IdleAccountCall EXCEPT !.at = "trial", !.house = h, !.office = o])
    /\ UNCHANGED <<houses, subscribed, accounts, accountTokens, unfinished, overlapped, spent>>

(* The subscription of a branch is unique: another may have got there first, and the request fails. *)
InsertTrial(c) ==
  LET me == accountCalls[c]
  IN /\ At(c, "trial")
     /\ subscribed' = subscribed \cup {me.office}
     /\ Goes(c, "idle")
     /\ UNCHANGED <<houses, offices, accounts, accountTokens, unfinished, overlapped, spent>>

(* extendBusinessSubscription takes whichever branch of the business is found first. *)
ExtendBusinessSubscription(c) ==
  \E h \in House, o \in Offices :
    /\ houses[h].exists /\ offices[o] = h
    /\ BeginsAccount(c, IF o \in subscribed THEN IdleAccountCall
               ELSE [IdleAccountCall EXCEPT !.at = "trial", !.house = h, !.office = o])
    /\ UNCHANGED <<houses, offices, subscribed, accounts, accountTokens, unfinished, overlapped, spent>>

---------------------------------------------------------------------------
(* setupSuperAdmin *)

SuperAdmins == { e \in Emails : accounts[e].role = "superadmin" }
SettingUp == { c \in AccountCalls : accountCalls[c].house = Platform /\ accountCalls[c].email # NoEmail }

(* Mutant: a super admin is looked for by the address alone. *)
MaySetUpByEmail(e) == ~Has(e)
MaySetUp(e) == SuperAdmins = {} /\ ~Has(e)

SetUp(c) ==
  \E e \in Emails :
    /\ MaySetUp(e) /\ houses[Platform].exists
    /\ BeginsAccount(c, [IdleAccountCall EXCEPT !.at = "adminOffice", !.house = Platform, !.email = e])
    /\ overlapped' = IF SettingUp # {} THEN overlapped \cup {Platform} ELSE overlapped
    /\ UNCHANGED <<houses, offices, subscribed, accounts, accountTokens, unfinished, spent>>

(* The branch and the subscription of an earlier attempt are taken over. *)
FindAdminOffice(c) ==
  /\ At(c, "adminOffice")
  /\ IF \E o \in Offices : offices[o] = Platform
     THEN \E o \in Offices : offices[o] = Platform /\ Goes2(c, "adminTrial", o)
     ELSE \E o \in Offices : FreeOffice(o) /\ Goes2(c, "newOffice", o)
  /\ UNCHANGED <<houses, offices, subscribed, accounts, accountTokens, unfinished, overlapped, spent>>

InsertAdminOffice(c) ==
  LET me == accountCalls[c]
  IN /\ At(c, "newOffice")
     /\ offices' = [offices EXCEPT ![me.office] = Platform]
     /\ Goes(c, "adminTrial")
     /\ UNCHANGED <<houses, subscribed, accounts, accountTokens, unfinished, overlapped, spent>>

InsertAdminTrial(c) ==
  LET me == accountCalls[c]
  IN /\ At(c, "adminTrial")
     /\ subscribed' = subscribed \cup {me.office}
     /\ unfinished' = unfinished \ {me.office}
     /\ Goes(c, "admin")
     /\ UNCHANGED <<houses, offices, accounts, accountTokens, overlapped, spent>>

InsertSuperAdmin(c) ==
  LET me == accountCalls[c]
  IN /\ At(c, "admin") /\ ~Has(me.email)
     /\ accounts' = [accounts EXCEPT ![me.email] = [office |-> me.office, role |-> "superadmin"]]
     /\ Goes(c, "adminOwns")
     /\ UNCHANGED <<houses, offices, subscribed, accountTokens, unfinished, overlapped, spent>>

SaveOwner(c) ==
  LET me == accountCalls[c]
  IN /\ At(c, "adminOwns")
     /\ houses' = [houses EXCEPT ![Platform].owner = me.email]
     /\ unfinished' = unfinished \ {Platform}
     /\ Goes(c, "idle")
     /\ UNCHANGED <<offices, subscribed, accounts, accountTokens, overlapped, spent>>

---------------------------------------------------------------------------
(* Tokens: forgotPassword and sendEmailVerification make one; resetPassword and verifyEmail look for one *)
(* that is unused, save the user, and save the token as used.                                            *)

SendToken(c) ==
  \E t \in AccountTokens, e \in Emails :
    /\ accountTokens[t].state = "unsent" /\ Has(e)
    /\ accountTokens' = [accountTokens EXCEPT ![t] = [of |-> e, state |-> "sent"]]
    /\ BeginsAccount(c, IdleAccountCall)
    /\ UNCHANGED <<houses, offices, subscribed, accounts, unfinished, overlapped, spent>>

ExpireToken ==
  \E t \in AccountTokens :
    /\ accountTokens[t].state = "sent"
    /\ accountTokens' = [accountTokens EXCEPT ![t].state = "expired"]
    /\ UNCHANGED <<houses, offices, subscribed, accounts, accountCalls, accountsBegun, unfinished, overlapped, spent>>

(* Mutant: a used token is as good as another. *)
UsableWhenUsed(t) == accountTokens[t].state \in {"sent", "used"}
Usable(t) == accountTokens[t].state = "sent"

UseToken(c) ==
  \E t \in AccountTokens :
    /\ Usable(t)
    /\ overlapped' = IF \E d \in AccountCalls : accountCalls[d].token = t THEN overlapped \cup {t} ELSE overlapped
    /\ BeginsAccount(c, [IdleAccountCall EXCEPT !.at = "saveUser", !.email = accountTokens[t].of, !.token = t])
    /\ UNCHANGED <<houses, offices, subscribed, accounts, accountTokens, unfinished, spent>>

SaveTokenUser(c) ==
  LET me == accountCalls[c]
  IN /\ At(c, "saveUser")
     /\ spent' = [spent EXCEPT ![me.token] = @ + 1]
     /\ Goes(c, "saveToken")
     /\ UNCHANGED <<houses, offices, subscribed, accounts, accountTokens, unfinished, overlapped>>

SpendToken(c) ==
  LET me == accountCalls[c]
  IN /\ At(c, "saveToken")
     /\ accountTokens' = [accountTokens EXCEPT ![me.token].state = "used"]
     /\ Goes(c, "idle")
     /\ UNCHANGED <<houses, offices, subscribed, accounts, unfinished, overlapped, spent>>

---------------------------------------------------------------------------
(* A request fails or the server stops between two of its steps. *)
CutAccountCall(c) ==
  LET me == accountCalls[c]
  IN /\ ~At(c, "idle")
     /\ unfinished' = unfinished \cup
          (IF me.at \in {"trial", "adminTrial"} /\ me.office \notin subscribed THEN {me.office} ELSE {}) \cup
          (IF me.at = "adminOwns" THEN {Platform} ELSE {})
     /\ overlapped' = IF me.at = "saveToken" THEN overlapped \cup {me.token} ELSE overlapped
     /\ Goes(c, "idle")
     /\ UNCHANGED <<houses, offices, subscribed, accounts, accountTokens, spent>>

AccountNext ==
  \/ \E c \in AccountCalls :
       \/ Register(c) \/ CommitRegister(c) \/ RefuseRegister(c)
       \/ CreateBranch(c) \/ InsertTrial(c) \/ ExtendBusinessSubscription(c)
       \/ SetUp(c) \/ FindAdminOffice(c) \/ InsertAdminOffice(c) \/ InsertAdminTrial(c)
       \/ InsertSuperAdmin(c) \/ SaveOwner(c)
       \/ SendToken(c) \/ UseToken(c) \/ SaveTokenUser(c) \/ SpendToken(c)
       \/ CutAccountCall(c)
  \/ ExpireToken

AccountSpec == AccountInit /\ [][AccountNext]_accountVars

---------------------------------------------------------------------------
(* Rows, requests and histories have their types. *)
AccountTypeOK ==
  /\ houses \in [House -> HouseRow]
  /\ offices \in [Offices -> House \cup {NoHouse}]
  /\ subscribed \subseteq Offices
  /\ accounts \in [Emails -> AccountRow]
  /\ accountTokens \in [AccountTokens -> TokenRow]
  /\ \A c \in AccountCalls :
       /\ accountCalls[c].at \in {"idle", "owner", "trial", "adminOffice", "newOffice", "adminTrial", "admin",
                                  "adminOwns", "saveUser", "saveToken"}
       /\ accountCalls[c].house \in House \cup {NoHouse} /\ accountCalls[c].office \in Offices \cup {NoOffice}
       /\ accountCalls[c].email \in Emails \cup {NoEmail}
  /\ accountsBegun \in 0 .. MaxAccountCalls
  /\ unfinished \subseteq Offices \cup House
  /\ spent \in [AccountTokens -> Nat]

(* Whoever can sign in has a business with a branch, and the business of an owner is his. *)
AccountsHaveHouses ==
  \A e \in Emails : Has(e) =>
    LET h == offices[accounts[e].office]
    IN h # NoHouse /\ houses[h].exists /\ (accounts[e].role = "owner" => houses[h].owner = e)

(* A branch has the subscription the guard asks for, unless its creation stopped before it, or is not done. *)
OfficesAreSubscribed ==
  \A o \in Offices : offices[o] # NoHouse =>
    \/ o \in subscribed \/ o \in unfinished
    \/ \E c \in AccountCalls : accountCalls[c].office = o /\ accountCalls[c].at \in {"trial", "adminTrial"}

(* A business has an owner, but for the platform's when a set-up stopped before it said who. *)
HousesHaveOwners ==
  \A h \in House : houses[h].exists =>
    (houses[h].owner # NoEmail /\ Has(houses[h].owner)) \/ h \in unfinished

(* There is one super admin, unless set-ups overlapped; a token takes effect once, unless two requests had *)
(* it at once or one stopped before it marked the token.                                                  *)
OneTimeOnly ==
  /\ Cardinality(SuperAdmins) <= 1 \/ Platform \in overlapped
  /\ \A t \in AccountTokens : spent[t] <= 1 \/ t \in overlapped

(* All four: what a creation that fails, stops or overlaps with another leaves behind. *)
AccountsStand == AccountsHaveHouses /\ OfficesAreSubscribed /\ HousesHaveOwners /\ OneTimeOnly

=============================================================================
