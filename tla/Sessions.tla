------------------------------ MODULE Sessions ------------------------------
(***************************************************************************)
(* How the sessions of a branch's staff begin and end (auth/, user/, branch/ *)
(* and admin/).  An access token carries the version of its user's row and   *)
(* of the branch's row, and is good while both still have them; a refresh    *)
(* token is a row that is revoked when it is spent.  Sign-outs increment a   *)
(* version in the database, but every edit of a user or of a branch reads    *)
(* the row and saves all of it, the version included.                        *)
(*                                                                           *)
(* One person of one branch is followed; passwords, PINs and what an edit    *)
(* changes besides are left out.  Refresh tokens that expire are taken for   *)
(* revoked.                                                                  *)
(***************************************************************************)
EXTENDS Naturals, FiniteSets

CONSTANTS
  RefreshTokens,       \* rows of refresh_tokens, numbered in the order they are inserted
  SessionCalls,        \* requests in flight at the same time
  MaxSessionCalls,     \* bound: requests begun in a behaviour
  NoToken

ASSUME SessionAssumption ==
  RefreshTokens \subseteq Nat /\ NoToken \notin RefreshTokens /\ MaxSessionCalls \in Nat

VARIABLES
  person,         \* the row of users: is_active, pin_token_version
  staffVersion,   \* staff_token_version in the row of branches
  suspended,      \* is the business suspended
  refreshTokens,  \* is_revoked, and the session each belongs to
  accessTokens,   \* history: what was issued, with the session each belongs to
  signOuts,       \* history: sign-outs of the person that are complete
  rolledBack,     \* history: did an edit save a version that was no longer the row's
  sessionCalls,   \* the requests in flight, with what they read
  sessionBegun    \* requests begun so far

sessionVars == <<person, staffVersion, suspended, refreshTokens, accessTokens, signOuts, rolledBack,
                 sessionCalls, sessionBegun>>

Person == [active: BOOLEAN, pin: Nat]
(* A session begins with a sign-in: `since` counts the sign-outs before, `crossed` says one overlapped. *)
Session == [since: Nat, crossed: BOOLEAN]
NewSession == [since |-> 0, crossed |-> FALSE]

Resting == [does |-> "nothing", at |-> "idle", person |-> [active |-> TRUE, pin |-> 0], staff |-> 0,
            token |-> NoToken, session |-> NewSession]

SessionInit ==
  /\ person = [active |-> TRUE, pin |-> 0]
  /\ staffVersion = 0
  /\ suspended = FALSE
  /\ refreshTokens = [t \in RefreshTokens |-> [state |-> "none", session |-> NewSession]]
  /\ accessTokens = {}
  /\ signOuts = 0
  /\ rolledBack = FALSE
  /\ sessionCalls = [c \in SessionCalls |-> Resting]
  /\ sessionBegun = 0

---------------------------------------------------------------------------
(* JwtStrategy.validate. *)
Admitted(t) ==
  /\ person.active /\ ~suspended
  /\ t.pin = person.pin
  /\ t.staff = staffVersion

InFlight(c) == sessionCalls[c].at # "idle"
Reaches(c, at) == sessionCalls[c].at = at /\ UNCHANGED sessionBegun
GoesTo(c, request) == sessionCalls' = [sessionCalls EXCEPT ![c] = request]

(* A sign-out that is under way when a session begins or goes on, or that takes a step meanwhile, crosses it. *)
SigningOut == \E c \in SessionCalls : sessionCalls[c].at \in {"bump", "revoke"}
Crossing(c, next) ==
  sessionCalls' = [d \in SessionCalls |->
    IF d = c THEN next
    ELSE [sessionCalls[d] EXCEPT !.session.crossed = @ \/ sessionCalls[d].at \in {"save", "user", "spend", "issue", "sign"}]]

BeginRequest(c, request) ==
  /\ ~InFlight(c)
  /\ sessionBegun < MaxSessionCalls
  /\ sessionBegun' = sessionBegun + 1
  /\ GoesTo(c, request)
  /\ UNCHANGED <<person, staffVersion, suspended, refreshTokens, accessTokens, signOuts, rolledBack>>

---------------------------------------------------------------------------
(* Signing in: login; waiterLogin, of active staff; activate, which saves an inactive row as active. *)
SignIn(does, at) ==
  [Resting EXCEPT !.does = does, !.at = at, !.person = person,
                  !.session = [since |-> signOuts, crossed |-> SigningOut]]

Login(c) == BeginRequest(c, SignIn("login", "issue"))

WaiterLogin(c) == person.active /\ BeginRequest(c, SignIn("login", "issue"))

Activate(c) == ~person.active /\ BeginRequest(c, SignIn("activate", "save"))

(* impersonate, by the administrator, reads the owner and the branch, leaves an entry in the audit log and *)
(* signs with the versions it read; there is no refresh token.                                            *)
Impersonate(c) == BeginRequest(c, [SignIn("impersonate", "sign") EXCEPT !.staff = staffVersion])

SignImpersonation(c) ==
  LET me == sessionCalls[c]
  IN /\ Reaches(c, "sign")
     /\ accessTokens' = accessTokens \cup {[pin |-> me.person.pin, staff |-> me.staff, session |-> me.session]}
     /\ GoesTo(c, Resting)
     /\ UNCHANGED <<person, staffVersion, suspended, refreshTokens, signOuts, rolledBack>>

(* generateTokens reads the branch, inserts a refresh token, whose failure is swallowed, and signs. *)
GenerateTokens(c) ==
  LET me == sessionCalls[c]
  IN /\ Reaches(c, "issue")
     /\ accessTokens' = accessTokens \cup
          {[pin |-> me.person.pin, staff |-> staffVersion, session |-> me.session]}
     /\ \/ \E t \in RefreshTokens :
             /\ refreshTokens[t].state = "none"
             /\ \A u \in RefreshTokens : refreshTokens[u].state = "none" => t <= u
             /\ refreshTokens' = [refreshTokens EXCEPT ![t] = [state |-> "live", session |-> me.session]]
        \/ UNCHANGED refreshTokens
     /\ GoesTo(c, Resting)
     /\ UNCHANGED <<person, staffVersion, suspended, signOuts, rolledBack>>

(* refreshToken: find the live row, find the user, revoke the row as it was read, sign anew. *)
Refresh(c) ==
  \E t \in RefreshTokens :
    /\ refreshTokens[t].state = "live"
    /\ BeginRequest(c, [Resting EXCEPT !.does = "refresh", !.at = "user", !.token = t,
          !.session = [refreshTokens[t].session EXCEPT !.crossed = @ \/ SigningOut]])

RefreshReadsUser(c) ==
  /\ Reaches(c, "user")
  /\ GoesTo(c, IF person.active THEN [sessionCalls[c] EXCEPT !.at = "spend", !.person = person] ELSE Resting)
  /\ UNCHANGED <<person, staffVersion, suspended, refreshTokens, accessTokens, signOuts, rolledBack>>

RefreshSpendsToken(c) ==
  LET me == sessionCalls[c]
  IN /\ Reaches(c, "spend")
     /\ refreshTokens' = [refreshTokens EXCEPT ![me.token].state = "revoked"]
     /\ GoesTo(c, [me EXCEPT !.at = "issue", !.token = NoToken])
     /\ UNCHANGED <<person, staffVersion, suspended, accessTokens, signOuts, rolledBack>>

(* The person signs out, or shows a refresh token from another device. *)
Logout ==
  /\ \E t \in RefreshTokens :
       /\ refreshTokens[t].state = "live"
       /\ refreshTokens' = [refreshTokens EXCEPT ![t].state = "revoked"]
  /\ UNCHANGED <<person, staffVersion, suspended, accessTokens, signOuts, rolledBack, sessionCalls, sessionBegun>>

---------------------------------------------------------------------------
(* Edits of the user: the profile, a password or a verified address; (de)activation; a new PIN, which    *)
(* counts up what was read.                                                                               *)
EditPerson(c) ==
  \E does \in {"profile", "reactivate", "deactivate", "reset", "status"} :
    BeginRequest(c, [Resting EXCEPT !.does = does, !.at = "save", !.person = person])

Edited(row, does) ==
  CASE does = "profile" -> row
    [] does \in {"activate", "reactivate"} -> [row EXCEPT !.active = TRUE]
    [] does = "reset" -> [row EXCEPT !.pin = @ + 1]
    [] OTHER -> [row EXCEPT !.active = FALSE]

(* updateUserStatus signs the person out once the row is saved. *)
SavePerson(c) ==
  LET me == sessionCalls[c]
  IN /\ Reaches(c, "save") /\ me.does \in {"profile", "reactivate", "deactivate", "reset", "status", "activate"}
     /\ person' = Edited(me.person, me.does)
     /\ rolledBack' = (rolledBack \/ me.person.pin # person.pin)
     /\ GoesTo(c, CASE me.does = "activate" -> [me EXCEPT !.at = "issue"]
                    [] me.does = "status" -> [Resting EXCEPT !.does = "user", !.at = "bump"]
                    [] OTHER -> Resting)
     /\ UNCHANGED <<staffVersion, suspended, refreshTokens, accessTokens, signOuts>>

(* Edits of the branch: its details, its settings, its features. *)
EditBranch(c) == BeginRequest(c, [Resting EXCEPT !.does = "branch", !.at = "save", !.staff = staffVersion])

SaveBranch(c) ==
  LET me == sessionCalls[c]
  IN /\ Reaches(c, "save") /\ me.does = "branch"
     /\ staffVersion' = me.staff
     /\ rolledBack' = (rolledBack \/ me.staff # staffVersion)
     /\ GoesTo(c, Resting)
     /\ UNCHANGED <<person, suspended, refreshTokens, accessTokens, signOuts>>

---------------------------------------------------------------------------
(* Signing out, by the administrator: a user, a business, or a business that is suspended. *)
ForceLogout(c) == \E does \in {"user", "business"} : BeginRequest(c, [Resting EXCEPT !.does = does, !.at = "bump"])

SuspendBusiness(c) ==
  /\ ~InFlight(c) /\ sessionBegun < MaxSessionCalls
  /\ ~suspended /\ suspended' = TRUE
  /\ sessionBegun' = sessionBegun + 1
  /\ GoesTo(c, [Resting EXCEPT !.does = "business", !.at = "bump"])
  /\ UNCHANGED <<person, staffVersion, refreshTokens, accessTokens, signOuts, rolledBack>>

Reinstate ==
  /\ suspended /\ suspended' = FALSE
  /\ UNCHANGED <<person, staffVersion, refreshTokens, accessTokens, signOuts, rolledBack, sessionCalls, sessionBegun>>

(* The version is incremented in the database. *)
BumpVersion(c) ==
  LET me == sessionCalls[c]
  IN /\ Reaches(c, "bump")
     /\ \/ me.does = "user" /\ person' = [person EXCEPT !.pin = @ + 1] /\ UNCHANGED staffVersion
        \/ me.does = "business" /\ staffVersion' = staffVersion + 1 /\ UNCHANGED person
     /\ Crossing(c, [me EXCEPT !.at = "revoke"])
     /\ UNCHANGED <<suspended, refreshTokens, accessTokens, signOuts, rolledBack>>

(* The refresh tokens are revoked by one UPDATE.  Mutant: they are left as they are. *)
RevokedNone == refreshTokens
Revoked == [t \in RefreshTokens |->
             IF refreshTokens[t].state = "live" THEN [refreshTokens[t] EXCEPT !.state = "revoked"]
             ELSE refreshTokens[t]]

RevokeTokens(c) ==
  /\ Reaches(c, "revoke")
  /\ refreshTokens' = Revoked
  /\ signOuts' = signOuts + 1
  /\ Crossing(c, Resting)
  /\ UNCHANGED <<person, staffVersion, suspended, accessTokens, rolledBack>>

(* closeShift ends the access tokens of the branch; they can be refreshed. *)
ShiftEnds ==
  /\ sessionBegun < MaxSessionCalls /\ sessionBegun' = sessionBegun + 1
  /\ staffVersion' = staffVersion + 1
  /\ UNCHANGED <<person, suspended, refreshTokens, accessTokens, signOuts, rolledBack, sessionCalls>>

(* A request fails, or the server stops. *)
RequestCut(c) ==
  /\ InFlight(c)
  /\ GoesTo(c, Resting)
  /\ UNCHANGED <<person, staffVersion, suspended, refreshTokens, accessTokens, signOuts, rolledBack, sessionBegun>>

SessionNext ==
  \/ \E c \in SessionCalls :
       \/ Login(c) \/ WaiterLogin(c) \/ Activate(c) \/ GenerateTokens(c)
       \/ Impersonate(c) \/ SignImpersonation(c)
       \/ Refresh(c) \/ RefreshReadsUser(c) \/ RefreshSpendsToken(c)
       \/ EditPerson(c) \/ SavePerson(c) \/ EditBranch(c) \/ SaveBranch(c)
       \/ ForceLogout(c) \/ SuspendBusiness(c) \/ BumpVersion(c) \/ RevokeTokens(c) \/ RequestCut(c)
  \/ Logout \/ ShiftEnds \/ Reinstate

SessionSpec == SessionInit /\ [][SessionNext]_sessionVars

---------------------------------------------------------------------------
SessionRequest ==
  [does: {"nothing", "login", "activate", "refresh", "profile", "reactivate", "deactivate", "reset", "status", "branch",
          "user", "business", "impersonate"},
   at: {"idle", "save", "user", "spend", "issue", "sign", "bump", "revoke"},
   person: Person, staff: Nat, token: RefreshTokens \cup {NoToken}, session: Session]

(* Rows, tokens, requests and histories have their types. *)
SessionTypeOK ==
  /\ person \in Person /\ staffVersion \in Nat /\ suspended \in BOOLEAN
  /\ refreshTokens \in [RefreshTokens -> [state: {"none", "live", "revoked"}, session: Session]]
  /\ \A t \in accessTokens : t \in [pin: Nat, staff: Nat, session: Session]
  /\ signOuts \in Nat
  /\ rolledBack \in BOOLEAN
  /\ sessionCalls \in [SessionCalls -> SessionRequest]
  /\ sessionBegun \in 0 .. MaxSessionCalls

Ended(session) == session.since < signOuts /\ ~session.crossed

(* "kill every live session (token version bump + refresh-token revocation)": once a sign-out is      *)
(* complete no session begun before goes on, by its access or its refresh token, unless its sign-in or *)
(* a refresh of it crossed a sign-out, or the edit of a row read before took a version back.           *)
SignedOutIsOut ==
  /\ \A t \in accessTokens : Ended(t.session) /\ Admitted(t) => rolledBack
  /\ \A t \in RefreshTokens : Ended(refreshTokens[t].session) => refreshTokens[t].state # "live"

=============================================================================
