---------------------------- MODULE BackOfficeProofs ----------------------------
(***************************************************************************)
(* What runs behind the counter, proved for any number of requests, calls, *)
(* sockets, servers, people, houses, tabs and orders: sign-outs (module    *)
(* Sessions), the rooms of the sockets (module Rooms), accounts and their  *)
(* owners (module Accounts), staff records and their profiles (module      *)
(* Staff), the default roles (module Roles) and the stock of an item       *)
(* (module StockLedger).                                                   *)
(***************************************************************************)
EXTENDS Sessions, Rooms, Accounts, Staff, Roles, StockLedger, FiniteSetTheorems, SumProofs, TLAPS

---------------------------------------------------------------------------
(* Sessions: the inductive invariant. *)

SignsIn(q) == q.does \in {"login", "activate", "refresh", "impersonate"}

Midway == {"save", "user", "spend", "issue", "sign"}

Revoking == \E c \in SessionCalls : sessionCalls[c].at = "revoke"

(* A request never knows versions the rows have not reached, and one that signs somebody in without *)
(* having crossed a sign-out began after the last one that is complete. *)
RequestFresh(q) ==
  /\ ~rolledBack => q.person.pin <= person.pin /\ q.staff <= staffVersion
  /\ q.session.since <= signOuts
  /\ q.at \in {"user", "spend", "issue", "sign"} => SignsIn(q)
  /\ q.at \in Midway /\ SignsIn(q) /\ ~q.session.crossed => q.session.since = signOuts /\ ~Revoking

(* A token outlives no sign-out: one of its two versions is behind as soon as the versions were counted up. *)
Outdated(t) == t.pin < person.pin \/ t.staff < staffVersion
TokenAged(t) ==
  ~t.session.crossed /\ ~rolledBack =>
    /\ t.pin <= person.pin /\ t.staff <= staffVersion
    /\ t.session.since < signOuts \/ Revoking => Outdated(t)

RefreshAged(t) ==
  /\ refreshTokens[t].session.since <= signOuts
  /\ Ended(refreshTokens[t].session) => refreshTokens[t].state # "live"

SessionInv ==
  /\ SessionTypeOK
  /\ \A c \in SessionCalls : RequestFresh(sessionCalls[c])
  /\ \A t \in accessTokens : TokenAged(t)
  /\ \A t \in RefreshTokens : RefreshAged(t)

LEMMA RestingType == Resting \in SessionRequest
  BY DEF Resting, SessionRequest, Person, NewSession, Session

(* The request of one call changes and nothing else but the count of the requests. *)
LEMMA CallMoves ==
  ASSUME SessionInv, NEW c \in SessionCalls, NEW q \in SessionRequest, GoesTo(c, q),
         sessionBegun' \in 0 .. MaxSessionCalls, suspended' \in BOOLEAN,
         UNCHANGED <<person, staffVersion, signOuts, rolledBack>>,
         refreshTokens' \in [RefreshTokens -> [state: {"none", "live", "revoked"}, session: Session]],
         \A t \in accessTokens' : t \in [pin: Nat, staff: Nat, session: Session],
         RequestFresh(q), q.at # "revoke",
         \A t \in accessTokens' : t \in accessTokens \/ TokenAged(t),
         \A t \in RefreshTokens : refreshTokens'[t] = refreshTokens[t] \/ RefreshAged(t)'
  PROVE  SessionInv'
<1>1. /\ sessionCalls' \in [SessionCalls -> SessionRequest] /\ sessionCalls'[c] = q
      /\ \A d \in SessionCalls : d # c => sessionCalls'[d] = sessionCalls[d]
  BY DEF GoesTo, SessionInv, SessionTypeOK
<1>2. SessionTypeOK'
  BY <1>1 DEF SessionInv, SessionTypeOK
<1>3. Revoking' => Revoking
  BY <1>1 DEF Revoking
<1>4. ASSUME NEW d \in SessionCalls PROVE RequestFresh(sessionCalls[d])'
  <2>1. RequestFresh(sessionCalls'[d])
    BY <1>1 DEF SessionInv
  <2> QED
    BY <1>3, <2>1 DEF RequestFresh, SignsIn
<1>5. ASSUME NEW t \in accessTokens' PROVE TokenAged(t)'
  <2>1. TokenAged(t)
    BY DEF SessionInv
  <2> QED
    BY <1>3, <2>1 DEF TokenAged, Outdated
<1>6. ASSUME NEW t \in RefreshTokens PROVE RefreshAged(t)'
  BY DEF SessionInv, RefreshAged, Ended
<1> QED
  BY <1>2, <1>4, <1>5, <1>6 DEF SessionInv

LEMMA CallBegins ==
  ASSUME SessionInv, NEW c \in SessionCalls, NEW q \in SessionRequest, BeginRequest(c, q),
         RequestFresh(q), q.at # "revoke"
  PROVE  SessionInv'
<1>1. sessionBegun' \in 0 .. MaxSessionCalls
  BY SessionAssumption DEF BeginRequest, SessionInv, SessionTypeOK
<1>2. suspended' \in BOOLEAN /\ UNCHANGED <<refreshTokens, accessTokens>>
  BY DEF BeginRequest, SessionInv, SessionTypeOK
<1> QED
  BY <1>1, <1>2, CallMoves DEF BeginRequest, SessionInv, SessionTypeOK

(* A request that has read the person or the branch knows what is there, and crosses what is under way. *)
LEMMA FreshRead ==
  ASSUME SessionInv, NEW q \in SessionRequest,
         q.person \in {person, [active |-> TRUE, pin |-> 0]}, q.staff \in {staffVersion, 0},
         q.session.since <= signOuts, q.at \in {"user", "spend", "issue", "sign"} => SignsIn(q),
         q.at \in Midway /\ SignsIn(q) /\ ~q.session.crossed => q.session.since = signOuts /\ ~SigningOut
  PROVE  RequestFresh(q)
<1>1. person.pin \in Nat /\ staffVersion \in Nat
  BY DEF SessionInv, SessionTypeOK, Person
<1>2. q.person.pin <= person.pin /\ q.staff <= staffVersion
  BY <1>1
<1>3. ~SigningOut => ~Revoking
  BY DEF SigningOut, Revoking
<1> QED
  BY <1>2, <1>3 DEF RequestFresh

LEMMA SignInFresh ==
  ASSUME SessionInv, NEW does \in {"login", "activate", "impersonate"},
         NEW at \in {"issue", "save", "sign"}, NEW version \in {staffVersion, 0}
  PROVE  LET q == [SignIn(does, at) EXCEPT !.staff = version]
         IN  q \in SessionRequest /\ RequestFresh(q) /\ q.at = at
<1> DEFINE q == [SignIn(does, at) EXCEPT !.staff = version]
<1>1. signOuts \in Nat /\ person \in Person /\ version \in Nat /\ SigningOut \in BOOLEAN
  BY DEF SessionInv, SessionTypeOK, SigningOut
<1>2. /\ q \in SessionRequest /\ q.at = at /\ q.does = does /\ q.staff = version /\ q.person = person
      /\ q.session = [since |-> signOuts, crossed |-> SigningOut]
  BY <1>1 DEF SignIn, Resting, SessionRequest, NewSession, Session
<1>3. RequestFresh(q)
  <2> HIDE DEF q
  <2> QED
    BY <1>1, <1>2, FreshRead DEF SignsIn
<1> QED
  BY <1>2, <1>3

LEMMA SignInPlain ==
  ASSUME SessionInv, NEW does \in {"login", "activate"}, NEW at \in {"issue", "save"}
  PROVE  SignIn(does, at) \in SessionRequest /\ RequestFresh(SignIn(does, at)) /\ SignIn(does, at).at = at
<1> DEFINE q == SignIn(does, at)
<1>1. signOuts \in Nat /\ person \in Person /\ SigningOut \in BOOLEAN
  BY DEF SessionInv, SessionTypeOK, SigningOut
<1>2. /\ q \in SessionRequest /\ q.at = at /\ q.does = does /\ q.staff = 0 /\ q.person = person
      /\ q.session = [since |-> signOuts, crossed |-> SigningOut]
  BY <1>1 DEF SignIn, Resting, SessionRequest, NewSession, Session
<1>3. RequestFresh(q)
  <2> HIDE DEF q
  <2> QED
    BY <1>1, <1>2, FreshRead DEF SignsIn
<1> QED
  BY <1>2, <1>3

LEMMA BeginsInv ==
  ASSUME SessionInv, NEW c \in SessionCalls,
         Login(c) \/ WaiterLogin(c) \/ Activate(c) \/ Impersonate(c)
  PROVE  SessionInv'
<1>1. CASE BeginRequest(c, SignIn("login", "issue"))
  BY <1>1, SignInPlain, CallBegins
<1>2. CASE BeginRequest(c, SignIn("activate", "save"))
  BY <1>2, SignInPlain, CallBegins
<1>3. CASE Impersonate(c)
  <2> DEFINE q == [SignIn("impersonate", "sign") EXCEPT !.staff = staffVersion]
  <2>1. q \in SessionRequest /\ RequestFresh(q) /\ q.at = "sign"
    BY SignInFresh
  <2> HIDE DEF q
  <2> QED
    BY <1>3, <2>1, CallBegins DEF Impersonate, q
<1> QED
  BY <1>1, <1>2, <1>3 DEF Login, WaiterLogin, Activate

(* A live refresh token that crossed nothing belongs to a session begun after the last sign-out. *)
LEMMA RefreshInv == ASSUME SessionInv, NEW c \in SessionCalls, Refresh(c) PROVE SessionInv'
<1>1. PICK t \in RefreshTokens :
        /\ refreshTokens[t].state = "live"
        /\ BeginRequest(c, [Resting EXCEPT !.does = "refresh", !.at = "user", !.token = t,
              !.session = [refreshTokens[t].session EXCEPT !.crossed = @ \/ SigningOut]])
  BY DEF Refresh
<1> DEFINE s == [refreshTokens[t].session EXCEPT !.crossed = @ \/ SigningOut]
           q == [Resting EXCEPT !.does = "refresh", !.at = "user", !.token = t, !.session = s]
<1>2. /\ refreshTokens[t].session \in Session /\ refreshTokens[t].session.since <= signOuts
      /\ ~Ended(refreshTokens[t].session) /\ SigningOut \in BOOLEAN /\ signOuts \in Nat
  BY <1>1 DEF SessionInv, SessionTypeOK, RefreshAged, SigningOut
<1>3. /\ s \in Session /\ s.since <= signOuts
      /\ ~s.crossed => s.since = signOuts /\ ~SigningOut
  BY <1>2 DEF Session, Ended
<1> HIDE DEF s
<1>4. /\ q \in SessionRequest /\ q.at = "user" /\ q.does = "refresh" /\ q.session = s
      /\ q.person = [active |-> TRUE, pin |-> 0] /\ q.staff = 0
  BY <1>3 DEF Resting, SessionRequest, Person
<1> HIDE DEF q
<1>5. RequestFresh(q)
  BY <1>3, <1>4, FreshRead DEF SignsIn
<1> QED
  BY <1>1, <1>4, <1>5, CallBegins DEF q, s

LEMMA EditsInv ==
  ASSUME SessionInv, NEW c \in SessionCalls, EditPerson(c) \/ EditBranch(c) \/ ForceLogout(c)
  PROVE  SessionInv'
<1>1. person \in Person /\ staffVersion \in Nat /\ signOuts \in Nat
  BY DEF SessionInv, SessionTypeOK
<1>2. CASE EditPerson(c)
  <2>1. PICK does \in {"profile", "reactivate", "deactivate", "reset", "status"} :
          BeginRequest(c, [Resting EXCEPT !.does = does, !.at = "save", !.person = person])
    BY <1>2 DEF EditPerson
  <2> DEFINE q == [Resting EXCEPT !.does = does, !.at = "save", !.person = person]
  <2>2. /\ q \in SessionRequest /\ q.at = "save" /\ q.does = does /\ q.person = person /\ q.staff = 0
        /\ q.session.since = 0
    BY <1>1 DEF Resting, SessionRequest, NewSession, Session
  <2> HIDE DEF q
  <2>3. RequestFresh(q)
    BY <1>1, <2>2, FreshRead DEF SignsIn
  <2> QED
    BY <2>1, <2>2, <2>3, CallBegins DEF q
<1>3. CASE EditBranch(c)
  <2> DEFINE q == [Resting EXCEPT !.does = "branch", !.at = "save", !.staff = staffVersion]
  <2>2. /\ q \in SessionRequest /\ q.at = "save" /\ q.does = "branch" /\ q.staff = staffVersion
        /\ q.person = [active |-> TRUE, pin |-> 0] /\ q.session.since = 0
    BY <1>1 DEF Resting, SessionRequest, NewSession, Session, Person
  <2> HIDE DEF q
  <2>3. RequestFresh(q)
    BY <1>1, <2>2, FreshRead DEF SignsIn
  <2> QED
    BY <1>3, <2>2, <2>3, CallBegins DEF q, EditBranch
<1>4. CASE ForceLogout(c)
  <2>1. PICK does \in {"user", "business"} :
          BeginRequest(c, [Resting EXCEPT !.does = does, !.at = "bump"])
    BY <1>4 DEF ForceLogout
  <2> DEFINE q == [Resting EXCEPT !.does = does, !.at = "bump"]
  <2>2. /\ q \in SessionRequest /\ q.at = "bump" /\ q.does = does /\ q.staff = 0
        /\ q.person = [active |-> TRUE, pin |-> 0] /\ q.session.since = 0
    BY DEF Resting, SessionRequest, NewSession, Session, Person
  <2> HIDE DEF q
  <2>3. RequestFresh(q)
    BY <1>1, <2>2, FreshRead DEF Midway
  <2> QED
    BY <2>1, <2>2, <2>3, CallBegins DEF q
<1> QED
  BY <1>2, <1>3, <1>4

LEMMA RestingFresh == ASSUME SessionInv PROVE RequestFresh(Resting) /\ Resting.at = "idle"
<1>1. person.pin \in Nat /\ staffVersion \in Nat /\ signOuts \in Nat
  BY DEF SessionInv, SessionTypeOK, Person
<1> QED
  BY <1>1 DEF Resting, NewSession, RequestFresh, Midway

(* A request goes on, or ends, without writing a row. *)
LEMMA CallGoesOn ==
  ASSUME SessionInv, NEW c \in SessionCalls, NEW q \in SessionRequest, GoesTo(c, q),
         UNCHANGED <<person, staffVersion, suspended, signOuts, rolledBack, sessionBegun>>,
         refreshTokens' \in [RefreshTokens -> [state: {"none", "live", "revoked"}, session: Session]],
         \A t \in accessTokens' : t \in [pin: Nat, staff: Nat, session: Session],
         RequestFresh(q), q.at # "revoke",
         \A t \in accessTokens' : t \in accessTokens \/ TokenAged(t),
         \A t \in RefreshTokens : refreshTokens'[t] = refreshTokens[t] \/ RefreshAged(t)'
  PROVE  SessionInv'
<1>1. sessionBegun' \in 0 .. MaxSessionCalls /\ suspended' \in BOOLEAN
  BY DEF SessionInv, SessionTypeOK
<1> QED
  BY <1>1, CallMoves

(* The token a request signs in: as old as what the request knew. *)
LEMMA TokenIssued ==
  ASSUME SessionInv, NEW c \in SessionCalls, sessionCalls[c].at \in {"issue", "sign"},
         NEW version \in {staffVersion, sessionCalls[c].staff}
  PROVE  LET t == [pin |-> sessionCalls[c].person.pin, staff |-> version, session |-> sessionCalls[c].session]
         IN  t \in [pin: Nat, staff: Nat, session: Session] /\ TokenAged(t)
<1> DEFINE q == sessionCalls[c]
           t == [pin |-> q.person.pin, staff |-> version, session |-> q.session]
<1>1. q \in SessionRequest /\ RequestFresh(q) /\ staffVersion \in Nat /\ signOuts \in Nat
  BY DEF SessionInv, SessionTypeOK
<1>2. t \in [pin: Nat, staff: Nat, session: Session]
  BY <1>1 DEF SessionRequest, Person
<1>3. ~q.session.crossed => q.session.since = signOuts /\ ~Revoking
  BY <1>1 DEF RequestFresh, Midway
<1>4. ~rolledBack => q.person.pin <= person.pin /\ version <= staffVersion
  BY <1>1 DEF RequestFresh
<1>5. TokenAged(t)
  BY <1>1, <1>3, <1>4 DEF TokenAged
<1> QED
  BY <1>2, <1>5

LEMMA SignImpersonationInv ==
  ASSUME SessionInv, NEW c \in SessionCalls, SignImpersonation(c) PROVE SessionInv'
<1> DEFINE me == sessionCalls[c]
           t == [pin |-> me.person.pin, staff |-> me.staff, session |-> me.session]
<1>1. t \in [pin: Nat, staff: Nat, session: Session] /\ TokenAged(t)
  BY TokenIssued DEF SignImpersonation, Reaches
<1> HIDE DEF t
<1>2. accessTokens' = accessTokens \cup {t}
  BY DEF SignImpersonation, t
<1>3. Resting \in SessionRequest /\ RequestFresh(Resting) /\ Resting.at = "idle"
  BY RestingType, RestingFresh
<1> QED
  BY <1>1, <1>2, <1>3, CallGoesOn DEF SignImpersonation, Reaches, SessionInv, SessionTypeOK

LEMMA GenerateTokensInv ==
  ASSUME SessionInv, NEW c \in SessionCalls, GenerateTokens(c) PROVE SessionInv'
<1> DEFINE me == sessionCalls[c]
           t == [pin |-> me.person.pin, staff |-> staffVersion, session |-> me.session]
<1>1. t \in [pin: Nat, staff: Nat, session: Session] /\ TokenAged(t)
  BY TokenIssued DEF GenerateTokens, Reaches
<1> HIDE DEF t
<1>2. accessTokens' = accessTokens \cup {t}
  BY DEF GenerateTokens, t
<1>3. Resting \in SessionRequest /\ RequestFresh(Resting) /\ Resting.at = "idle"
  BY RestingType, RestingFresh
<1>4. me \in SessionRequest /\ RequestFresh(me) /\ me.at = "issue" /\ signOuts \in Nat
  BY DEF GenerateTokens, Reaches, SessionInv, SessionTypeOK
<1>5. me.session \in Session /\ me.session.since <= signOuts
      /\ (~me.session.crossed => me.session.since = signOuts)
  BY <1>4 DEF SessionRequest, RequestFresh, Midway
<1>6. /\ refreshTokens' \in [RefreshTokens -> [state: {"none", "live", "revoked"}, session: Session]]
      /\ \A u \in RefreshTokens : refreshTokens'[u] = refreshTokens[u] \/ RefreshAged(u)'
  <2>1. CASE UNCHANGED refreshTokens
    BY <2>1 DEF SessionInv, SessionTypeOK
  <2>2. ASSUME NEW u \in RefreshTokens,
               refreshTokens' = [refreshTokens EXCEPT ![u] = [state |-> "live", session |-> me.session]]
        PROVE  <1>6!1 /\ <1>6!2
    <3>1. refreshTokens' \in [RefreshTokens -> [state: {"none", "live", "revoked"}, session: Session]]
      BY <1>5, <2>2 DEF SessionInv, SessionTypeOK
    <3>2. /\ refreshTokens'[u] = [state |-> "live", session |-> me.session]
          /\ \A x \in RefreshTokens : x # u => refreshTokens'[x] = refreshTokens[x]
      BY <2>2 DEF SessionInv, SessionTypeOK
    <3>3. signOuts' = signOuts
      BY DEF GenerateTokens
    <3>4. RefreshAged(u)'
      BY <1>4, <1>5, <3>2, <3>3 DEF RefreshAged, Ended, Session
    <3> QED
      BY <3>1, <3>2, <3>4
  <2> QED
    BY <2>1, <2>2 DEF GenerateTokens
<1> QED
  BY <1>1, <1>2, <1>3, <1>6, CallGoesOn DEF GenerateTokens, Reaches, SessionInv, SessionTypeOK

LEMMA RefreshReadsUserInv ==
  ASSUME SessionInv, NEW c \in SessionCalls, RefreshReadsUser(c) PROVE SessionInv'
<1> DEFINE me == sessionCalls[c]
           q == [me EXCEPT !.at = "spend", !.person = person]
<1>1. /\ me \in SessionRequest /\ RequestFresh(me) /\ me.at = "user" /\ person \in Person
      /\ UNCHANGED <<person, staffVersion, suspended, refreshTokens, accessTokens, signOuts, rolledBack, sessionBegun>>
  BY DEF RefreshReadsUser, Reaches, SessionInv, SessionTypeOK
<1>2. SessionTypeOK
  BY DEF SessionInv
<1>3. CASE GoesTo(c, q)
  <2>1. /\ q \in SessionRequest /\ q.at = "spend" /\ q.does = me.does /\ q.session = me.session
        /\ q.person = person /\ q.staff = me.staff
    BY <1>1 DEF SessionRequest
  <2> HIDE DEF q
  <2>2. RequestFresh(q)
    BY <1>1, <2>1 DEF RequestFresh, SignsIn, Midway, Person
  <2> QED
    BY <1>1, <1>2, <1>3, <2>1, <2>2, CallGoesOn DEF SessionTypeOK
<1>4. CASE GoesTo(c, Resting)
  BY <1>1, <1>2, <1>4, RestingType, RestingFresh, CallGoesOn DEF SessionTypeOK
<1> QED
  BY <1>3, <1>4 DEF RefreshReadsUser

LEMMA RefreshSpendsTokenInv ==
  ASSUME SessionInv, NEW c \in SessionCalls, RefreshSpendsToken(c) PROVE SessionInv'
<1> DEFINE me == sessionCalls[c]
           q == [me EXCEPT !.at = "issue", !.token = NoToken]
<1>1. /\ me \in SessionRequest /\ RequestFresh(me) /\ me.at = "spend" /\ GoesTo(c, q)
      /\ UNCHANGED <<person, staffVersion, suspended, accessTokens, signOuts, rolledBack, sessionBegun>>
  BY DEF RefreshSpendsToken, Reaches, SessionInv, SessionTypeOK
<1>2. SessionTypeOK
  BY DEF SessionInv
<1>3. /\ q \in SessionRequest /\ q.at = "issue" /\ q.does = me.does /\ q.session = me.session
      /\ q.person = me.person /\ q.staff = me.staff
  BY <1>1 DEF SessionRequest
<1> HIDE DEF q
<1>4. RequestFresh(q)
  BY <1>1, <1>3 DEF RequestFresh, SignsIn, Midway
<1>5. refreshTokens' = [refreshTokens EXCEPT ![me.token].state = "revoked"]
  BY DEF RefreshSpendsToken
<1>6. refreshTokens' \in [RefreshTokens -> [state: {"none", "live", "revoked"}, session: Session]]
  BY <1>2, <1>5 DEF SessionTypeOK
<1>7. \A u \in RefreshTokens : refreshTokens'[u] = refreshTokens[u] \/ RefreshAged(u)'
  BY <1>1, <1>2, <1>5 DEF SessionInv, SessionTypeOK, RefreshAged, Ended
<1> QED
  BY <1>1, <1>2, <1>3, <1>4, <1>6, <1>7, CallGoesOn DEF SessionTypeOK

LEMMA RequestCutInv ==
  ASSUME SessionInv, NEW c \in SessionCalls, RequestCut(c) PROVE SessionInv'
  BY RestingType, RestingFresh, CallGoesOn DEF RequestCut, SessionInv, SessionTypeOK

LEMMA SuspendBusinessInv ==
  ASSUME SessionInv, NEW c \in SessionCalls, SuspendBusiness(c) PROVE SessionInv'
<1> DEFINE q == [Resting EXCEPT !.does = "business", !.at = "bump"]
<1>1. person \in Person /\ staffVersion \in Nat /\ signOuts \in Nat
  BY DEF SessionInv, SessionTypeOK
<1>2. /\ q \in SessionRequest /\ q.at = "bump" /\ q.does = "business" /\ q.staff = 0
      /\ q.person = [active |-> TRUE, pin |-> 0] /\ q.session.since = 0
  BY DEF Resting, SessionRequest, NewSession, Session, Person
<1> HIDE DEF q
<1>3. RequestFresh(q)
  BY <1>1, <1>2, FreshRead DEF Midway
<1>4. sessionBegun' \in 0 .. MaxSessionCalls /\ suspended' \in BOOLEAN
  BY SessionAssumption DEF SuspendBusiness, SessionInv, SessionTypeOK
<1>5. GoesTo(c, q)
  BY DEF SuspendBusiness, q
<1> QED
  BY <1>2, <1>3, <1>4, <1>5, CallMoves DEF SuspendBusiness, SessionInv, SessionTypeOK

---------------------------------------------------------------------------
(* The saves: a row goes back to an earlier version only when the history says so. *)
LEMMA VersionsMove ==
  ASSUME SessionInv, NEW c \in SessionCalls, NEW q \in SessionRequest, GoesTo(c, q),
         person' \in Person, staffVersion' \in Nat, rolledBack' \in BOOLEAN,
         rolledBack => rolledBack',
         ~rolledBack' => person.pin <= person'.pin /\ staffVersion <= staffVersion',
         UNCHANGED <<suspended, refreshTokens, accessTokens, signOuts, sessionBegun>>,
         RequestFresh(q)', q.at # "revoke"
  PROVE  SessionInv'
<1>1. /\ sessionCalls' \in [SessionCalls -> SessionRequest] /\ sessionCalls'[c] = q
      /\ \A d \in SessionCalls : d # c => sessionCalls'[d] = sessionCalls[d]
  BY DEF GoesTo, SessionInv, SessionTypeOK
<1>2. SessionTypeOK'
  BY <1>1 DEF SessionInv, SessionTypeOK
<1>3. Revoking' => Revoking
  BY <1>1 DEF Revoking
<1>4. person.pin \in Nat /\ person'.pin \in Nat /\ staffVersion \in Nat
  BY DEF SessionInv, SessionTypeOK, Person
<1>5. ASSUME NEW d \in SessionCalls PROVE RequestFresh(sessionCalls[d])'
  <2>1. CASE d = c
    BY <1>1, <2>1 DEF RequestFresh, SignsIn
  <2>2. CASE d # c
    <3>1. RequestFresh(sessionCalls[d]) /\ sessionCalls'[d] = sessionCalls[d]
      BY <1>1, <2>2 DEF SessionInv
    <3>2. sessionCalls[d].person.pin \in Nat /\ sessionCalls[d].staff \in Nat
      BY DEF SessionInv, SessionTypeOK, SessionRequest, Person
    <3> QED
      BY <1>3, <1>4, <3>1, <3>2 DEF RequestFresh, SignsIn
  <2> QED
    BY <2>1, <2>2
<1>6. ASSUME NEW t \in accessTokens' PROVE TokenAged(t)'
  <2>1. TokenAged(t) /\ t \in [pin: Nat, staff: Nat, session: Session]
    BY DEF SessionInv, SessionTypeOK
  <2>2. t.pin \in Nat /\ t.staff \in Nat
    BY <2>1
  <2> QED
    BY <1>3, <1>4, <2>1, <2>2 DEF TokenAged, Outdated
<1>7. ASSUME NEW t \in RefreshTokens PROVE RefreshAged(t)'
  BY DEF SessionInv, RefreshAged, Ended
<1> QED
  BY <1>2, <1>5, <1>6, <1>7 DEF SessionInv

LEMMA EditedType ==
  ASSUME NEW row \in Person, NEW does
  PROVE  Edited(row, does) \in Person /\ Edited(row, does).pin >= row.pin
<1>0. row.pin \in Nat
  BY DEF Person
<1>1. CASE does = "profile"
  BY <1>1 DEF Edited, Person
<1>2. CASE does = "activate" \/ does = "reactivate"
  <2>1. does # "profile" /\ does # "reset" /\ does \in {"activate", "reactivate"}
    BY <1>2
  <2>2. Edited(row, does) = [row EXCEPT !.active = TRUE]
    BY <2>1 DEF Edited
  <2>3. [row EXCEPT !.active = TRUE] \in Person /\ [row EXCEPT !.active = TRUE].pin = row.pin
    BY DEF Person
  <2> QED
    BY <1>0, <2>2, <2>3
<1>3. CASE does = "reset"
  BY <1>3 DEF Edited, Person
<1>4. CASE does \notin {"profile", "activate", "reactivate", "reset"}
  <2>1. Edited(row, does) = [row EXCEPT !.active = FALSE]
    BY <1>4 DEF Edited
  <2>2. [row EXCEPT !.active = FALSE] \in Person /\ [row EXCEPT !.active = FALSE].pin = row.pin
    BY DEF Person
  <2> QED
    BY <1>0, <2>1, <2>2
<1> QED
  BY <1>1, <1>2, <1>3, <1>4

LEMMA SavePersonInv ==
  ASSUME SessionInv, NEW c \in SessionCalls, SavePerson(c) PROVE SessionInv'
<1> DEFINE me == sessionCalls[c]
           i == [me EXCEPT !.at = "issue"]
           b == [Resting EXCEPT !.does = "user", !.at = "bump"]
<1>1. /\ me \in SessionRequest /\ RequestFresh(me) /\ me.at = "save" /\ me.person \in Person
      /\ person \in Person /\ staffVersion \in Nat /\ rolledBack \in BOOLEAN /\ signOuts \in Nat
      /\ person' = Edited(me.person, me.does)
      /\ rolledBack' = (rolledBack \/ me.person.pin # person.pin)
      /\ UNCHANGED <<staffVersion, suspended, refreshTokens, accessTokens, signOuts, sessionBegun>>
  BY DEF SavePerson, Reaches, SessionInv, SessionTypeOK, SessionRequest
<1>2. person' \in Person /\ person'.pin >= me.person.pin
  BY <1>1, EditedType
<1>3. rolledBack' \in BOOLEAN /\ (rolledBack => rolledBack')
  <2>1. rolledBack' = (rolledBack \/ me.person.pin # person.pin)
    BY <1>1
  <2> QED
    BY <2>1, Zenon
<1>4. ~rolledBack' => person.pin <= person'.pin /\ staffVersion <= staffVersion'
  <2>1. ~rolledBack' => me.person.pin = person.pin
    BY <1>1, Zenon
  <2>2. person.pin \in Nat /\ staffVersion' = staffVersion /\ staffVersion \in Nat
    BY <1>1 DEF Person
  <2> QED
    BY <1>2, <2>1, <2>2
<1>5. CASE me.does = "activate" /\ GoesTo(c, i)
  <2>1. /\ i \in SessionRequest /\ i.at = "issue" /\ i.does = "activate" /\ i.session = me.session
        /\ i.person = me.person /\ i.staff = me.staff
    BY <1>1, <1>5 DEF SessionRequest
  <2> HIDE DEF i
  <2>2. Revoking' => Revoking
    BY <1>5, <2>1 DEF Revoking, GoesTo, SessionInv, SessionTypeOK
  <2>3. \A x : x = i => RequestFresh(x)'
    BY <1>1, <1>2, <1>5, <2>1, <2>2 DEF RequestFresh, SignsIn, Midway, Person
  <2>4. PICK x \in SessionRequest : x = i
    BY <2>1
  <2> QED
    BY <1>1, <1>2, <1>3, <1>4, <1>5, <2>1, <2>3, <2>4, VersionsMove
<1>6. ASSUME NEW x \in {b, Resting}, GoesTo(c, x) PROVE SessionInv'
  <2>1. /\ Resting \in SessionRequest /\ Resting.at = "idle" /\ Resting.staff = 0
        /\ Resting.person.pin = 0 /\ Resting.session.since = 0
    BY RestingType DEF Resting, NewSession
  <2>2. /\ b \in SessionRequest /\ b.at = "bump" /\ b.staff = 0 /\ b.person.pin = 0
        /\ b.session.since = 0
    BY RestingType DEF Resting, NewSession, SessionRequest
  <2>3. /\ x \in SessionRequest /\ x.at \in {"idle", "bump"} /\ x.staff = 0 /\ x.person.pin = 0
        /\ x.session.since = 0
    BY <2>1, <2>2, <1>6
  <2>4. RequestFresh(x)'
    BY <1>1, <1>2, <2>3 DEF RequestFresh, SignsIn, Midway, Person
  <2> QED
    BY <1>1, <1>2, <1>3, <1>4, <1>6, <2>3, <2>4, VersionsMove
<1> QED
  BY <1>5, <1>6 DEF SavePerson

LEMMA SaveBranchInv ==
  ASSUME SessionInv, NEW c \in SessionCalls, SaveBranch(c) PROVE SessionInv'
<1> DEFINE me == sessionCalls[c]
<1>1. /\ me \in SessionRequest /\ me.staff \in Nat /\ person \in Person /\ staffVersion \in Nat
      /\ rolledBack \in BOOLEAN /\ signOuts \in Nat
      /\ staffVersion' = me.staff /\ rolledBack' = (rolledBack \/ me.staff # staffVersion)
      /\ GoesTo(c, Resting)
      /\ UNCHANGED <<person, suspended, refreshTokens, accessTokens, signOuts, sessionBegun>>
  BY DEF SaveBranch, Reaches, SessionInv, SessionTypeOK, SessionRequest
<1>2. Resting.at = "idle" /\ Resting \in SessionRequest
  BY RestingType, RestingFresh
<1>3. RequestFresh(Resting)'
  BY <1>1 DEF RequestFresh, Resting, Midway, NewSession, Person
<1>4. rolledBack' \in BOOLEAN /\ (rolledBack => rolledBack')
  BY <1>1, Zenon
<1>5. ~rolledBack' => person.pin <= person'.pin /\ staffVersion <= staffVersion'
  <2>1. ~rolledBack' => staffVersion' = staffVersion
    BY <1>1, Zenon
  <2>2. person.pin \in Nat /\ person' = person
    BY <1>1 DEF Person
  <2> QED
    BY <1>1, <2>1, <2>2
<1> QED
  BY <1>1, <1>2, <1>3, <1>4, <1>5, VersionsMove

---------------------------------------------------------------------------
(* The sign-outs. *)

(* What a step of a sign-out makes of the other requests: those that sign somebody in have crossed it. *)
LEMMA CrossingCalls ==
  ASSUME SessionInv, NEW c \in SessionCalls, NEW q \in SessionRequest, Crossing(c, q)
  PROVE  /\ sessionCalls' \in [SessionCalls -> SessionRequest] /\ sessionCalls'[c] = q
         /\ \A d \in SessionCalls \ {c} :
              /\ sessionCalls'[d].at = sessionCalls[d].at
              /\ sessionCalls'[d].does = sessionCalls[d].does
              /\ sessionCalls'[d].person = sessionCalls[d].person
              /\ sessionCalls'[d].staff = sessionCalls[d].staff
              /\ sessionCalls'[d].session.since = sessionCalls[d].session.since
              /\ sessionCalls'[d].at \in Midway => sessionCalls'[d].session.crossed
<1> DEFINE crosses(d) == sessionCalls[d].session.crossed \/ sessionCalls[d].at \in {"save", "user", "spend", "issue", "sign"}
           n(d) == [sessionCalls[d] EXCEPT !.session.crossed = crosses(d)]
<1>1. sessionCalls' = [d \in SessionCalls |-> IF d = c THEN q ELSE n(d)]
  BY DEF Crossing
<1>2. ASSUME NEW d \in SessionCalls
      PROVE  /\ n(d) \in SessionRequest
             /\ n(d).at = sessionCalls[d].at /\ n(d).does = sessionCalls[d].does
             /\ n(d).person = sessionCalls[d].person /\ n(d).staff = sessionCalls[d].staff
             /\ n(d).session.since = sessionCalls[d].session.since
             /\ n(d).session.crossed = crosses(d)
  <2>1. sessionCalls[d] \in SessionRequest
    BY DEF SessionInv, SessionTypeOK
  <2>2. crosses(d) \in BOOLEAN
    BY <2>1 DEF SessionRequest, Session
  <2> HIDE DEF crosses
  <2> QED
    BY <2>1, <2>2 DEF SessionRequest, Session
<1>3. \A d \in SessionCalls : n(d).at \in Midway => n(d).session.crossed
  BY <1>2 DEF Midway
<1> HIDE DEF n
<1> QED
  BY <1>1, <1>2, <1>3

(* A version is counted up: every token that crossed nothing is now behind. *)
LEMMA BumpVersionInv ==
  ASSUME SessionInv, NEW c \in SessionCalls, BumpVersion(c) PROVE SessionInv'
<1> DEFINE me == sessionCalls[c]
           q == [me EXCEPT !.at = "revoke"]
<1>1. /\ me \in SessionRequest /\ RequestFresh(me) /\ person \in Person /\ staffVersion \in Nat
      /\ rolledBack \in BOOLEAN /\ signOuts \in Nat /\ person.pin \in Nat
      /\ UNCHANGED <<suspended, refreshTokens, accessTokens, signOuts, rolledBack, sessionBegun>>
  BY DEF BumpVersion, Reaches, SessionInv, SessionTypeOK, Person
<1>2. /\ q \in SessionRequest /\ q.at = "revoke" /\ q.does = me.does /\ q.session = me.session
      /\ q.person = me.person /\ q.staff = me.staff
  BY <1>1 DEF SessionRequest
<1> HIDE DEF q
<1>3. Crossing(c, q)
  BY DEF BumpVersion, q
<1>4. /\ sessionCalls' \in [SessionCalls -> SessionRequest] /\ sessionCalls'[c] = q
      /\ \A d \in SessionCalls \ {c} :
           /\ sessionCalls'[d].at = sessionCalls[d].at
           /\ sessionCalls'[d].does = sessionCalls[d].does
           /\ sessionCalls'[d].person = sessionCalls[d].person
           /\ sessionCalls'[d].staff = sessionCalls[d].staff
           /\ sessionCalls'[d].session.since = sessionCalls[d].session.since
           /\ sessionCalls'[d].at \in Midway => sessionCalls'[d].session.crossed
  BY <1>2, <1>3, CrossingCalls
<1>5. /\ person' \in Person /\ staffVersion' \in Nat
      /\ person.pin <= person'.pin /\ staffVersion <= staffVersion'
      /\ person.pin < person'.pin \/ staffVersion < staffVersion'
      /\ person'.pin \in Nat
  <2>1. CASE person' = [person EXCEPT !.pin = @ + 1] /\ UNCHANGED staffVersion
    BY <1>1, <2>1 DEF Person
  <2>2. CASE staffVersion' = staffVersion + 1 /\ UNCHANGED person
    BY <1>1, <2>2 DEF Person
  <2> QED
    BY <2>1, <2>2 DEF BumpVersion
<1>6. SessionTypeOK'
  BY <1>1, <1>4, <1>5 DEF SessionInv, SessionTypeOK
<1>7. ASSUME NEW d \in SessionCalls PROVE RequestFresh(sessionCalls[d])'
  <2>1. RequestFresh(sessionCalls[d]) /\ sessionCalls[d].person.pin \in Nat /\ sessionCalls[d].staff \in Nat
    BY DEF SessionInv, SessionTypeOK, SessionRequest, Person
  <2>2. CASE d = c
    BY <1>1, <1>2, <1>4, <1>5, <2>1, <2>2 DEF RequestFresh, SignsIn, Midway
  <2>3. CASE d # c
    BY <1>1, <1>4, <1>5, <2>1, <2>3 DEF RequestFresh, SignsIn
  <2> QED
    BY <2>2, <2>3
<1>8. ASSUME NEW t \in accessTokens' PROVE TokenAged(t)'
  <2>1. TokenAged(t) /\ t.pin \in Nat /\ t.staff \in Nat
    BY <1>1 DEF SessionInv, SessionTypeOK
  <2> QED
    BY <1>1, <1>5, <2>1 DEF TokenAged, Outdated
<1>9. ASSUME NEW t \in RefreshTokens PROVE RefreshAged(t)'
  BY <1>1 DEF SessionInv, RefreshAged, Ended
<1> QED
  BY <1>6, <1>7, <1>8, <1>9 DEF SessionInv

(* The sign-out is complete: nobody signs in any more who has not crossed it. *)
LEMMA RevokeTokensInv ==
  ASSUME SessionInv, NEW c \in SessionCalls, RevokeTokens(c) PROVE SessionInv'
<1>1. /\ person \in Person /\ staffVersion \in Nat /\ signOuts \in Nat /\ signOuts' = signOuts + 1
      /\ UNCHANGED <<person, staffVersion, suspended, accessTokens, rolledBack, sessionBegun>>
      /\ Crossing(c, Resting) /\ Revoking
  BY DEF RevokeTokens, Reaches, SessionInv, SessionTypeOK, Revoking
<1>2. Resting \in SessionRequest /\ RequestFresh(Resting) /\ Resting.at = "idle"
  BY RestingType, RestingFresh
<1>3. /\ sessionCalls' \in [SessionCalls -> SessionRequest] /\ sessionCalls'[c] = Resting
      /\ \A d \in SessionCalls \ {c} :
           /\ sessionCalls'[d].at = sessionCalls[d].at
           /\ sessionCalls'[d].does = sessionCalls[d].does
           /\ sessionCalls'[d].person = sessionCalls[d].person
           /\ sessionCalls'[d].staff = sessionCalls[d].staff
           /\ sessionCalls'[d].session.since = sessionCalls[d].session.since
           /\ sessionCalls'[d].at \in Midway => sessionCalls'[d].session.crossed
  BY <1>1, <1>2, CrossingCalls
<1>4. /\ refreshTokens' \in [RefreshTokens -> [state: {"none", "live", "revoked"}, session: Session]]
      /\ \A t \in RefreshTokens : /\ refreshTokens'[t].session = refreshTokens[t].session
                                  /\ refreshTokens'[t].state # "live"
  BY DEF RevokeTokens, Revoked, SessionInv, SessionTypeOK
<1>5. SessionTypeOK'
  BY <1>1, <1>3, <1>4 DEF SessionInv, SessionTypeOK
<1>6. ASSUME NEW d \in SessionCalls PROVE RequestFresh(sessionCalls[d])'
  <2>1. CASE d = c
    BY <1>1, <1>2, <1>3, <2>1 DEF RequestFresh, SignsIn, Midway, Resting, NewSession
  <2>2. CASE d # c
    <3>1. RequestFresh(sessionCalls[d]) /\ sessionCalls[d].session.since \in Nat
      BY DEF SessionInv, SessionTypeOK, SessionRequest, Session
    <3> QED
      BY <1>1, <1>3, <2>2, <3>1 DEF RequestFresh, SignsIn
  <2> QED
    BY <2>1, <2>2
<1>7. ASSUME NEW t \in accessTokens' PROVE TokenAged(t)'
  <2>1. TokenAged(t)
    BY <1>1 DEF SessionInv
  <2> QED
    BY <1>1, <2>1 DEF TokenAged, Outdated
<1>8. ASSUME NEW t \in RefreshTokens PROVE RefreshAged(t)'
  <2>1. refreshTokens[t].session.since \in Nat /\ refreshTokens[t].session.since <= signOuts
    BY DEF SessionInv, SessionTypeOK, Session, RefreshAged
  <2> QED
    BY <1>1, <1>4, <2>1 DEF RefreshAged
<1> QED
  BY <1>5, <1>6, <1>7, <1>8 DEF SessionInv

(* The steps of nobody in particular. *)
LEMMA LogoutInv == ASSUME SessionInv, Logout PROVE SessionInv'
<1>1. PICK t \in RefreshTokens : refreshTokens' = [refreshTokens EXCEPT ![t].state = "revoked"]
  BY DEF Logout
<1>2. SessionTypeOK'
  BY <1>1 DEF Logout, SessionInv, SessionTypeOK
<1>3. \A u \in RefreshTokens : RefreshAged(u)'
  BY <1>1 DEF Logout, SessionInv, SessionTypeOK, RefreshAged, Ended
<1>4. (\A c \in SessionCalls : RequestFresh(sessionCalls[c]))' /\ (\A u \in accessTokens : TokenAged(u))'
  BY DEF Logout, SessionInv, RequestFresh, SignsIn, Revoking, TokenAged, Outdated
<1> QED
  BY <1>2, <1>3, <1>4 DEF SessionInv

LEMMA ShiftEndsInv == ASSUME SessionInv, ShiftEnds PROVE SessionInv'
<1>1. staffVersion \in Nat /\ staffVersion' = staffVersion + 1
  BY DEF ShiftEnds, SessionInv, SessionTypeOK
<1>2. SessionTypeOK'
  BY <1>1, SessionAssumption DEF ShiftEnds, SessionInv, SessionTypeOK
<1>3. ASSUME NEW d \in SessionCalls PROVE RequestFresh(sessionCalls[d])'
  <2>1. RequestFresh(sessionCalls[d]) /\ sessionCalls[d].staff \in Nat
    BY DEF SessionInv, SessionTypeOK, SessionRequest
  <2> QED
    BY <1>1, <2>1 DEF ShiftEnds, RequestFresh, SignsIn, Revoking
<1>4. ASSUME NEW t \in accessTokens' PROVE TokenAged(t)'
  <2>1. TokenAged(t) /\ t.staff \in Nat
    BY DEF ShiftEnds, SessionInv, SessionTypeOK
  <2> QED
    BY <1>1, <2>1 DEF ShiftEnds, TokenAged, Outdated, Revoking
<1>5. \A u \in RefreshTokens : RefreshAged(u)'
  BY DEF ShiftEnds, SessionInv, RefreshAged, Ended
<1> QED
  BY <1>2, <1>3, <1>4, <1>5 DEF SessionInv

LEMMA ReinstateInv == ASSUME SessionInv, Reinstate PROVE SessionInv'
  BY DEF Reinstate, SessionInv, SessionTypeOK, RequestFresh, SignsIn, Revoking, TokenAged, Outdated,
         RefreshAged, Ended

LEMMA SessionInitInv == SessionInit => SessionInv
<1> SUFFICES ASSUME SessionInit PROVE SessionInv
  OBVIOUS
<1>1. SessionTypeOK
  <2>1. person \in Person /\ sessionCalls \in [SessionCalls -> SessionRequest]
    BY RestingType DEF SessionInit, Person
  <2>2. refreshTokens \in [RefreshTokens -> [state: {"none", "live", "revoked"}, session: Session]]
    <3>1. NewSession \in Session
      BY DEF NewSession, Session
    <3> QED
      BY <3>1 DEF SessionInit
  <2>3. staffVersion = 0 /\ signOuts = 0 /\ sessionBegun = 0 /\ accessTokens = {}
    BY DEF SessionInit
  <2>4. suspended \in BOOLEAN /\ rolledBack \in BOOLEAN
    BY Zenon DEF SessionInit
  <2>5. staffVersion \in Nat /\ signOuts \in Nat /\ sessionBegun \in 0 .. MaxSessionCalls
    BY <2>3, SessionAssumption
  <2> QED
    BY <2>1, <2>2, <2>3, <2>4, <2>5 DEF SessionTypeOK
<1>2. \A c \in SessionCalls : RequestFresh(sessionCalls[c])
  BY DEF SessionInit, RequestFresh, Resting, Midway, NewSession
<1>3. (\A t \in accessTokens : TokenAged(t)) /\ (\A t \in RefreshTokens : RefreshAged(t))
  BY DEF SessionInit, RefreshAged, NewSession
<1> QED
  BY <1>1, <1>2, <1>3 DEF SessionInv

LEMMA SessionStepInv == ASSUME SessionInv, [SessionNext]_sessionVars PROVE SessionInv'
<1>1. CASE UNCHANGED sessionVars
  BY <1>1 DEF sessionVars, SessionInv, SessionTypeOK, RequestFresh, SignsIn, Revoking, TokenAged, Outdated,
              RefreshAged, Ended
<1>2. CASE SessionNext
  BY <1>2, BeginsInv, GenerateTokensInv, SignImpersonationInv, RefreshInv, RefreshReadsUserInv,
     RefreshSpendsTokenInv, EditsInv, SavePersonInv, SaveBranchInv, SuspendBusinessInv, BumpVersionInv,
     RevokeTokensInv, RequestCutInv, LogoutInv, ShiftEndsInv, ReinstateInv DEF SessionNext
<1> QED
  BY <1>1, <1>2

(* What holds of every state of the sessions: tokens are behind the rows as soon as a sign-out has *)
(* counted the version up, unless their request crossed it. *)
THEOREM SessionInvariant == SessionSpec => []SessionInv
  BY SessionInitInv, SessionStepInv, PTL DEF SessionSpec

(* Rows, tokens, requests and histories keep their types. *)
THEOREM SessionTypeCorrect == SessionSpec => []SessionTypeOK
<1>1. SessionInv => SessionTypeOK
  BY DEF SessionInv
<1> QED
  BY <1>1, SessionInvariant, PTL

(* No session goes on past a sign-out that is complete, by its access or its refresh token. *)
THEOREM SignedOutIsOutAlways == SessionSpec => []SignedOutIsOut
<1>1. ASSUME SessionInv PROVE SignedOutIsOut
  <2>1. ASSUME NEW t \in accessTokens, Ended(t.session), Admitted(t) PROVE rolledBack
    <3>1. TokenAged(t) /\ person.pin \in Nat /\ staffVersion \in Nat
      BY <1>1 DEF SessionInv, SessionTypeOK, Person
    <3> QED
      BY <2>1, <3>1 DEF TokenAged, Outdated, Ended, Admitted
  <2>2. \A t \in RefreshTokens : Ended(refreshTokens[t].session) => refreshTokens[t].state # "live"
    BY <1>1 DEF SessionInv, RefreshAged
  <2> QED
    BY <2>1, <2>2 DEF SignedOutIsOut
<1> QED
  BY <1>1, SessionInvariant, PTL

---------------------------------------------------------------------------
(* Rooms: the inductive invariant. *)

Socket == [server: SocketServers \cup {NoServer}, rooms: SUBSET (Topics \X (Branches \cup {NoBranch})), since: Nat]

(* A socket that is off has no rooms; one that is on has the rooms of its role, and rooms of no other     *)
(* branch than its token's; and it is as old as the last drop of its branch, or the drop did not reach it. *)
SocketSound(s) ==
  /\ ~On(s) => sockets[s] = Off /\ heard[s] = {}
  /\ \A room \in sockets[s].rooms : room[2] = tokens[s].branch
  /\ On(s) /\ tokens[s].branch # NoBranch =>
       /\ Joined(tokens[s]) \subseteq sockets[s].rooms
       /\ sockets[s].since < dropped[tokens[s].branch] => s \in skipped
  /\ \A h \in heard[s] : h.branch = tokens[s].branch /\ (h.late => s \in skipped)

(* A branch is dropped at most once for every sign-out, and not yet for the one under way. *)
DropsCounted(b) == dropped[b] + (IF b \in toDrop THEN 1 ELSE 0) <= roomCalls

RoomInv ==
  /\ adapter \in BOOLEAN
  /\ tokens \in [Sockets -> [branch: Branches \cup {NoBranch}, role: StaffRoles]]
  /\ sockets \in [Sockets -> Socket]
  /\ dropped \in [Branches -> Nat]
  /\ toDrop \subseteq Branches
  /\ guests \in [Guests -> [rooms: SUBSET (Tabs \cup Groups), codes: SUBSET ({ CodeOf[t] : t \in Tabs } \cup Groups)]]
  /\ roomCalls \in 0 .. MaxRoomCalls
  /\ heard \in [Sockets -> SUBSET [branch: Branches, late: BOOLEAN]]
  /\ skipped \subseteq Sockets
  /\ \A s \in Sockets : SocketSound(s)
  /\ \A s \in Sockets : sockets[s].since <= roomCalls
  /\ \A b \in Branches : DropsCounted(b)
  /\ GuestsInOwnRooms

LEMMA OffIsSocket == Off \in Socket /\ Off.rooms = {} /\ Off.server = NoServer /\ Off.since = 0
  BY DEF Off, Socket

LEMMA JoinedRooms ==
  ASSUME NEW claims \in [branch: Branches \cup {NoBranch}, role: StaffRoles]
  PROVE  /\ Joined(claims) \subseteq Topics \X (Branches \cup {NoBranch})
         /\ \A room \in Joined(claims) : room[2] = claims.branch
         /\ claims.branch # NoBranch => <<"branch", claims.branch>> \in Joined(claims)
         /\ claims.branch # NoBranch /\ Manages(claims.role) => <<"managers", claims.branch>> \in Joined(claims)
<1>1. TopicsOf(claims.role) \subseteq Topics /\ "branch" \in TopicsOf(claims.role)
  BY DEF TopicsOf, Topics
<1>2. Manages(claims.role) => "managers" \in TopicsOf(claims.role)
  BY DEF TopicsOf
<1> QED
  BY <1>1, <1>2 DEF Joined

(* Whatever happens in a branch is said to all of it or to its managers. *)
LEMMA AudienceIsNear ==
  ASSUME NEW event \in Events, NEW b
  PROVE  <<"managers", b>> \in Audience(event, b) \/ <<"branch", b>> \in Audience(event, b)
<1> USE DEF Audience
<1>1. CASE event \in Statuses
  BY <1>1
<1>2. CASE event \in {"tab", "reservation"}
  BY <1>2
<1>3. CASE event \in {"table", "orderCreated", "dashboard"}
  BY <1>3
<1>4. CASE event \in {"notification", "shift", "waiterCall", "deliveryAvailable", "delivery"}
  BY <1>4
<1> QED
  BY <1>1, <1>2, <1>3, <1>4 DEF Events

(* Every audience is of one branch. *)
LEMMA AudienceIsOfBranch ==
  ASSUME NEW event \in Events, NEW b, NEW room \in Audience(event, b)
  PROVE  room[2] = b
<1> USE DEF Audience
<1>1. CASE event \in Statuses
  BY <1>1
<1>2. CASE event \in {"tab", "reservation"}
  BY <1>2
<1>3. CASE event \in {"table", "orderCreated", "dashboard"}
  BY <1>3
<1>4. CASE event \in {"notification", "shift", "waiterCall", "deliveryAvailable", "delivery"}
  BY <1>4
<1> QED
  BY <1>1, <1>2, <1>3, <1>4 DEF Events

LEMMA RoomInitial == RoomInit => RoomInv
<1> SUFFICES ASSUME RoomInit PROVE RoomInv
  OBVIOUS
<1>1. \A s \in Sockets : sockets[s] = Off /\ heard[s] = {}
  BY DEF RoomInit
<1>2. sockets \in [Sockets -> Socket]
  BY OffIsSocket DEF RoomInit
<1>3. \A s \in Sockets : SocketSound(s)
  BY <1>1, OffIsSocket DEF SocketSound, On
<1>4. /\ heard \in [Sockets -> SUBSET [branch: Branches, late: BOOLEAN]] /\ skipped \subseteq Sockets
      /\ toDrop \subseteq Branches
  BY DEF RoomInit
<1>5. roomCalls \in 0 .. MaxRoomCalls /\ dropped \in [Branches -> Nat]
  BY RoomsAssumption DEF RoomInit
<1>6. \A s \in Sockets : sockets[s].since <= roomCalls
  BY <1>1, OffIsSocket DEF RoomInit
<1>7. \A b \in Branches : DropsCounted(b)
  BY DEF DropsCounted, RoomInit
<1>8. GuestsInOwnRooms
  BY DEF GuestsInOwnRooms, RoomInit
<1>9. guests \in [Guests -> [rooms: SUBSET (Tabs \cup Groups), codes: SUBSET ({ CodeOf[t] : t \in Tabs } \cup Groups)]]
  BY DEF RoomInit
<1>10. adapter \in BOOLEAN /\ tokens \in [Sockets -> [branch: Branches \cup {NoBranch}, role: StaffRoles]]
  BY DEF RoomInit
<1> QED
  BY <1>2, <1>3, <1>4, <1>5, <1>6, <1>7, <1>8, <1>9, <1>10 DEF RoomInv

---------------------------------------------------------------------------
(* Rooms: the steps. *)

LEMMA MoreRoomCalls ==
  ASSUME RoomInv, roomCalls' = roomCalls + 1, roomCalls < MaxRoomCalls
  PROVE  roomCalls' \in 0 .. MaxRoomCalls /\ roomCalls <= roomCalls'
  BY RoomsAssumption DEF RoomInv

(* Only the sockets, tokens and histories of some sockets change, and each stays sound. *)
LEMMA SocketsMove ==
  ASSUME RoomInv,
         tokens' \in [Sockets -> [branch: Branches \cup {NoBranch}, role: StaffRoles]],
         sockets' \in [Sockets -> Socket],
         heard' \in [Sockets -> SUBSET [branch: Branches, late: BOOLEAN]],
         skipped' \subseteq Sockets,
         UNCHANGED <<adapter, guests>>,
         dropped' \in [Branches -> Nat], toDrop' \subseteq Branches,
         roomCalls' \in 0 .. MaxRoomCalls, roomCalls <= roomCalls',
         \A b \in Branches : DropsCounted(b)',
         \A s \in Sockets : SocketSound(s)' /\ sockets'[s].since <= roomCalls'
  PROVE  RoomInv'
  BY DEF RoomInv, GuestsInOwnRooms

LEMMA SameDrops ==
  ASSUME RoomInv, UNCHANGED <<dropped, toDrop>>, roomCalls' \in 0 .. MaxRoomCalls, roomCalls <= roomCalls'
  PROVE  /\ \A b \in Branches : DropsCounted(b)'
         /\ dropped' \in [Branches -> Nat] /\ toDrop' \subseteq Branches
<1>1. ASSUME NEW b \in Branches PROVE DropsCounted(b)'
  BY RoomsAssumption DEF RoomInv, DropsCounted
<1> QED
  BY <1>1 DEF RoomInv

(* A socket that nothing has happened to stays sound. *)
LEMMA SameSocket ==
  ASSUME RoomInv, NEW s \in Sockets, SocketSound(s),
         sockets'[s] = sockets[s], tokens'[s] = tokens[s], heard'[s] = heard[s],
         s \in skipped => s \in skipped', UNCHANGED dropped
  PROVE  SocketSound(s)'
  BY DEF SocketSound, On, Joined, TopicsOf, Manages

LEMMA SocketOff ==
  ASSUME NEW s \in Sockets, sockets'[s] = Off, heard'[s] = {}
  PROVE  SocketSound(s)'
  BY OffIsSocket DEF SocketSound, On

LEMMA TakeTokenRooms == ASSUME RoomInv, NEW s \in Sockets, TakeToken(s) PROVE RoomInv'
<1>1. PICK b \in Branches \cup {NoBranch}, r \in StaffRoles :
        /\ ~On(s) /\ Counts
        /\ tokens' = [tokens EXCEPT ![s] = [branch |-> b, role |-> r]]
        /\ UNCHANGED <<adapter, sockets, dropped, toDrop, guests, heard, skipped>>
  BY DEF TakeToken
<1>2. roomCalls' \in 0 .. MaxRoomCalls /\ roomCalls <= roomCalls' /\ roomCalls \in Nat
  BY <1>1, MoreRoomCalls DEF Counts, RoomInv
<1>3. /\ tokens' \in [Sockets -> [branch: Branches \cup {NoBranch}, role: StaffRoles]]
      /\ \A d \in Sockets : d # s => tokens'[d] = tokens[d]
  BY <1>1 DEF RoomInv
<1>4. sockets[s] = Off /\ heard[s] = {}
  BY <1>1 DEF RoomInv, SocketSound
<1>5. ASSUME NEW d \in Sockets PROVE SocketSound(d)'
  BY <1>1, <1>3, <1>4, SocketOff, SameSocket DEF RoomInv
<1>6. \A d \in Sockets : sockets'[d].since <= roomCalls'
  BY <1>1, <1>2, RoomsAssumption DEF RoomInv, Socket
<1> QED
  BY <1>1, <1>2, <1>3, <1>5, <1>6, SameDrops, SocketsMove DEF RoomInv

LEMMA ConnectRooms == ASSUME RoomInv, NEW s \in Sockets, Connect(s) PROVE RoomInv'
<1> DEFINE b == tokens[s].branch
           since == IF b = NoBranch THEN 0 ELSE dropped[b]
<1>1. PICK v \in SocketServers :
        /\ ~On(s) /\ Counts
        /\ sockets' = [sockets EXCEPT ![s] = [server |-> v, rooms |-> Joined(tokens[s]), since |-> since]]
        /\ UNCHANGED <<adapter, tokens, dropped, toDrop, guests, heard, skipped>>
  BY DEF Connect
<1>2. roomCalls' \in 0 .. MaxRoomCalls /\ roomCalls <= roomCalls' /\ roomCalls \in Nat
  BY <1>1, MoreRoomCalls DEF Counts, RoomInv
<1>3. tokens[s] \in [branch: Branches \cup {NoBranch}, role: StaffRoles]
  BY DEF RoomInv
<1>4. since \in Nat /\ since <= roomCalls
  <2>1. CASE b = NoBranch
    BY <2>1, <1>2
  <2>2. CASE b # NoBranch
    BY <2>2, <1>2, <1>3 DEF RoomInv, DropsCounted
  <2> QED
    BY <2>1, <2>2
<1>5. /\ sockets' \in [Sockets -> Socket]
      /\ sockets'[s] = [server |-> v, rooms |-> Joined(tokens[s]), since |-> since]
      /\ \A d \in Sockets : d # s => sockets'[d] = sockets[d]
  <2> HIDE DEF since
  <2> QED
    BY <1>1, <1>3, <1>4, JoinedRooms DEF RoomInv, Socket
<1>6. heard[s] = {} /\ NoServer # v
  BY <1>1, RoomsAssumption DEF RoomInv, SocketSound
<1>7. SocketSound(s)'
  <2>1. \A room \in Joined(tokens[s]) : room[2] = tokens[s].branch
    BY <1>3, JoinedRooms
  <2>2. tokens' = tokens /\ dropped' = dropped
    BY <1>1
  <2>3. b # NoBranch => ~(sockets'[s].since < dropped[b])
    BY <1>5, <1>4
  <2> QED
    BY <1>1, <1>5, <1>6, <2>1, <2>2, <2>3 DEF SocketSound, On, Joined, TopicsOf, Manages
<1>8. ASSUME NEW d \in Sockets PROVE SocketSound(d)'
  BY <1>1, <1>5, <1>7, SameSocket DEF RoomInv
<1>9. \A d \in Sockets : sockets'[d].since <= roomCalls'
  <2> HIDE DEF since
  <2>1. \A d \in Sockets : sockets[d].since \in Nat /\ sockets[d].since <= roomCalls
    BY DEF RoomInv, Socket
  <2> QED
    BY <1>5, <1>4, <1>2, <2>1
<1> QED
  BY <1>1, <1>2, <1>5, <1>8, <1>9, SameDrops, SocketsMove DEF RoomInv

LEMMA LeaveRooms == ASSUME RoomInv, NEW s \in Sockets, Leave(s) PROVE RoomInv'
<1>1. /\ sockets' = [sockets EXCEPT ![s] = Off]
      /\ heard' = [heard EXCEPT ![s] = {}]
      /\ skipped' = skipped \ {s}
      /\ UNCHANGED <<adapter, tokens, dropped, toDrop, guests, roomCalls>>
  BY DEF Leave
<1>2. sockets' \in [Sockets -> Socket] /\ heard' \in [Sockets -> SUBSET [branch: Branches, late: BOOLEAN]]
  BY <1>1, OffIsSocket DEF RoomInv
<1>3. ASSUME NEW d \in Sockets PROVE SocketSound(d)'
  <2>1. CASE d = s
    BY <1>1, <2>1, SocketOff DEF RoomInv
  <2>2. CASE d # s
    BY <1>1, <2>2, SameSocket DEF RoomInv
  <2> QED
    BY <2>1, <2>2
<1>4. roomCalls' \in 0 .. MaxRoomCalls /\ roomCalls <= roomCalls' /\ roomCalls \in Nat
  BY <1>1, RoomsAssumption DEF RoomInv
<1>5. \A d \in Sockets : sockets'[d].since <= roomCalls'
  BY <1>1, <1>4, OffIsSocket DEF RoomInv
<1> QED
  BY <1>1, <1>2, <1>3, <1>4, <1>5, SameDrops, SocketsMove DEF RoomInv

LEMMA SubscribeRooms == ASSUME RoomInv, NEW s \in Sockets, Subscribe(s) PROVE RoomInv'
<1>1. PICK topic \in {"tables", "dashboard", "orders"} \cup Statuses, b \in Branches \cup {NoBranch} :
        /\ On(s) /\ MaySubscribe(s, topic, b) /\ Counts
        /\ sockets' = [sockets EXCEPT ![s].rooms =
             @ \cup ({topic} \cup (IF topic \in Statuses THEN {"orders"} ELSE {})) \X {b}]
        /\ UNCHANGED <<adapter, tokens, dropped, toDrop, guests, heard, skipped>>
  BY DEF Subscribe
<1>2. PICK more \in SUBSET (Topics \X (Branches \cup {NoBranch})) :
        /\ sockets' = [sockets EXCEPT ![s].rooms = @ \cup more]
        /\ \A room \in more : room[2] = tokens[s].branch
  <2> DEFINE more == ({topic} \cup (IF topic \in Statuses THEN {"orders"} ELSE {})) \X {b}
  <2>1. more \in SUBSET (Topics \X (Branches \cup {NoBranch})) /\ \A room \in more : room[2] = tokens[s].branch
    BY <1>1 DEF MaySubscribe, Topics
  <2>2. sockets' = [sockets EXCEPT ![s].rooms = @ \cup more]
    BY <1>1
  <2> QED
    BY <2>1, <2>2
<1>3. sockets[s] \in Socket
  BY DEF RoomInv
<1>4. /\ sockets' \in [Sockets -> Socket] /\ sockets'[s].rooms = sockets[s].rooms \cup more
      /\ sockets'[s].server = sockets[s].server /\ sockets'[s].since = sockets[s].since
      /\ \A d \in Sockets : d # s => sockets'[d] = sockets[d]
  BY <1>2, <1>3 DEF RoomInv, Socket
<1>5. ASSUME NEW d \in Sockets PROVE SocketSound(d)'
  <2>1. CASE d = s
    <3>1. SocketSound(s) /\ tokens' = tokens /\ dropped' = dropped /\ heard' = heard /\ skipped' = skipped
      BY <1>1 DEF RoomInv
    <3> QED
      BY <1>1, <1>2, <1>4, <2>1, <3>1 DEF SocketSound, On, Joined, TopicsOf, Manages
  <2>2. CASE d # s
    BY <1>1, <1>4, <2>2, SameSocket DEF RoomInv
  <2> QED
    BY <2>1, <2>2
<1>6. roomCalls' \in 0 .. MaxRoomCalls /\ roomCalls <= roomCalls' /\ roomCalls \in Nat
  BY <1>1, MoreRoomCalls DEF Counts, RoomInv
<1>7. \A d \in Sockets : sockets'[d].since <= roomCalls'
  <2>1. \A d \in Sockets : sockets[d].since \in Nat /\ sockets[d].since <= roomCalls
    BY DEF RoomInv, Socket
  <2>2. \A d \in Sockets : sockets'[d].since = sockets[d].since
    BY <1>4
  <2> QED
    BY <1>6, <2>1, <2>2
<1> QED
  BY <1>1, <1>4, <1>5, <1>6, <1>7, SameDrops, SocketsMove DEF RoomInv

LEMMA SubscribeTabRooms == ASSUME RoomInv, NEW g \in Guests, SubscribeTab(g) PROVE RoomInv'
<1>1. PICK k \in Tabs \cup Groups, code \in { CodeOf[t] : t \in Tabs } \cup Groups :
        /\ IF k \in Tabs THEN CodeOf[k] = code ELSE k = code
        /\ Counts
        /\ guests' = [guests EXCEPT ![g].rooms = @ \cup {k}, ![g].codes = @ \cup {code}]
        /\ UNCHANGED <<adapter, tokens, sockets, dropped, toDrop, heard, skipped>>
  BY DEF SubscribeTab
<1>2. roomCalls' \in 0 .. MaxRoomCalls /\ roomCalls <= roomCalls' /\ roomCalls \in Nat
  BY <1>1, MoreRoomCalls DEF Counts, RoomInv
<1>3. guests[g] \in [rooms: SUBSET (Tabs \cup Groups), codes: SUBSET ({ CodeOf[t] : t \in Tabs } \cup Groups)]
  BY DEF RoomInv
<1>4. /\ guests'[g] = [guests[g] EXCEPT !.rooms = @ \cup {k}, !.codes = @ \cup {code}]
      /\ \A f \in Guests : f # g => guests'[f] = guests[f]
      /\ guests' \in [Guests -> [rooms: SUBSET (Tabs \cup Groups), codes: SUBSET ({ CodeOf[t] : t \in Tabs } \cup Groups)]]
  BY <1>1, <1>3 DEF RoomInv
<1>5. GuestsInOwnRooms'
  <2>1. guests'[g].rooms = guests[g].rooms \cup {k} /\ guests'[g].codes = guests[g].codes \cup {code}
    BY <1>3, <1>4
  <2> QED
    BY <1>1, <1>4, <2>1 DEF RoomInv, GuestsInOwnRooms
<1>6. ASSUME NEW d \in Sockets PROVE SocketSound(d)'
  BY <1>1, SameSocket DEF RoomInv
<1>7. \A d \in Sockets : sockets'[d].since <= roomCalls'
  BY <1>1, <1>2 DEF RoomInv, Socket
<1>8. \A b \in Branches : DropsCounted(b)'
  BY <1>1, <1>2, SameDrops
<1> QED
  BY <1>1, <1>2, <1>4, <1>5, <1>6, <1>7, <1>8 DEF RoomInv

(* A socket hears only what is said in its rooms, and those are of its branch. *)
LEMMA EmitRooms == ASSUME RoomInv, Emit PROVE RoomInv'
<1>1. PICK v \in SocketServers, event \in Events, b \in Branches :
        /\ heard' = [s \in Sockets |->
             IF Hears(s, event, b) /\ (adapter \/ sockets[s].server = v)
             THEN heard[s] \cup {[branch |-> b, late |-> sockets[s].since < dropped[b]]}
             ELSE heard[s]]
        /\ UNCHANGED <<adapter, tokens, sockets, dropped, toDrop, guests, roomCalls, skipped>>
  BY DEF Emit
<1>2. ASSUME NEW s \in Sockets
      PROVE  SocketSound(s)' /\ heard'[s] \in SUBSET [branch: Branches, late: BOOLEAN]
  <2>1. CASE heard'[s] = heard[s]
    BY <1>1, <2>1, SameSocket DEF RoomInv
  <2>2. CASE heard'[s] # heard[s]
    <3>1. /\ heard'[s] = heard[s] \cup {[branch |-> b, late |-> sockets[s].since < dropped[b]]}
          /\ Hears(s, event, b)
      BY <1>1, <2>2
    <3>2. On(s) /\ tokens[s].branch = b
      BY <3>1, AudienceIsOfBranch DEF Hears, RoomInv, SocketSound
    <3>3. b # NoBranch
      BY RoomsAssumption
    <3>4. PICK late \in BOOLEAN : (late <=> sockets[s].since < dropped[b]) /\
            heard'[s] = heard[s] \cup {[branch |-> b, late |-> late]}
      <4> DEFINE late == sockets[s].since < dropped[b]
      <4>1. late \in BOOLEAN
        OBVIOUS
      <4>2. heard'[s] = heard[s] \cup {[branch |-> b, late |-> late]}
        BY <3>1
      <4>3. late <=> sockets[s].since < dropped[b]
        OBVIOUS
      <4> HIDE DEF late
      <4> QED
        BY <4>1, <4>2, <4>3
    <3>5. \A h \in heard'[s] : h.branch = tokens[s].branch /\ (h.late => s \in skipped)
      <4>1. SocketSound(s)
        BY DEF RoomInv
      <4>2. late => s \in skipped
        BY <3>2, <3>3, <3>4, <4>1 DEF SocketSound
      <4>3. \A h \in heard[s] : h.branch = tokens[s].branch /\ (h.late => s \in skipped)
        BY <4>1 DEF SocketSound
      <4> QED
        BY <3>2, <3>4, <4>2, <4>3
    <3>6. SocketSound(s)'
      <4>1. SocketSound(s) /\ sockets' = sockets /\ tokens' = tokens /\ dropped' = dropped /\ skipped' = skipped
        BY <1>1 DEF RoomInv
      <4> QED
        BY <3>2, <3>5, <4>1 DEF SocketSound, On, Joined, TopicsOf, Manages
    <3> QED
      BY <3>1, <3>4, <3>6 DEF RoomInv
  <2> QED
    BY <2>1, <2>2
<1>3. heard' \in [Sockets -> SUBSET [branch: Branches, late: BOOLEAN]]
  <2>1. heard' = [s \in Sockets |-> heard'[s]]
    BY <1>1
  <2> QED
    BY <1>2, <2>1
<1>4. roomCalls' \in 0 .. MaxRoomCalls /\ roomCalls <= roomCalls' /\ roomCalls \in Nat
  BY <1>1, RoomsAssumption DEF RoomInv
<1>5. \A s \in Sockets : sockets'[s].since <= roomCalls'
  BY <1>1, <1>4 DEF RoomInv
<1> QED
  BY <1>1, <1>2, <1>3, <1>4, <1>5, SameDrops, SocketsMove DEF RoomInv

LEMMA SignOutRooms == ASSUME RoomInv, SignOut PROVE RoomInv'
<1>1. /\ toDrop = {} /\ toDrop' = Branches
      /\ UNCHANGED <<adapter, tokens, sockets, dropped, guests, heard, skipped>>
  BY DEF SignOut
<1>2. /\ roomCalls' \in 0 .. MaxRoomCalls /\ roomCalls <= roomCalls' /\ roomCalls \in Nat
      /\ roomCalls' = roomCalls + 1
  BY MoreRoomCalls DEF SignOut, Counts, RoomInv
<1>3. ASSUME NEW b \in Branches PROVE DropsCounted(b)'
  BY <1>1, <1>2 DEF RoomInv, DropsCounted
<1>4. ASSUME NEW s \in Sockets PROVE SocketSound(s)' /\ sockets'[s].since <= roomCalls'
  BY <1>1, <1>2, SameSocket DEF RoomInv, Socket
<1> QED
  BY <1>1, <1>2, <1>3, <1>4, SocketsMove DEF RoomInv

LEMMA CutSignOutRooms == ASSUME RoomInv, CutSignOut PROVE RoomInv'
<1>1. toDrop' = {} /\ UNCHANGED <<adapter, tokens, sockets, dropped, guests, roomCalls, heard, skipped>>
  BY DEF CutSignOut
<1>2. roomCalls' \in 0 .. MaxRoomCalls /\ roomCalls <= roomCalls' /\ roomCalls \in Nat
  BY <1>1, RoomsAssumption DEF RoomInv
<1>3. ASSUME NEW b \in Branches PROVE DropsCounted(b)'
  BY <1>1, <1>2 DEF RoomInv, DropsCounted
<1>4. ASSUME NEW s \in Sockets PROVE SocketSound(s)' /\ sockets'[s].since <= roomCalls'
  BY <1>1, <1>2, SameSocket DEF RoomInv, Socket
<1> QED
  BY <1>1, <1>2, <1>3, <1>4, SocketsMove DEF RoomInv

(* Sockets of the branch that the call does not reach are skipped, the others are gone. *)
LEMMA DisconnectRooms == ASSUME RoomInv, DisconnectBranch PROVE RoomInv'
<1>1. PICK v \in SocketServers, b \in toDrop :
        /\ toDrop' = toDrop \ {b}
        /\ dropped' = [dropped EXCEPT ![b] = @ + 1]
        /\ sockets' = [s \in Sockets |-> IF s \in Reached(v, b) THEN Off ELSE sockets[s]]
        /\ heard' = [s \in Sockets |-> IF s \in Reached(v, b) THEN {} ELSE heard[s]]
        /\ skipped' = (skipped \ Reached(v, b)) \cup
             { s \in Sockets : On(s) /\ ~adapter /\ sockets[s].server # v /\ tokens[s].branch = b }
        /\ UNCHANGED <<adapter, tokens, guests, roomCalls>>
  BY DEF DisconnectBranch
<1>2. b \in Branches /\ b # NoBranch
  BY RoomsAssumption DEF RoomInv
<1>3. /\ sockets' \in [Sockets -> Socket] /\ skipped' \subseteq Sockets
      /\ heard' \in [Sockets -> SUBSET [branch: Branches, late: BOOLEAN]]
  BY <1>1, OffIsSocket DEF RoomInv
<1>4. /\ dropped' \in [Branches -> Nat] /\ dropped'[b] = dropped[b] + 1
      /\ \A a \in Branches : a # b => dropped'[a] = dropped[a]
  BY <1>1, <1>2 DEF RoomInv
<1>5. ASSUME NEW s \in Sockets PROVE SocketSound(s)'
  <2>1. CASE s \in Reached(v, b)
    BY <1>1, <2>1, SocketOff
  <2>2. CASE s \notin Reached(v, b) /\ On(s) /\ tokens[s].branch = b
    <3>1. <<"branch", b>> \in sockets[s].rooms
      <4>1. tokens[s] \in [branch: Branches \cup {NoBranch}, role: StaffRoles]
        BY DEF RoomInv
      <4> QED
        BY <1>2, <2>2, <4>1, JoinedRooms DEF RoomInv, SocketSound
    <3>2. s \in skipped'
      BY <1>1, <2>2, <3>1 DEF Reached, RoomInv
    <3>3. SocketSound(s) /\ sockets'[s] = sockets[s] /\ heard'[s] = heard[s] /\ tokens' = tokens
      BY <1>1, <2>2 DEF RoomInv
    <3> QED
      BY <2>2, <3>2, <3>3 DEF SocketSound, On, Joined, TopicsOf, Manages
  <2>3. CASE s \notin Reached(v, b) /\ (~On(s) \/ tokens[s].branch # b)
    <3>1. SocketSound(s) /\ sockets'[s] = sockets[s] /\ heard'[s] = heard[s] /\ tokens' = tokens
      BY <1>1, <2>3 DEF RoomInv
    <3>2. s \in skipped => s \in skipped'
      BY <1>1, <2>3
    <3>3. On(s) /\ tokens[s].branch # NoBranch => dropped'[tokens[s].branch] = dropped[tokens[s].branch]
      BY <1>4, <2>3 DEF RoomInv
    <3> QED
      BY <3>1, <3>2, <3>3 DEF SocketSound, On, Joined, TopicsOf, Manages
  <2> QED
    BY <2>1, <2>2, <2>3
<1>6. roomCalls' \in 0 .. MaxRoomCalls /\ roomCalls <= roomCalls' /\ roomCalls \in Nat
  BY <1>1, RoomsAssumption DEF RoomInv
<1>7. ASSUME NEW a \in Branches PROVE DropsCounted(a)'
  <2>1. DropsCounted(a) /\ dropped[a] \in Nat
    BY DEF RoomInv
  <2>2. CASE a = b
    BY <1>1, <1>4, <1>6, <2>1, <2>2 DEF DropsCounted
  <2>3. CASE a # b
    BY <1>1, <1>4, <1>6, <2>1, <2>3 DEF DropsCounted
  <2> QED
    BY <2>2, <2>3
<1>8. \A s \in Sockets : sockets'[s].since <= roomCalls'
  BY <1>1, <1>6, OffIsSocket DEF RoomInv
<1>9. toDrop' \subseteq Branches /\ tokens' \in [Sockets -> [branch: Branches \cup {NoBranch}, role: StaffRoles]]
  BY <1>1 DEF RoomInv
<1> QED
  BY <1>1, <1>3, <1>4, <1>5, <1>6, <1>7, <1>8, <1>9, SocketsMove

LEMMA RestartRooms == ASSUME RoomInv, RestartServer PROVE RoomInv'
<1>1. PICK v \in SocketServers :
        LET gone == { s \in Sockets : sockets[s].server = v }
        IN /\ sockets' = [s \in Sockets |-> IF s \in gone THEN Off ELSE sockets[s]]
           /\ heard' = [s \in Sockets |-> IF s \in gone THEN {} ELSE heard[s]]
           /\ skipped' = skipped \ gone
           /\ UNCHANGED <<adapter, tokens, dropped, toDrop, guests, roomCalls>>
  BY DEF RestartServer
<1>2. /\ sockets' \in [Sockets -> Socket] /\ skipped' \subseteq Sockets
      /\ heard' \in [Sockets -> SUBSET [branch: Branches, late: BOOLEAN]]
  BY <1>1, OffIsSocket DEF RoomInv
<1>3. ASSUME NEW s \in Sockets PROVE SocketSound(s)'
  <2>1. CASE sockets[s].server = v
    BY <1>1, <2>1, SocketOff
  <2>2. CASE sockets[s].server # v
    BY <1>1, <2>2, SameSocket DEF RoomInv
  <2> QED
    BY <2>1, <2>2
<1>4. roomCalls' \in 0 .. MaxRoomCalls /\ roomCalls <= roomCalls' /\ roomCalls \in Nat
  BY <1>1, RoomsAssumption DEF RoomInv
<1>5. \A s \in Sockets : sockets'[s].since <= roomCalls'
  BY <1>1, <1>4, OffIsSocket DEF RoomInv
<1> QED
  BY <1>1, <1>2, <1>3, <1>4, <1>5, SameDrops, SocketsMove DEF RoomInv

---------------------------------------------------------------------------
(* Rooms: the theorems. *)

LEMMA RoomStep == ASSUME RoomInv, [RoomNext]_roomVars PROVE RoomInv'
<1>1. CASE UNCHANGED roomVars
  <2>1. roomCalls' \in 0 .. MaxRoomCalls /\ roomCalls <= roomCalls'
    BY <1>1, RoomsAssumption DEF RoomInv, roomVars
  <2>2. ASSUME NEW s \in Sockets PROVE SocketSound(s)' /\ sockets'[s].since <= roomCalls'
    BY <1>1, SameSocket DEF RoomInv, roomVars
  <2> QED
    BY <1>1, <2>1, <2>2, SameDrops, SocketsMove DEF RoomInv, roomVars
<1>2. CASE \E s \in Sockets : TakeToken(s) \/ Connect(s) \/ Leave(s) \/ Subscribe(s)
  BY <1>2, TakeTokenRooms, ConnectRooms, LeaveRooms, SubscribeRooms
<1>3. CASE \E g \in Guests : SubscribeTab(g)
  BY <1>3, SubscribeTabRooms
<1>4. CASE Emit \/ SignOut \/ DisconnectBranch \/ CutSignOut \/ RestartServer
  BY <1>4, EmitRooms, SignOutRooms, DisconnectRooms, CutSignOutRooms, RestartRooms
<1> QED
  BY <1>1, <1>2, <1>3, <1>4 DEF RoomNext

(* The invariant of the sockets holds in every reachable state, of gateway.gateway.ts and those that use it. *)
THEOREM RoomInvariant == RoomSpec => []RoomInv
  BY RoomInitial, RoomStep, PTL DEF RoomSpec

LEMMA RoomImplies == RoomInv => RoomTypeOK /\ RoomsAreRight
<1> SUFFICES ASSUME RoomInv PROVE RoomTypeOK /\ RoomsAreRight
  OBVIOUS
<1>1. RoomTypeOK
  <2>1. roomCalls \in Nat /\ roomCalls <= MaxRoomCalls /\ MaxRoomCalls \in Nat
    BY RoomsAssumption DEF RoomInv
  <2>2. ASSUME NEW s \in Sockets
        PROVE  /\ sockets[s].server \in SocketServers \cup {NoServer} /\ sockets[s].rooms \subseteq Topics \X (Branches \cup {NoBranch})
               /\ sockets[s].since \in 0 .. MaxRoomCalls
    <3>1. sockets[s] \in Socket /\ sockets[s].since <= roomCalls
      BY DEF RoomInv
    <3> QED
      BY <2>1, <3>1 DEF Socket
  <2>3. ASSUME NEW b \in Branches PROVE dropped[b] \in 0 .. MaxRoomCalls
    BY <2>1 DEF RoomInv, DropsCounted
  <2>4. dropped \in [Branches -> 0 .. MaxRoomCalls]
    BY <2>3 DEF RoomInv
  <2> QED
    BY <2>2, <2>4 DEF RoomInv, RoomTypeOK
<1>2. HeardIsOwn
  BY DEF RoomInv, SocketSound, HeardIsOwn
<1>3. ManagersHear
  <2> SUFFICES ASSUME NEW s \in Sockets, On(s), Manages(tokens[s].role), tokens[s].branch # NoBranch,
                      NEW event \in Events
               PROVE  Hears(s, event, tokens[s].branch)
    BY DEF ManagersHear
  <2>1. tokens[s] \in [branch: Branches \cup {NoBranch}, role: StaffRoles] /\ SocketSound(s)
    BY DEF RoomInv
  <2>2. <<"branch", tokens[s].branch>> \in sockets[s].rooms /\ <<"managers", tokens[s].branch>> \in sockets[s].rooms
    BY <2>1, JoinedRooms DEF SocketSound
  <2> QED
    BY <2>2, AudienceIsNear DEF Hears
<1> QED
  BY <1>1, <1>2, <1>3 DEF RoomInv, RoomsAreRight

(* The registry, the tokens and the rooms of gateway.gateway.ts keep their types. *)
THEOREM RoomTypeCorrect == RoomSpec => []RoomTypeOK
  BY RoomInvariant, RoomImplies, PTL

(* Sockets hear of their own branch and of nothing after a sign-out that reached them, managers hear all of  *)
(* it, and guests are in the rooms they gave the codes of (handleConnection, the subscriptions, realtime).   *)
THEOREM RoomsAreRightAlways == RoomSpec => []RoomsAreRight
  BY RoomInvariant, RoomImplies, PTL

---------------------------------------------------------------------------
(* Accounts: the inductive invariant. *)

AccountCall ==
  [at: {"idle", "owner", "trial", "adminOffice", "newOffice", "adminTrial", "admin", "adminOwns", "saveUser", "saveToken"},
   house: House \cup {NoHouse}, office: Offices \cup {NoOffice}, email: Emails \cup {NoEmail},
   token: AccountTokens \cup {NoAccountToken}]

(* Nobody else has the branch a request is about to insert. *)
OfficeReserved(c) ==
  LET me == accountCalls[c]
  IN /\ me.office \in Offices /\ offices[me.office] = NoHouse
     /\ \A d \in AccountCalls : d # c => accountCalls[d].office # me.office

Administers(q) == q.house = Platform /\ q.email \in Emails

AccountCallSound(c) ==
  LET me == accountCalls[c]
  IN /\ me.at \in {"saveUser", "saveToken"} <=> me.token \in AccountTokens
     /\ me.at \in {"adminOffice", "newOffice", "adminTrial", "admin", "adminOwns"} <=> Administers(me)
     /\ Administers(me) => houses[Platform].exists
     /\ me.at = "owner" =>
          /\ me.house \in Houses /\ me.email \in Emails /\ ~houses[me.house].exists /\ OfficeReserved(c)
          /\ \A d \in AccountCalls : d # c /\ At(d, "owner") => accountCalls[d].house # me.house
     /\ me.at = "trial" => me.office \in Offices
     /\ me.at = "newOffice" => OfficeReserved(c)
     /\ me.at \in {"adminTrial", "admin", "adminOwns"} => me.office \in Offices /\ offices[me.office] = Platform
     /\ me.at = "adminOwns" => Has(me.email)

AccountPlaced(e) ==
  Has(e) =>
    LET h == offices[accounts[e].office]
    IN /\ accounts[e].office \in Offices /\ h \in House /\ houses[h].exists
       /\ accounts[e].role = "owner" => h \in Houses /\ houses[h].owner = e

(* Unless set-ups overlap there is one at most, and none beside a super admin until it has made him. *)
SetUpsSound ==
  \/ Platform \in overlapped
  \/ /\ \A e, f \in SuperAdmins : e = f
     /\ \A c, d \in AccountCalls : Administers(accountCalls[c]) /\ Administers(accountCalls[d]) => c = d
     /\ \A c \in AccountCalls : accountCalls[c].at \in {"adminOffice", "newOffice", "adminTrial", "admin"}
          => SuperAdmins = {}

Holds(c, t) == accountCalls[c].token = t

(* Unless requests overlap one at most has a token, and it has not taken effect before. *)
TokenSound(t) ==
  /\ accountTokens[t].state = "unsent" => spent[t] = 0 /\ \A c \in AccountCalls : ~Holds(c, t)
  /\ \/ t \in overlapped
     \/ /\ \A c, d \in AccountCalls : Holds(c, t) /\ Holds(d, t) => c = d
        /\ spent[t] <= 1
        /\ \A c \in AccountCalls : Holds(c, t) /\ At(c, "saveUser") => spent[t] = 0
        /\ spent[t] = 1 /\ accountTokens[t].state = "sent"
             => \E c \in AccountCalls : Holds(c, t) /\ At(c, "saveToken")

AccountInv ==
  /\ houses \in [House -> HouseRow]
  /\ offices \in [Offices -> House \cup {NoHouse}]
  /\ subscribed \subseteq Offices
  /\ accounts \in [Emails -> AccountRow]
  /\ accountTokens \in [AccountTokens -> TokenRow]
  /\ accountCalls \in [AccountCalls -> AccountCall]
  /\ accountsBegun \in 0 .. MaxAccountCalls
  /\ unfinished \subseteq Offices \cup House
  /\ spent \in [AccountTokens -> Nat]
  /\ \A c \in AccountCalls : AccountCallSound(c)
  /\ \A e \in Emails : AccountPlaced(e)
  /\ OfficesAreSubscribed
  /\ HousesHaveOwners
  /\ SetUpsSound
  /\ \A t \in AccountTokens : TokenSound(t)

LEMMA IdleAccount ==
  /\ IdleAccountCall \in AccountCall /\ IdleAccountCall.at = "idle" /\ IdleAccountCall.token = NoAccountToken
  /\ IdleAccountCall.house = NoHouse /\ IdleAccountCall.email = NoEmail /\ IdleAccountCall.office = NoOffice
  /\ NoAccountToken \notin AccountTokens /\ NoHouse # Platform /\ Platform \notin Houses
  /\ ~Administers(IdleAccountCall)
  BY AccountsAssumption DEF IdleAccountCall, AccountCall, Administers

LEMMA AccountInitial == AccountInit => AccountInv
<1> SUFFICES ASSUME AccountInit PROVE AccountInv
  OBVIOUS
<1>1. PICK e \in Emails, o \in Offices, found \in {"all", "office", "house", "nothing"} :
        /\ houses = [h \in House |-> [exists |-> h = Platform /\ found # "nothing",
                                      owner |-> IF h = Platform /\ found = "all" THEN e ELSE NoEmail]]
        /\ offices = [p \in Offices |-> IF p = o /\ found \in {"all", "office"} THEN Platform ELSE NoHouse]
        /\ subscribed = { p \in Offices : p = o /\ found = "all" }
        /\ accounts = [x \in Emails |-> IF x = e /\ found = "all" THEN [office |-> o, role |-> "superadmin"] ELSE NoAccount]
        /\ accountTokens = [t \in AccountTokens |-> [of |-> NoEmail, state |-> "unsent"]]
        /\ accountCalls = [c \in AccountCalls |-> IdleAccountCall]
        /\ accountsBegun = 0
        /\ unfinished = IF found = "all" THEN {} ELSE {Platform} \cup { p \in Offices : p = o /\ found = "office" }
        /\ overlapped = {}
        /\ spent = [t \in AccountTokens |-> 0]
  BY DEF AccountInit
<1>2. houses \in [House -> HouseRow]
  <2>1. ASSUME NEW h \in House
        PROVE  [exists |-> h = Platform /\ found # "nothing",
                owner |-> IF h = Platform /\ found = "all" THEN e ELSE NoEmail] \in HouseRow
    BY DEF HouseRow
  <2> QED
    BY <1>1, <2>1
<1>3. \A h \in House : /\ houses[h].exists <=> h = Platform /\ found # "nothing"
                       /\ houses[h].owner = IF h = Platform /\ found = "all" THEN e ELSE NoEmail
  BY <1>1
<1>4. \A x \in Emails : accounts[x] = IF x = e /\ found = "all" THEN [office |-> o, role |-> "superadmin"] ELSE NoAccount
  BY <1>1
<1>5. accounts \in [Emails -> AccountRow]
  BY <1>1 DEF AccountRow, NoAccount
<1>6. \A x \in Emails : Has(x) <=> x = e /\ found = "all"
  BY <1>4 DEF Has, NoAccount
<1>7. offices \in [Offices -> House \cup {NoHouse}] /\ Platform \in House
  BY <1>1 DEF House
<1>8. /\ subscribed \subseteq Offices /\ unfinished \subseteq Offices \cup House
      /\ accountTokens \in [AccountTokens -> TokenRow] /\ spent \in [AccountTokens -> Nat]
      /\ accountsBegun \in 0 .. MaxAccountCalls /\ accountCalls \in [AccountCalls -> AccountCall]
  BY <1>1, AccountsAssumption, IdleAccount DEF House, TokenRow
<1>9. \A c \in AccountCalls : accountCalls[c] = IdleAccountCall
  BY <1>1
<1>10. \A c \in AccountCalls : AccountCallSound(c)
  BY <1>9, IdleAccount DEF AccountCallSound
<1>11. \A x \in Emails : AccountPlaced(x)
  BY <1>1, <1>3, <1>4, <1>6, <1>7 DEF AccountPlaced
<1>12. OfficesAreSubscribed
  BY <1>1 DEF OfficesAreSubscribed
<1>13. HousesHaveOwners
  BY <1>1, <1>3, <1>6, AccountsAssumption DEF HousesHaveOwners
<1>14. SetUpsSound
  <2>1. \A x, f \in SuperAdmins : x = f
    BY <1>6 DEF SuperAdmins, Has
  <2> QED
    BY <1>9, <2>1, IdleAccount DEF SetUpsSound
<1>15. \A t \in AccountTokens : TokenSound(t)
  BY <1>1, <1>9, IdleAccount DEF TokenSound, Holds
<1> QED
  BY <1>2, <1>5, <1>7, <1>8, <1>10, <1>11, <1>12, <1>13, <1>14, <1>15 DEF AccountInv

---------------------------------------------------------------------------
(* Accounts: how a request begins and goes on. *)

LEMMA AccountBegins ==
  ASSUME AccountInv, NEW c \in AccountCalls, NEW q \in AccountCall, BeginsAccount(c, q)
  PROVE  /\ accountCalls[c].at = "idle" /\ accountsBegun' \in 0 .. MaxAccountCalls
         /\ accountCalls' = [accountCalls EXCEPT ![c] = q]
  BY AccountsAssumption DEF BeginsAccount, At, AccountInv

LEMMA AccountGoes ==
  ASSUME AccountInv, NEW c \in AccountCalls,
         NEW at \in {"owner", "trial", "adminOffice", "newOffice", "adminTrial", "admin", "adminOwns", "saveUser", "saveToken"},
         Goes(c, at)
  PROVE  /\ accountsBegun' \in 0 .. MaxAccountCalls
         /\ \E q \in AccountCall :
              /\ accountCalls' = [accountCalls EXCEPT ![c] = q]
              /\ q.at = at /\ q.house = accountCalls[c].house /\ q.office = accountCalls[c].office
              /\ q.email = accountCalls[c].email /\ q.token = accountCalls[c].token
<1>1. accountCalls' = [accountCalls EXCEPT ![c] = [accountCalls[c] EXCEPT !.at = at]] /\ UNCHANGED accountsBegun
  BY DEF Goes, AccountInv
<1>2. PICK q : q = [accountCalls[c] EXCEPT !.at = at]
  OBVIOUS
<1>3. accountCalls[c] \in AccountCall
  BY DEF AccountInv
<1>4. /\ q \in AccountCall /\ q.at = at /\ q.house = accountCalls[c].house /\ q.office = accountCalls[c].office
      /\ q.email = accountCalls[c].email /\ q.token = accountCalls[c].token
  BY <1>2, <1>3 DEF AccountCall
<1> QED
  BY <1>1, <1>2, <1>4 DEF AccountInv

LEMMA AccountRests ==
  ASSUME AccountInv, NEW c \in AccountCalls, Goes(c, "idle")
  PROVE  /\ accountsBegun' \in 0 .. MaxAccountCalls
         /\ accountCalls' = [accountCalls EXCEPT ![c] = IdleAccountCall]
  BY DEF Goes, AccountInv

(* The step of one request leaves the others sound: branches it inserts are its own or nobody's. *)
LEMMA OthersSound ==
  ASSUME AccountInv, NEW c \in AccountCalls, NEW q \in AccountCall,
         accountCalls' = [accountCalls EXCEPT ![c] = q],
         \A h \in House : houses[h].exists => houses'[h].exists,
         \A h \in House : houses'[h].exists => houses[h].exists \/ (At(c, "owner") /\ h = accountCalls[c].house),
         \A o \in Offices : offices'[o] # offices[o] =>
           offices[o] = NoHouse /\ ((accountCalls[c].at \in {"owner", "newOffice"} /\ o = accountCalls[c].office) \/ FreeOffice(o)),
         \A e \in Emails : Has(e) => Has(e)',
         q.office \in {NoOffice, accountCalls[c].office} \/ FreeOffice(q.office)
           \/ (q.office \in Offices /\ offices[q.office] # NoHouse),
         q.at = "owner" => \A d \in AccountCalls : At(d, "owner") => accountCalls[d].house # q.house,
         NEW d \in AccountCalls, d # c
  PROVE  accountCalls'[d] = accountCalls[d] /\ AccountCallSound(d)'
<1> DEFINE me == accountCalls[d]
<1>1. accountCalls'[d] = me /\ accountCalls'[c] = q /\ AccountCallSound(d) /\ me \in AccountCall
  BY DEF AccountInv
<1>2. \A e \in AccountCalls : e # c => accountCalls'[e] = accountCalls[e]
  BY DEF AccountInv
<1>3. ASSUME OfficeReserved(d), me.at \in {"owner", "newOffice"} PROVE OfficeReserved(d)'
  <2>1. me.office \in Offices /\ offices[me.office] = NoHouse /\ me.office # NoOffice
    BY <1>3, AccountsAssumption DEF OfficeReserved
  <2>2. accountCalls[c].office # me.office /\ ~FreeOffice(me.office)
    BY <1>3 DEF OfficeReserved, FreeOffice
  <2>3. offices'[me.office] = NoHouse
    BY <2>1, <2>2
  <2>4. q.office # me.office
    BY <2>1, <2>2
  <2> QED
    BY <1>1, <1>2, <1>3, <2>1, <2>3, <2>4 DEF OfficeReserved
<1>4. ASSUME me.at = "owner" PROVE ~houses'[me.house].exists /\ (q.at = "owner" => q.house # me.house)
  <2>1. me.house \in House /\ ~houses[me.house].exists
    BY <1>1, <1>4 DEF AccountCallSound, House
  <2>2. At(c, "owner") => accountCalls[c].house # me.house
    BY <1>1, <1>4 DEF AccountCallSound
  <2> QED
    BY <1>4, <2>1, <2>2 DEF At
<1>5. me.at = "owner" => \A e \in AccountCalls : e # d /\ At(e, "owner")' => accountCalls'[e].house # me.house
  BY <1>1, <1>2, <1>4 DEF AccountCallSound, At
<1>6. Administers(me) => houses'[Platform].exists
  BY <1>1 DEF AccountCallSound, House
<1>7. me.at \in {"adminTrial", "admin", "adminOwns"} => offices'[me.office] = Platform
  <2> SUFFICES ASSUME me.at \in {"adminTrial", "admin", "adminOwns"} PROVE offices'[me.office] = Platform
    OBVIOUS
  <2>1. me.office \in Offices /\ offices[me.office] = Platform
    BY <1>1 DEF AccountCallSound
  <2> QED
    BY <2>1, IdleAccount
<1>8. me.at = "adminOwns" => Has(me.email)'
  <2>1. me.at = "adminOwns" => me.email \in Emails /\ Has(me.email)
    BY <1>1 DEF AccountCallSound, Administers
  <2>2. me.email \in Emails /\ Has(me.email) => Has(me.email)'
    <3> SUFFICES ASSUME me.email \in Emails, Has(me.email) PROVE Has(me.email)'
      OBVIOUS
    <3>1. PICK e \in Emails : e = me.email
      OBVIOUS
    <3> QED
      BY <1>1, <3>1 DEF Has
  <2> QED
    BY <2>1, <2>2
<1> QED
  BY <1>1, <1>3, <1>4, <1>5, <1>6, <1>7, <1>8 DEF AccountCallSound, Has

LEMMA TokensKept ==
  ASSUME AccountInv, NEW c \in AccountCalls, NEW q \in AccountCall,
         accountCalls' = [accountCalls EXCEPT ![c] = q], q.token \notin AccountTokens,
         overlapped \subseteq overlapped', spent' = spent,
         \A t \in AccountTokens :
           accountTokens'[t].state = accountTokens[t].state
             \/ (accountTokens'[t].state \notin {"unsent", "sent"})
             \/ (accountTokens'[t].state = "sent" /\ accountTokens[t].state = "unsent"),
         \A t \in AccountTokens : Holds(c, t) /\ At(c, "saveToken") => t \in overlapped' \/ accountTokens'[t].state # "sent"
  PROVE  \A t \in AccountTokens : TokenSound(t)'
<1> SUFFICES ASSUME NEW t \in AccountTokens PROVE TokenSound(t)'
  OBVIOUS
<1>1. TokenSound(t) /\ accountCalls'[c] = q
  BY DEF AccountInv
<1>2. \A d \in AccountCalls : d # c => accountCalls'[d] = accountCalls[d]
  BY DEF AccountInv
<1>3. \A d \in AccountCalls : Holds(d, t)' => d # c /\ Holds(d, t)
  BY <1>1, <1>2 DEF Holds
<1>4. accountTokens'[t].state = "unsent" => spent'[t] = 0 /\ \A d \in AccountCalls : ~Holds(d, t)'
  BY <1>1, <1>3 DEF TokenSound
<1>5. ASSUME t \notin overlapped'
      PROVE  /\ \A d, e \in AccountCalls : Holds(d, t)' /\ Holds(e, t)' => d = e
             /\ spent'[t] <= 1
             /\ \A d \in AccountCalls : Holds(d, t)' /\ At(d, "saveUser")' => spent'[t] = 0
             /\ spent'[t] = 1 /\ accountTokens'[t].state = "sent"
                  => \E d \in AccountCalls : Holds(d, t)' /\ At(d, "saveToken")'
  <2>1. t \notin overlapped
    BY <1>5
  <2>2. /\ \A d, e \in AccountCalls : Holds(d, t)' /\ Holds(e, t)' => d = e
        /\ spent'[t] <= 1
        /\ \A d \in AccountCalls : Holds(d, t)' /\ At(d, "saveUser")' => spent'[t] = 0
    BY <1>1, <1>2, <1>3, <2>1 DEF TokenSound, At
  <2>3. ASSUME spent'[t] = 1, accountTokens'[t].state = "sent"
        PROVE  \E d \in AccountCalls : Holds(d, t)' /\ At(d, "saveToken")'
    <3>1. accountTokens[t].state = "sent"
      BY <1>1, <2>3 DEF TokenSound
    <3>2. PICK d \in AccountCalls : Holds(d, t) /\ At(d, "saveToken")
      BY <1>1, <2>1, <2>3, <3>1 DEF TokenSound
    <3>3. d # c
      BY <1>5, <2>3, <3>2
    <3> QED
      BY <1>2, <3>2, <3>3 DEF Holds, At
  <2> QED
    BY <2>2, <2>3
<1> QED
  BY <1>4, <1>5 DEF TokenSound

LEMMA SetUpsKept ==
  ASSUME AccountInv, NEW c \in AccountCalls, NEW q \in AccountCall,
         accountCalls' = [accountCalls EXCEPT ![c] = q], overlapped \subseteq overlapped',
         \A e \in Emails : accounts'[e].role = "superadmin" <=> accounts[e].role = "superadmin",
         Administers(q) => Administers(accountCalls[c]),
         q.at \in {"adminOffice", "newOffice", "adminTrial", "admin"}
           => accountCalls[c].at \in {"adminOffice", "newOffice", "adminTrial", "admin"}
  PROVE  SetUpsSound'
<1>1. SuperAdmins' = SuperAdmins
  BY DEF SuperAdmins
<1>2. accountCalls'[c] = q /\ \A d \in AccountCalls : d # c => accountCalls'[d] = accountCalls[d]
  BY DEF AccountInv
<1>3. \A d \in AccountCalls : Administers(accountCalls'[d]) => Administers(accountCalls[d])
  BY <1>2
<1>4. SetUpsSound
  BY DEF AccountInv
<1>5. CASE Platform \in overlapped
  BY <1>5 DEF SetUpsSound
<1>6. CASE Platform \notin overlapped
  <2>1. \A e, f \in SuperAdmins' : e = f
    BY <1>1, <1>4, <1>6 DEF SetUpsSound
  <2>2. \A d, e \in AccountCalls : Administers(accountCalls'[d]) /\ Administers(accountCalls'[e]) => d = e
    BY <1>3, <1>4, <1>6 DEF SetUpsSound
  <2>3. \A d \in AccountCalls : accountCalls'[d].at \in {"adminOffice", "newOffice", "adminTrial", "admin"}
          => SuperAdmins' = {}
    BY <1>1, <1>2, <1>4, <1>6 DEF SetUpsSound
  <2> QED
    BY <2>1, <2>2, <2>3 DEF SetUpsSound, Administers
<1> QED
  BY <1>5, <1>6

LEMMA SubscribedKept ==
  ASSUME AccountInv, NEW c \in AccountCalls, NEW q \in AccountCall,
         accountCalls' = [accountCalls EXCEPT ![c] = q], subscribed \subseteq subscribed',
         \A o \in Offices : offices'[o] # NoHouse => offices[o] # NoHouse \/ o \in subscribed'
                              \/ (q.at \in {"trial", "adminTrial"} /\ q.office = o),
         \A o \in Offices : o \in unfinished => o \in unfinished' \/ o \in subscribed',
         accountCalls[c].at \in {"trial", "adminTrial"} =>
           accountCalls[c].office \in subscribed' \/ accountCalls[c].office \in unfinished'
  PROVE  OfficesAreSubscribed'
<1> SUFFICES ASSUME NEW o \in Offices, offices'[o] # NoHouse
             PROVE  \/ o \in subscribed' \/ o \in unfinished'
                    \/ \E d \in AccountCalls : accountCalls'[d].office = o /\ accountCalls'[d].at \in {"trial", "adminTrial"}
  BY DEF OfficesAreSubscribed
<1>1. accountCalls'[c] = q /\ \A d \in AccountCalls : d # c => accountCalls'[d] = accountCalls[d]
  BY DEF AccountInv
<1>2. CASE offices[o] # NoHouse
  <2>1. \/ o \in subscribed \/ o \in unfinished
        \/ \E d \in AccountCalls : accountCalls[d].office = o /\ accountCalls[d].at \in {"trial", "adminTrial"}
    BY <1>2 DEF AccountInv, OfficesAreSubscribed
  <2> QED
    BY <1>1, <2>1
<1>3. CASE offices[o] = NoHouse
  BY <1>1, <1>3
<1> QED
  BY <1>2, <1>3

LEMMA OwnersKept ==
  ASSUME AccountInv,
         \A e \in Emails : Has(e) => Has(e)',
         \A h \in House : houses'[h].exists =>
           \/ houses'[h] = houses[h] /\ (h \in unfinished => h \in unfinished')
           \/ houses'[h].owner # NoEmail /\ houses'[h].owner \in Emails /\ accounts'[houses'[h].owner].role # "none"
  PROVE  HousesHaveOwners'
<1> SUFFICES ASSUME NEW h \in House, houses'[h].exists
             PROVE  (houses'[h].owner # NoEmail /\ accounts'[houses'[h].owner].role # "none") \/ h \in unfinished'
  BY DEF HousesHaveOwners, Has
<1>1. CASE houses'[h] = houses[h] /\ (h \in unfinished => h \in unfinished')
  <2>1. (houses[h].owner # NoEmail /\ Has(houses[h].owner)) \/ h \in unfinished
    BY <1>1 DEF AccountInv, HousesHaveOwners
  <2>2. houses[h].owner \in Emails \cup {NoEmail}
    BY DEF AccountInv, HouseRow
  <2>3. CASE houses[h].owner # NoEmail /\ Has(houses[h].owner)
    <3>1. PICK e \in Emails : e = houses[h].owner
      BY <2>2, <2>3
    <3>2. Has(e)'
      BY <2>3, <3>1
    <3> QED
      BY <1>1, <2>3, <3>1, <3>2 DEF Has
  <2> QED
    BY <1>1, <2>1, <2>3
<1>2. CASE houses'[h].owner # NoEmail /\ houses'[h].owner \in Emails /\ accounts'[houses'[h].owner].role # "none"
  BY <1>2
<1> QED
  BY <1>1, <1>2

LEMMA PlacedKept ==
  ASSUME AccountInv, NEW e \in Emails, accounts'[e] = accounts[e],
         \A o \in Offices : offices[o] # NoHouse => offices'[o] = offices[o],
         \A h \in House : houses[h].exists => houses'[h].exists,
         \A h \in Houses : houses[h].exists => houses'[h].owner = houses[h].owner
  PROVE  AccountPlaced(e)'
<1>1. AccountPlaced(e)
  BY DEF AccountInv
<1>2. CASE ~Has(e)
  BY <1>2 DEF AccountPlaced, Has
<1>3. CASE Has(e)
  <2>1. PICK o \in Offices, h \in House :
          /\ o = accounts[e].office /\ h = offices[o] /\ houses[h].exists
          /\ accounts[e].role = "owner" => h \in Houses /\ houses[h].owner = e
    BY <1>1, <1>3 DEF AccountPlaced
  <2>2. offices'[o] = h /\ houses'[h].exists
    BY <2>1, AccountsAssumption DEF House
  <2>3. accounts[e].role = "owner" => h \in Houses /\ houses'[h].owner = e
    BY <2>1
  <2> QED
    BY <2>1, <2>2, <2>3 DEF AccountPlaced
<1> QED
  BY <1>2, <1>3

(* A step that leaves businesses, branches and accounts alone. *)
LEMMA AccountQuiet ==
  ASSUME AccountInv, NEW c \in AccountCalls, NEW q \in AccountCall,
         accountCalls' = [accountCalls EXCEPT ![c] = q],
         UNCHANGED <<houses, offices, accounts>>, accountsBegun' \in 0 .. MaxAccountCalls,
         accountTokens' \in [AccountTokens -> TokenRow], spent' \in [AccountTokens -> Nat],
         subscribed' \subseteq Offices, unfinished' \subseteq Offices \cup House,
         \A h \in House : h \in unfinished => h \in unfinished',
         q.office \in {NoOffice, accountCalls[c].office} \/ FreeOffice(q.office)
           \/ (q.office \in Offices /\ offices[q.office] # NoHouse),
         q.at = "owner" => \A d \in AccountCalls : At(d, "owner") => accountCalls[d].house # q.house,
         AccountCallSound(c)', OfficesAreSubscribed', SetUpsSound', \A t \in AccountTokens : TokenSound(t)'
  PROVE  AccountInv'
<1>1. /\ accountCalls' \in [AccountCalls -> AccountCall]
      /\ houses' \in [House -> HouseRow] /\ offices' \in [Offices -> House \cup {NoHouse}]
      /\ accounts' \in [Emails -> AccountRow]
  BY DEF AccountInv
<1>2. \A e \in Emails : Has(e) => Has(e)'
  BY DEF Has
<1>3. \A d \in AccountCalls : d # c => AccountCallSound(d)'
  BY <1>2, OthersSound
<1>4. \A e \in Emails : AccountPlaced(e)'
  BY PlacedKept
<1>5. HousesHaveOwners'
  BY <1>2, OwnersKept
<1> QED
  BY <1>1, <1>3, <1>4, <1>5 DEF AccountInv

---------------------------------------------------------------------------
(* Accounts: the steps. *)

LEMMA IdleSound ==
  ASSUME AccountInv, NEW c \in AccountCalls, accountCalls' = [accountCalls EXCEPT ![c] = IdleAccountCall]
  PROVE  AccountCallSound(c)'
<1>1. accountCalls'[c] = IdleAccountCall
  BY DEF AccountInv
<1> QED
  BY <1>1, IdleAccount DEF AccountCallSound

LEMMA AtRest ==
  ASSUME AccountInv, NEW c \in AccountCalls
  PROVE  /\ AccountCallSound(c) /\ accountCalls[c] \in AccountCall
         /\ accountCalls[c].at \notin {"saveUser", "saveToken"} =>
              /\ accountCalls[c].token = NoAccountToken
              /\ \A t \in AccountTokens : ~Holds(c, t)
<1>1. AccountCallSound(c) /\ accountCalls[c] \in AccountCall
  BY DEF AccountInv
<1> QED
  BY <1>1 DEF AccountCallSound, AccountCall, Holds

(* A request that begins with a branch of its own, or of a business that has it. *)
LEMMA RegisterAccounts == ASSUME AccountInv, NEW c \in AccountCalls, Register(c) PROVE AccountInv'
<1>1. PICK h \in Houses, o \in Offices, e \in Emails :
        /\ FreeOffice(o) /\ ~houses[h].exists
        /\ \A d \in AccountCalls : At(d, "owner") => accountCalls[d].house # h
        /\ BeginsAccount(c, [IdleAccountCall EXCEPT !.at = "owner", !.house = h, !.office = o, !.email = e])
        /\ UNCHANGED <<houses, offices, subscribed, accounts, accountTokens, unfinished, overlapped, spent>>
  BY DEF Register
<1>2. PICK q : q = [IdleAccountCall EXCEPT !.at = "owner", !.house = h, !.office = o, !.email = e]
  OBVIOUS
<1>3. /\ q \in AccountCall /\ q.at = "owner" /\ q.house = h /\ q.office = o /\ q.email = e /\ q.token = NoAccountToken
  BY <1>2, IdleAccount DEF IdleAccountCall, AccountCall, House
<1>4. /\ accountCalls[c].at = "idle" /\ accountCalls' = [accountCalls EXCEPT ![c] = q]
      /\ accountsBegun' \in 0 .. MaxAccountCalls
  BY <1>1, <1>2, <1>3, AccountBegins
<1>5. accountCalls'[c] = q /\ \A d \in AccountCalls : d # c => accountCalls'[d] = accountCalls[d]
  BY <1>4 DEF AccountInv
<1>6. ~Administers(q) /\ h # Platform
  BY <1>3, IdleAccount DEF Administers
<1>7. AccountCallSound(c)'
  BY <1>1, <1>3, <1>5, <1>6, IdleAccount DEF AccountCallSound, OfficeReserved, FreeOffice, At, Administers
<1>8. OfficesAreSubscribed'
  BY <1>1, <1>3, <1>4, SubscribedKept
<1>9. SetUpsSound'
  BY <1>1, <1>3, <1>4, <1>6, SetUpsKept
<1>10. \A t \in AccountTokens : TokenSound(t)'
  BY <1>1, <1>3, <1>4, IdleAccount, TokensKept DEF At
<1> QED
  BY <1>1, <1>3, <1>4, <1>7, <1>8, <1>9, <1>10, AccountQuiet DEF AccountInv

LEMMA RefuseAccounts == ASSUME AccountInv, NEW c \in AccountCalls, RefuseRegister(c) PROVE AccountInv'
<1>1. /\ accountCalls[c].at = "owner" /\ Goes(c, "idle")
      /\ UNCHANGED <<houses, offices, subscribed, accounts, accountTokens, unfinished, overlapped, spent>>
  BY DEF RefuseRegister, At
<1>2. accountsBegun' \in 0 .. MaxAccountCalls /\ accountCalls' = [accountCalls EXCEPT ![c] = IdleAccountCall]
  BY <1>1, AccountRests
<1>3. OfficesAreSubscribed'
  BY <1>1, <1>2, IdleAccount, SubscribedKept
<1>4. SetUpsSound'
  BY <1>1, <1>2, IdleAccount, SetUpsKept
<1>5. \A t \in AccountTokens : TokenSound(t)'
  BY <1>1, <1>2, IdleAccount, TokensKept DEF At
<1> QED
  BY <1>1, <1>2, <1>3, <1>4, <1>5, IdleAccount, IdleSound, AccountQuiet DEF AccountInv

(* The rows a transaction commits are new: the business, its branch and its owner's address. *)
LEMMA CommitAccounts == ASSUME AccountInv, NEW c \in AccountCalls, CommitRegister(c) PROVE AccountInv'
<1> DEFINE me == accountCalls[c]
<1>1. /\ me.at = "owner" /\ ~Has(me.email)
      /\ houses' = [houses EXCEPT ![me.house] = [exists |-> TRUE, owner |-> me.email]]
      /\ offices' = [offices EXCEPT ![me.office] = me.house]
      /\ subscribed' = subscribed \cup {me.office}
      /\ accounts' = [accounts EXCEPT ![me.email] = [office |-> me.office, role |-> "owner"]]
      /\ Goes(c, "idle")
      /\ UNCHANGED <<accountTokens, unfinished, overlapped, spent>>
  BY DEF CommitRegister, At, Committed
<1>2. accountsBegun' \in 0 .. MaxAccountCalls /\ accountCalls' = [accountCalls EXCEPT ![c] = IdleAccountCall]
  BY <1>1, AccountRests
<1>3. PICK h \in Houses, o \in Offices, e \in Emails :
        /\ h = me.house /\ o = me.office /\ e = me.email
        /\ ~houses[h].exists /\ offices[o] = NoHouse
  BY <1>1, AtRest DEF AccountCallSound, OfficeReserved
<1>4. /\ h \in House /\ h # NoHouse /\ h # Platform /\ e # NoEmail
  BY AccountsAssumption DEF House
<1>5. PICK new : new = [exists |-> TRUE, owner |-> e]
  OBVIOUS
<1>6. new \in HouseRow /\ new.exists = TRUE /\ new.owner = e
  BY <1>5 DEF HouseRow
<1>7. /\ houses' \in [House -> HouseRow] /\ houses'[h] = new
      /\ \A g \in House : g # h => houses'[g] = houses[g]
  BY <1>1, <1>3, <1>4, <1>5, <1>6 DEF AccountInv
<1>8. /\ offices' \in [Offices -> House \cup {NoHouse}] /\ offices'[o] = h
      /\ \A p \in Offices : p # o => offices'[p] = offices[p]
  BY <1>1, <1>3, <1>4 DEF AccountInv
<1>9. PICK row : row = [office |-> o, role |-> "owner"]
  OBVIOUS
<1>10. row \in AccountRow /\ row.office = o /\ row.role = "owner"
  BY <1>9 DEF AccountRow
<1>11. /\ accounts' \in [Emails -> AccountRow] /\ accounts'[e] = row
       /\ \A f \in Emails : f # e => accounts'[f] = accounts[f]
  BY <1>1, <1>3, <1>9, <1>10 DEF AccountInv
<1>12. \A f \in Emails : Has(f) => Has(f)'
  BY <1>10, <1>11 DEF Has
<1>13. ~Has(e)
  BY <1>1, <1>3
<1>14. AccountCallSound(c)'
  BY <1>2, IdleSound
<1>15. ASSUME NEW d \in AccountCalls, d # c PROVE AccountCallSound(d)'
  <2>1. \A g \in House : houses[g].exists => houses'[g].exists
    BY <1>6, <1>7
  <2>2. \A g \in House : houses'[g].exists => houses[g].exists \/ (At(c, "owner") /\ g = accountCalls[c].house)
    BY <1>1, <1>3, <1>7 DEF At
  <2>3. \A p \in Offices : offices'[p] # offices[p] =>
          offices[p] = NoHouse /\ ((accountCalls[c].at \in {"owner", "newOffice"} /\ p = accountCalls[c].office) \/ FreeOffice(p))
    BY <1>1, <1>3, <1>8
  <2> QED
    BY <1>2, <1>12, <1>15, <2>1, <2>2, <2>3, IdleAccount, OthersSound
<1>16. \A f \in Emails : AccountPlaced(f)'
  <2> SUFFICES ASSUME NEW f \in Emails PROVE AccountPlaced(f)'
    OBVIOUS
  <2>1. CASE f = e
    BY <1>4, <1>6, <1>7, <1>8, <1>10, <1>11, <2>1 DEF AccountPlaced
  <2>2. CASE f # e
    <3>1. \A p \in Offices : offices[p] # NoHouse => offices'[p] = offices[p]
      BY <1>3, <1>8
    <3>2. \A g \in House : houses[g].exists => houses'[g].exists
      BY <1>6, <1>7
    <3>3. \A g \in Houses : houses[g].exists => houses'[g].owner = houses[g].owner
      BY <1>3, <1>7 DEF House
    <3> QED
      BY <1>11, <2>2, <3>1, <3>2, <3>3, PlacedKept
  <2> QED
    BY <2>1, <2>2
<1>17. OfficesAreSubscribed'
  <2>1. \A p \in Offices : offices'[p] # NoHouse => offices[p] # NoHouse \/ p \in subscribed'
    BY <1>1, <1>3, <1>8
  <2> QED
    BY <1>1, <1>2, <2>1, IdleAccount, SubscribedKept
<1>18. HousesHaveOwners'
  <2>1. ASSUME NEW g \in House, houses'[g].exists
        PROVE  \/ houses'[g] = houses[g] /\ (g \in unfinished => g \in unfinished')
               \/ houses'[g].owner # NoEmail /\ houses'[g].owner \in Emails /\ accounts'[houses'[g].owner].role # "none"
    BY <1>1, <1>4, <1>6, <1>7, <1>10, <1>11
  <2> QED
    BY <1>12, <2>1, OwnersKept
<1>19. SetUpsSound'
  <2>1. \A f \in Emails : accounts'[f].role = "superadmin" <=> accounts[f].role = "superadmin"
    BY <1>10, <1>11, <1>13 DEF Has
  <2> QED
    BY <1>1, <1>2, <2>1, IdleAccount, SetUpsKept
<1>20. \A t \in AccountTokens : TokenSound(t)'
  BY <1>1, <1>2, IdleAccount, TokensKept DEF At
<1>21. /\ subscribed' \subseteq Offices /\ unfinished' \subseteq Offices \cup House
       /\ accountTokens' \in [AccountTokens -> TokenRow] /\ spent' \in [AccountTokens -> Nat]
       /\ accountCalls' \in [AccountCalls -> AccountCall]
  BY <1>1, <1>2, <1>3, IdleAccount DEF AccountInv
<1> QED
  BY <1>2, <1>7, <1>8, <1>11, <1>14, <1>15, <1>16, <1>17, <1>18, <1>19, <1>20, <1>21 DEF AccountInv

LEMMA TrialAccounts == ASSUME AccountInv, NEW c \in AccountCalls, InsertTrial(c) PROVE AccountInv'
<1> DEFINE me == accountCalls[c]
<1>1. /\ me.at = "trial" /\ subscribed' = subscribed \cup {me.office} /\ Goes(c, "idle")
      /\ UNCHANGED <<houses, offices, accounts, accountTokens, unfinished, overlapped, spent>>
  BY DEF InsertTrial, At
<1>2. accountsBegun' \in 0 .. MaxAccountCalls /\ accountCalls' = [accountCalls EXCEPT ![c] = IdleAccountCall]
  BY <1>1, AccountRests
<1>3. me.office \in Offices
  BY <1>1, AtRest DEF AccountCallSound
<1>4. OfficesAreSubscribed'
  BY <1>1, <1>2, IdleAccount, SubscribedKept
<1>5. SetUpsSound'
  BY <1>1, <1>2, IdleAccount, SetUpsKept
<1>6. \A t \in AccountTokens : TokenSound(t)'
  BY <1>1, <1>2, IdleAccount, TokensKept DEF At
<1>7. subscribed' \subseteq Offices
  BY <1>1, <1>3 DEF AccountInv
<1> QED
  BY <1>1, <1>2, <1>4, <1>5, <1>6, <1>7, IdleAccount, IdleSound, AccountQuiet DEF AccountInv

LEMMA ExtendAccounts ==
  ASSUME AccountInv, NEW c \in AccountCalls, ExtendBusinessSubscription(c)
  PROVE  AccountInv'
<1>1. PICK h \in House, o \in Offices :
        /\ houses[h].exists /\ offices[o] = h
        /\ BeginsAccount(c, IF o \in subscribed THEN IdleAccountCall
                            ELSE [IdleAccountCall EXCEPT !.at = "trial", !.house = h, !.office = o])
        /\ UNCHANGED <<houses, offices, subscribed, accounts, accountTokens, unfinished, overlapped, spent>>
  BY DEF ExtendBusinessSubscription
<1>2. PICK q : q = IF o \in subscribed THEN IdleAccountCall
                   ELSE [IdleAccountCall EXCEPT !.at = "trial", !.house = h, !.office = o]
  OBVIOUS
<1>3. /\ q \in AccountCall /\ q.token = NoAccountToken /\ q.email = NoEmail
      /\ \/ q.at = "idle" /\ q.office = NoOffice
         \/ q.at = "trial" /\ q.office = o
  BY <1>2, IdleAccount DEF IdleAccountCall, AccountCall
<1>4. /\ accountCalls[c].at = "idle" /\ accountCalls' = [accountCalls EXCEPT ![c] = q]
      /\ accountsBegun' \in 0 .. MaxAccountCalls
  BY <1>1, <1>2, <1>3, AccountBegins
<1>5. accountCalls'[c] = q
  BY <1>4 DEF AccountInv
<1>6. ~Administers(q) /\ q.token \notin AccountTokens /\ h # NoHouse
  BY <1>3, IdleAccount, AccountsAssumption DEF Administers, House
<1>7. AccountCallSound(c)'
  BY <1>3, <1>5, <1>6 DEF AccountCallSound, Administers
<1>8. OfficesAreSubscribed'
  BY <1>1, <1>3, <1>4, SubscribedKept
<1>9. SetUpsSound'
  BY <1>1, <1>3, <1>4, <1>6, SetUpsKept
<1>10. \A t \in AccountTokens : TokenSound(t)'
  BY <1>1, <1>3, <1>4, <1>6, TokensKept DEF At
<1> QED
  BY <1>1, <1>3, <1>4, <1>6, <1>7, <1>8, <1>9, <1>10, AccountQuiet DEF AccountInv

(* A branch is inserted that was nobody's; businesses and accounts stay as they are. *)
LEMMA BranchInserted ==
  ASSUME AccountInv, NEW c \in AccountCalls, NEW q \in AccountCall, NEW o \in Offices, NEW h \in House,
         accountCalls' = [accountCalls EXCEPT ![c] = q], offices' = [offices EXCEPT ![o] = h],
         (accountCalls[c].at = "newOffice" /\ o = accountCalls[c].office) \/ FreeOffice(o),
         accountCalls[c].at \notin {"trial", "adminTrial", "saveUser", "saveToken"},
         q.at \in {"trial", "adminTrial"}, q.office = o,
         UNCHANGED <<houses, subscribed, accounts, accountTokens, unfinished, overlapped, spent>>,
         accountsBegun' \in 0 .. MaxAccountCalls,
         AccountCallSound(c)', Administers(q) => Administers(accountCalls[c]),
         q.at = "adminTrial" => accountCalls[c].at = "newOffice"
  PROVE  AccountInv'
<1>1. offices[o] = NoHouse /\ h # NoHouse
  BY AtRest, AccountsAssumption DEF AccountCallSound, OfficeReserved, FreeOffice, House
<1>2. /\ offices' \in [Offices -> House \cup {NoHouse}] /\ offices'[o] = h
      /\ \A p \in Offices : p # o => offices'[p] = offices[p]
      /\ accountCalls' \in [AccountCalls -> AccountCall] /\ accountCalls'[c] = q
  BY DEF AccountInv
<1>3. \A e \in Emails : Has(e) => Has(e)'
  BY DEF Has
<1>4. ASSUME NEW d \in AccountCalls, d # c PROVE AccountCallSound(d)'
  <2>1. q.office = accountCalls[c].office \/ FreeOffice(q.office)
    OBVIOUS
  <2>2. \A p \in Offices : offices'[p] # offices[p] =>
          offices[p] = NoHouse /\ ((accountCalls[c].at \in {"owner", "newOffice"} /\ p = accountCalls[c].office) \/ FreeOffice(p))
    BY <1>1, <1>2
  <2> QED
    BY <1>3, <1>4, <2>1, <2>2, OthersSound
<1>5. \A e \in Emails : AccountPlaced(e)'
  <2>1. \A p \in Offices : offices[p] # NoHouse => offices'[p] = offices[p]
    BY <1>1, <1>2
  <2> QED
    BY <2>1, PlacedKept
<1>6. OfficesAreSubscribed'
  <2>1. \A p \in Offices : offices'[p] # NoHouse => offices[p] # NoHouse \/ (q.at \in {"trial", "adminTrial"} /\ q.office = p)
    BY <1>2
  <2> QED
    BY <2>1, SubscribedKept
<1>7. HousesHaveOwners'
  BY <1>3, OwnersKept
<1>8. SetUpsSound'
  BY SetUpsKept
<1>9. \A t \in AccountTokens : TokenSound(t)'
  <2>1. q.token \notin AccountTokens
    BY <1>2 DEF AccountCallSound
  <2> QED
    BY <2>1, AtRest, TokensKept DEF At
<1> QED
  BY <1>2, <1>4, <1>5, <1>6, <1>7, <1>8, <1>9 DEF AccountInv

LEMMA CreateBranchAccounts == ASSUME AccountInv, NEW c \in AccountCalls, CreateBranch(c) PROVE AccountInv'
<1>1. PICK h \in Houses, o \in Offices :
        /\ houses[h].exists /\ FreeOffice(o) /\ offices' = [offices EXCEPT ![o] = h]
        /\ BeginsAccount(c, [IdleAccountCall EXCEPT !.at = "trial", !.house = h, !.office = o])
        /\ UNCHANGED <<houses, subscribed, accounts, accountTokens, unfinished, overlapped, spent>>
  BY DEF CreateBranch
<1>2. PICK q : q = [IdleAccountCall EXCEPT !.at = "trial", !.house = h, !.office = o]
  OBVIOUS
<1>3. /\ q \in AccountCall /\ q.token = NoAccountToken /\ q.email = NoEmail /\ q.at = "trial" /\ q.office = o
      /\ h \in House
  BY <1>2, IdleAccount DEF IdleAccountCall, AccountCall, House
<1>4. /\ accountCalls[c].at = "idle" /\ accountCalls' = [accountCalls EXCEPT ![c] = q]
      /\ accountsBegun' \in 0 .. MaxAccountCalls
  BY <1>1, <1>2, <1>3, AccountBegins
<1>5. accountCalls'[c] = q
  BY <1>4 DEF AccountInv
<1>6. ~Administers(q) /\ q.token \notin AccountTokens
  BY <1>3, IdleAccount, AccountsAssumption DEF Administers
<1>7. AccountCallSound(c)'
  BY <1>3, <1>5, <1>6 DEF AccountCallSound, Administers
<1> QED
  BY <1>1, <1>3, <1>4, <1>6, <1>7, BranchInserted

LEMMA InsertAdminOfficeAccounts ==
  ASSUME AccountInv, NEW c \in AccountCalls, InsertAdminOffice(c)
  PROVE  AccountInv'
<1> DEFINE me == accountCalls[c]
<1>1. /\ me.at = "newOffice" /\ offices' = [offices EXCEPT ![me.office] = Platform] /\ Goes(c, "adminTrial")
      /\ UNCHANGED <<houses, subscribed, accounts, accountTokens, unfinished, overlapped, spent>>
  BY DEF InsertAdminOffice, At
<1>2. PICK q \in AccountCall :
        /\ accountCalls' = [accountCalls EXCEPT ![c] = q]
        /\ q.at = "adminTrial" /\ q.house = me.house /\ q.office = me.office
        /\ q.email = me.email /\ q.token = me.token
  BY <1>1, AccountGoes
<1>3. accountsBegun' \in 0 .. MaxAccountCalls
  BY <1>1, AccountGoes
<1>4. PICK o \in Offices : o = me.office
  BY <1>1, AtRest DEF AccountCallSound, OfficeReserved
<1>5. /\ Administers(me) /\ houses[Platform].exists /\ Platform \in House
      /\ me.token \notin AccountTokens
  BY <1>1, AtRest, IdleAccount DEF AccountCallSound, House
<1>6. accountCalls'[c] = q /\ offices'[o] = Platform
  BY <1>1, <1>2, <1>4 DEF AccountInv
<1>7. AccountCallSound(c)'
  BY <1>1, <1>2, <1>4, <1>5, <1>6 DEF AccountCallSound, Administers
<1>8. Administers(q) => Administers(me)
  BY <1>5
<1> QED
  BY <1>1, <1>2, <1>3, <1>4, <1>5, <1>7, <1>8, BranchInserted

LEMMA SetUpAccounts == ASSUME AccountInv, NEW c \in AccountCalls, SetUp(c) PROVE AccountInv'
<1>1. PICK e \in Emails :
        /\ SuperAdmins = {} /\ houses[Platform].exists
        /\ BeginsAccount(c, [IdleAccountCall EXCEPT !.at = "adminOffice", !.house = Platform, !.email = e])
        /\ overlapped' = IF SettingUp # {} THEN overlapped \cup {Platform} ELSE overlapped
        /\ UNCHANGED <<houses, offices, subscribed, accounts, accountTokens, unfinished, spent>>
  BY DEF SetUp, MaySetUp
<1>2. PICK q : q = [IdleAccountCall EXCEPT !.at = "adminOffice", !.house = Platform, !.email = e]
  OBVIOUS
<1>3. /\ q \in AccountCall /\ q.at = "adminOffice" /\ q.house = Platform /\ q.office = NoOffice /\ q.email = e
      /\ q.token = NoAccountToken
  BY <1>2, IdleAccount DEF IdleAccountCall, AccountCall, House
<1>4. /\ accountCalls[c].at = "idle" /\ accountCalls' = [accountCalls EXCEPT ![c] = q]
      /\ accountsBegun' \in 0 .. MaxAccountCalls
  BY <1>1, <1>2, <1>3, AccountBegins
<1>5. accountCalls'[c] = q /\ \A d \in AccountCalls : d # c => accountCalls'[d] = accountCalls[d]
  BY <1>4 DEF AccountInv
<1>6. q.token \notin AccountTokens /\ Administers(q)
  BY <1>3, IdleAccount DEF Administers
<1>7. AccountCallSound(c)'
  BY <1>1, <1>3, <1>5, <1>6 DEF AccountCallSound, Administers
<1>8. SetUpsSound'
  <2>1. CASE SettingUp # {}
    BY <1>1, <2>1 DEF SetUpsSound
  <2>2. CASE SettingUp = {}
    <3>1. \A d \in AccountCalls : ~Administers(accountCalls[d])
      BY <2>2, AccountsAssumption DEF SettingUp, Administers
    <3>2. \A d \in AccountCalls : Administers(accountCalls'[d]) => d = c
      BY <1>5, <3>1
    <3>3. SuperAdmins' = {}
      BY <1>1 DEF SuperAdmins
    <3> QED
      BY <3>2, <3>3 DEF SetUpsSound, Administers
  <2> QED
    BY <2>1, <2>2
<1>9. OfficesAreSubscribed'
  BY <1>1, <1>3, <1>4, SubscribedKept
<1>10. \A t \in AccountTokens : TokenSound(t)'
  <2>1. overlapped \subseteq overlapped' /\ UNCHANGED <<accountTokens, spent>> /\ ~At(c, "saveToken")
    BY <1>1, <1>4 DEF At
  <2> QED
    BY <1>3, <1>4, <1>6, <2>1, TokensKept
<1>11. UNCHANGED <<houses, offices, accounts, accountTokens, spent, subscribed, unfinished>>
  BY <1>1
<1>12. /\ accountTokens' \in [AccountTokens -> TokenRow] /\ spent' \in [AccountTokens -> Nat]
       /\ subscribed' \subseteq Offices /\ unfinished' \subseteq Offices \cup House
  BY <1>11 DEF AccountInv
<1> QED
  BY <1>3, <1>4, <1>7, <1>8, <1>9, <1>10, <1>11, <1>12, AccountQuiet

LEMMA FindAdminOfficeAccounts ==
  ASSUME AccountInv, NEW c \in AccountCalls, FindAdminOffice(c)
  PROVE  AccountInv'
<1> DEFINE me == accountCalls[c]
<1>1. PICK o \in Offices, at \in {"adminTrial", "newOffice"} :
        /\ IF at = "adminTrial" THEN offices[o] = Platform ELSE FreeOffice(o)
        /\ Goes2(c, at, o)
  BY DEF FindAdminOffice
<1>2. /\ me.at = "adminOffice"
      /\ UNCHANGED <<houses, offices, subscribed, accounts, accountTokens, unfinished, overlapped, spent>>
  BY DEF FindAdminOffice, At
<1>3. PICK q : q = [me EXCEPT !.at = at, !.office = o]
  OBVIOUS
<1>4. AccountCallSound(c) /\ me \in AccountCall
  BY AtRest
<1>5. /\ q \in AccountCall /\ q.at = at /\ q.office = o /\ q.house = me.house /\ q.email = me.email /\ q.token = me.token
  BY <1>3, <1>4 DEF AccountCall
<1>6. accountCalls' = [accountCalls EXCEPT ![c] = q] /\ accountsBegun' \in 0 .. MaxAccountCalls
  BY <1>1, <1>3 DEF Goes2, AccountInv
<1>7. accountCalls'[c] = q /\ \A d \in AccountCalls : d # c => accountCalls'[d] = accountCalls[d]
  BY <1>6 DEF AccountInv
<1>8. Administers(me) /\ Administers(q) /\ houses[Platform].exists /\ q.token \notin AccountTokens
  BY <1>2, <1>4, <1>5 DEF AccountCallSound, Administers
<1>9. AccountCallSound(c)'
  <2>1. at = "newOffice" => OfficeReserved(c)'
    BY <1>1, <1>2, <1>5, <1>7 DEF OfficeReserved, FreeOffice
  <2>2. at = "adminTrial" => offices'[o] = Platform
    BY <1>1, <1>2
  <2>3. houses'[Platform].exists
    BY <1>2, <1>8
  <2> QED
    BY <1>5, <1>7, <1>8, <2>1, <2>2, <2>3 DEF AccountCallSound, Administers
<1>10. SetUpsSound'
  BY <1>2, <1>5, <1>6, <1>8, SetUpsKept
<1>11. OfficesAreSubscribed'
  BY <1>2, <1>5, <1>6, SubscribedKept
<1>12. \A t \in AccountTokens : TokenSound(t)'
  BY <1>2, <1>5, <1>6, <1>8, TokensKept DEF At
<1>13. q.office \in {NoOffice, me.office} \/ FreeOffice(q.office) \/ (q.office \in Offices /\ offices[q.office] # NoHouse)
  BY <1>1, <1>5, IdleAccount
<1> QED
  BY <1>2, <1>5, <1>6, <1>9, <1>10, <1>11, <1>12, <1>13, AccountQuiet DEF AccountInv

LEMMA AdminTrialAccounts == ASSUME AccountInv, NEW c \in AccountCalls, InsertAdminTrial(c) PROVE AccountInv'
<1> DEFINE me == accountCalls[c]
<1>1. /\ me.at = "adminTrial" /\ subscribed' = subscribed \cup {me.office} /\ unfinished' = unfinished \ {me.office}
      /\ Goes(c, "admin")
      /\ UNCHANGED <<houses, offices, accounts, accountTokens, overlapped, spent>>
  BY DEF InsertAdminTrial, At
<1>2. PICK q \in AccountCall :
        /\ accountCalls' = [accountCalls EXCEPT ![c] = q]
        /\ q.at = "admin" /\ q.house = me.house /\ q.office = me.office
        /\ q.email = me.email /\ q.token = me.token
  BY <1>1, AccountGoes
<1>3. accountsBegun' \in 0 .. MaxAccountCalls
  BY <1>1, AccountGoes
<1>4. /\ me.office \in Offices /\ offices[me.office] = Platform
      /\ Administers(me) /\ houses[Platform].exists /\ me.token \notin AccountTokens
  BY <1>1, AtRest DEF AccountCallSound
<1>5. accountCalls'[c] = q
  BY <1>2 DEF AccountInv
<1>6. AccountCallSound(c)'
  BY <1>1, <1>2, <1>4, <1>5 DEF AccountCallSound, Administers
<1>7. SetUpsSound'
  BY <1>1, <1>2, <1>4, SetUpsKept
<1>8. OfficesAreSubscribed'
  BY <1>1, <1>2, SubscribedKept
<1>9. \A t \in AccountTokens : TokenSound(t)'
  BY <1>1, <1>2, <1>4, TokensKept DEF At
<1>10. /\ subscribed' \subseteq Offices /\ unfinished' \subseteq Offices \cup House
       /\ \A h \in House : h \in unfinished => h \in unfinished'
  BY <1>1, <1>4, AccountsAssumption DEF AccountInv, House
<1> QED
  BY <1>1, <1>2, <1>3, <1>6, <1>7, <1>8, <1>9, <1>10, AccountQuiet DEF AccountInv

LEMMA SuperAdminAccounts == ASSUME AccountInv, NEW c \in AccountCalls, InsertSuperAdmin(c) PROVE AccountInv'
<1> DEFINE me == accountCalls[c]
<1>1. /\ me.at = "admin" /\ ~Has(me.email)
      /\ accounts' = [accounts EXCEPT ![me.email] = [office |-> me.office, role |-> "superadmin"]]
      /\ Goes(c, "adminOwns")
      /\ UNCHANGED <<houses, offices, subscribed, accountTokens, unfinished, overlapped, spent>>
  BY DEF InsertSuperAdmin, At
<1>2. PICK q \in AccountCall :
        /\ accountCalls' = [accountCalls EXCEPT ![c] = q]
        /\ q.at = "adminOwns" /\ q.house = me.house /\ q.office = me.office
        /\ q.email = me.email /\ q.token = me.token
  BY <1>1, AccountGoes
<1>3. accountsBegun' \in 0 .. MaxAccountCalls
  BY <1>1, AccountGoes
<1>4. /\ me.office \in Offices /\ offices[me.office] = Platform /\ me.email \in Emails
      /\ Administers(me) /\ houses[Platform].exists /\ me.token \notin AccountTokens
  BY <1>1, AtRest DEF AccountCallSound, Administers
<1>5. PICK e \in Emails, o \in Offices : e = me.email /\ o = me.office
  BY <1>4
<1>6. PICK row : row = [office |-> o, role |-> "superadmin"]
  OBVIOUS
<1>7. row \in AccountRow /\ row.office = o /\ row.role = "superadmin"
  BY <1>6 DEF AccountRow
<1>8. /\ accounts' \in [Emails -> AccountRow] /\ accounts'[e] = row /\ ~Has(e)
      /\ \A f \in Emails : f # e => accounts'[f] = accounts[f]
  BY <1>1, <1>5, <1>6, <1>7 DEF AccountInv
<1>9. accountCalls'[c] = q /\ \A d \in AccountCalls : d # c => accountCalls'[d] = accountCalls[d]
  BY <1>2 DEF AccountInv
<1>10. \A f \in Emails : Has(f) => Has(f)'
  BY <1>7, <1>8 DEF Has
<1>11. AccountCallSound(c)'
  BY <1>1, <1>2, <1>4, <1>5, <1>7, <1>8, <1>9 DEF AccountCallSound, Administers, Has
<1>12. ASSUME NEW d \in AccountCalls, d # c PROVE AccountCallSound(d)'
  BY <1>1, <1>2, <1>10, <1>12, OthersSound
<1>13. \A f \in Emails : AccountPlaced(f)'
  <2> SUFFICES ASSUME NEW f \in Emails PROVE AccountPlaced(f)'
    OBVIOUS
  <2>1. CASE f = e
    BY <1>1, <1>4, <1>5, <1>7, <1>8, <2>1 DEF AccountPlaced, House
  <2>2. CASE f # e
    BY <1>1, <1>8, <2>2, PlacedKept
  <2> QED
    BY <2>1, <2>2
<1>14. OfficesAreSubscribed'
  BY <1>1, <1>2, SubscribedKept
<1>15. HousesHaveOwners'
  BY <1>1, <1>10, OwnersKept
<1>16. SetUpsSound'
  <2>1. CASE Platform \in overlapped
    BY <1>1, <2>1 DEF SetUpsSound
  <2>2. CASE Platform \notin overlapped
    <3>1. SetUpsSound
      BY DEF AccountInv
    <3>2. SuperAdmins = {}
      BY <1>1, <2>2, <3>1 DEF SetUpsSound
    <3>3. \A x, f \in SuperAdmins' : x = f
      BY <1>8, <3>2 DEF SuperAdmins
    <3>4. \A d \in AccountCalls : Administers(accountCalls'[d]) => d = c
      BY <1>4, <1>9, <2>2, <3>1 DEF SetUpsSound
    <3>5. \A d \in AccountCalls : accountCalls'[d].at \notin {"adminOffice", "newOffice", "adminTrial", "admin"}
      <4>1. ASSUME NEW d \in AccountCalls, accountCalls'[d].at \in {"adminOffice", "newOffice", "adminTrial", "admin"}
            PROVE  FALSE
        <5>1. AccountCallSound(d)'
          BY <1>11, <1>12
        <5>2. Administers(accountCalls'[d])
          BY <4>1, <5>1 DEF AccountCallSound, Administers
        <5> QED
          BY <1>2, <1>9, <3>4, <4>1, <5>2
      <4> QED
        BY <4>1
    <3> QED
      BY <3>3, <3>4, <3>5 DEF SetUpsSound, Administers
  <2> QED
    BY <2>1, <2>2
<1>17. \A t \in AccountTokens : TokenSound(t)'
  BY <1>1, <1>2, <1>4, TokensKept DEF At
<1>18. accountCalls' \in [AccountCalls -> AccountCall]
  BY <1>2 DEF AccountInv
<1> QED
  BY <1>1, <1>3, <1>8, <1>11, <1>12, <1>13, <1>14, <1>15, <1>16, <1>17, <1>18 DEF AccountInv

LEMMA SaveOwnerAccounts == ASSUME AccountInv, NEW c \in AccountCalls, SaveOwner(c) PROVE AccountInv'
<1> DEFINE me == accountCalls[c]
<1>1. /\ me.at = "adminOwns" /\ houses' = [houses EXCEPT ![Platform].owner = me.email]
      /\ unfinished' = unfinished \ {Platform} /\ Goes(c, "idle")
      /\ UNCHANGED <<offices, subscribed, accounts, accountTokens, overlapped, spent>>
  BY DEF SaveOwner, At
<1>2. accountsBegun' \in 0 .. MaxAccountCalls /\ accountCalls' = [accountCalls EXCEPT ![c] = IdleAccountCall]
  BY <1>1, AccountRests
<1>3. PICK e \in Emails : e = me.email /\ Has(e) /\ houses[Platform].exists
  BY <1>1, AtRest DEF AccountCallSound, Administers
<1>4. Platform \in House /\ Platform \notin Houses /\ Platform \notin Offices /\ e # NoEmail
  BY AccountsAssumption DEF House
<1>5. PICK new : new = [houses[Platform] EXCEPT !.owner = e]
  OBVIOUS
<1>6. new \in HouseRow /\ new.exists = houses[Platform].exists /\ new.owner = e
  BY <1>4, <1>5 DEF HouseRow, AccountInv
<1>7. /\ houses' \in [House -> HouseRow] /\ houses'[Platform] = new
      /\ \A h \in House : h # Platform => houses'[h] = houses[h]
  BY <1>1, <1>3, <1>4, <1>5, <1>6 DEF AccountInv
<1>8. \A f \in Emails : Has(f) => Has(f)'
  BY <1>1 DEF Has
<1>9. AccountCallSound(c)'
  BY <1>2, IdleSound
<1>10. \A h \in House : houses[h].exists <=> houses'[h].exists
  BY <1>6, <1>7
<1>11. ASSUME NEW d \in AccountCalls, d # c PROVE AccountCallSound(d)'
  BY <1>1, <1>2, <1>8, <1>10, <1>11, IdleAccount, OthersSound
<1>12. \A f \in Emails : AccountPlaced(f)'
  <2>1. \A h \in Houses : houses[h].exists => houses'[h].owner = houses[h].owner
    BY <1>4, <1>7 DEF House
  <2> QED
    BY <1>1, <1>10, <2>1, PlacedKept
<1>13. OfficesAreSubscribed'
  BY <1>1, <1>2, <1>4, IdleAccount, SubscribedKept
<1>14. HousesHaveOwners'
  <2>1. \A h \in House : houses'[h].exists =>
           \/ houses'[h] = houses[h] /\ (h \in unfinished => h \in unfinished')
           \/ houses'[h].owner # NoEmail /\ houses'[h].owner \in Emails /\ accounts'[houses'[h].owner].role # "none"
    BY <1>1, <1>3, <1>4, <1>6, <1>7 DEF Has
  <2> QED
    BY <1>8, <2>1, OwnersKept
<1>15. SetUpsSound'
  BY <1>1, <1>2, IdleAccount, SetUpsKept
<1>16. \A t \in AccountTokens : TokenSound(t)'
  BY <1>1, <1>2, IdleAccount, TokensKept DEF At
<1>17. unfinished' \subseteq Offices \cup House /\ accountCalls' \in [AccountCalls -> AccountCall]
  BY <1>1, <1>2, IdleAccount DEF AccountInv
<1> QED
  BY <1>1, <1>2, <1>7, <1>9, <1>11, <1>12, <1>13, <1>14, <1>15, <1>16, <1>17 DEF AccountInv

---------------------------------------------------------------------------
(* Accounts: the steps of the tokens. *)

LEMMA SendTokenAccounts == ASSUME AccountInv, NEW c \in AccountCalls, SendToken(c) PROVE AccountInv'
<1>1. PICK t \in AccountTokens, e \in Emails :
        /\ accountTokens[t].state = "unsent" /\ Has(e)
        /\ accountTokens' = [accountTokens EXCEPT ![t] = [of |-> e, state |-> "sent"]]
        /\ BeginsAccount(c, IdleAccountCall)
        /\ UNCHANGED <<houses, offices, subscribed, accounts, unfinished, overlapped, spent>>
  BY DEF SendToken
<1>2. /\ accountCalls[c].at = "idle" /\ accountCalls' = [accountCalls EXCEPT ![c] = IdleAccountCall]
      /\ accountsBegun' \in 0 .. MaxAccountCalls
  BY <1>1, IdleAccount, AccountBegins
<1>3. PICK row : row = [of |-> e, state |-> "sent"]
  OBVIOUS
<1>4. row \in TokenRow /\ row.state = "sent"
  BY <1>3 DEF TokenRow
<1>5. /\ accountTokens' \in [AccountTokens -> TokenRow] /\ accountTokens'[t] = row
      /\ \A u \in AccountTokens : u # t => accountTokens'[u] = accountTokens[u]
  BY <1>1, <1>3, <1>4 DEF AccountInv
<1>6. OfficesAreSubscribed'
  BY <1>1, <1>2, IdleAccount, SubscribedKept
<1>7. SetUpsSound'
  BY <1>1, <1>2, IdleAccount, SetUpsKept
<1>8. \A u \in AccountTokens : TokenSound(u)'
  <2>1. \A u \in AccountTokens :
           accountTokens'[u].state = accountTokens[u].state
             \/ (accountTokens'[u].state = "sent" /\ accountTokens[u].state = "unsent")
    BY <1>1, <1>4, <1>5
  <2> QED
    BY <1>1, <1>2, <2>1, IdleAccount, TokensKept DEF At
<1> QED
  BY <1>1, <1>2, <1>5, <1>6, <1>7, <1>8, IdleAccount, IdleSound, AccountQuiet DEF AccountInv

LEMMA ExpireTokenAccounts == ASSUME AccountInv, ExpireToken PROVE AccountInv'
<1>1. PICK t \in AccountTokens :
        /\ accountTokens[t].state = "sent"
        /\ accountTokens' = [accountTokens EXCEPT ![t].state = "expired"]
        /\ UNCHANGED <<houses, offices, subscribed, accounts, accountCalls, accountsBegun, unfinished, overlapped, spent>>
  BY DEF ExpireToken
<1>2. /\ accountTokens' \in [AccountTokens -> TokenRow] /\ accountTokens'[t].state = "expired"
      /\ \A u \in AccountTokens : u # t => accountTokens'[u] = accountTokens[u]
  BY <1>1 DEF AccountInv, TokenRow
<1>3. ASSUME NEW u \in AccountTokens PROVE TokenSound(u)'
  BY <1>1, <1>2 DEF AccountInv, TokenSound, Holds, At
<1>4. \A d \in AccountCalls : AccountCallSound(d)'
  BY <1>1 DEF AccountInv, AccountCallSound, OfficeReserved, Administers, At, Has
<1>5. (\A e \in Emails : AccountPlaced(e)') /\ OfficesAreSubscribed' /\ HousesHaveOwners' /\ SetUpsSound'
  BY <1>1 DEF AccountInv, AccountPlaced, OfficesAreSubscribed, HousesHaveOwners, SetUpsSound, SuperAdmins, Has, Administers
<1> QED
  BY <1>1, <1>2, <1>3, <1>4, <1>5 DEF AccountInv

(* What a step of one request leaves of the tokens it does not hold. *)
LEMMA OtherTokens ==
  ASSUME AccountInv, NEW c \in AccountCalls, NEW q \in AccountCall,
         accountCalls' = [accountCalls EXCEPT ![c] = q],
         NEW t \in AccountTokens, accountTokens'[t] = accountTokens[t], spent'[t] = spent[t],
         overlapped \subseteq overlapped', ~Holds(c, t), q.token # t
  PROVE  TokenSound(t)'
<1>1. accountCalls'[c] = q /\ \A d \in AccountCalls : d # c => accountCalls'[d] = accountCalls[d]
  BY DEF AccountInv
<1>2. \A d \in AccountCalls : (Holds(d, t)' <=> Holds(d, t)) /\ (Holds(d, t) => d # c)
  BY <1>1 DEF Holds
<1>3. \A d \in AccountCalls : Holds(d, t) => accountCalls'[d] = accountCalls[d]
  BY <1>1, <1>2
<1>4. TokenSound(t)
  BY DEF AccountInv
<1> QED
  BY <1>2, <1>3, <1>4 DEF TokenSound, At

LEMMA UseTokenAccounts == ASSUME AccountInv, NEW c \in AccountCalls, UseToken(c) PROVE AccountInv'
<1>1. PICK t \in AccountTokens :
        /\ accountTokens[t].state = "sent"
        /\ overlapped' = IF \E d \in AccountCalls : accountCalls[d].token = t THEN overlapped \cup {t} ELSE overlapped
        /\ BeginsAccount(c, [IdleAccountCall EXCEPT !.at = "saveUser", !.email = accountTokens[t].of, !.token = t])
        /\ UNCHANGED <<houses, offices, subscribed, accounts, accountTokens, unfinished, spent>>
  BY DEF UseToken, Usable
<1>2. PICK q : q = [IdleAccountCall EXCEPT !.at = "saveUser", !.email = accountTokens[t].of, !.token = t]
  OBVIOUS
<1>3. accountTokens[t].of \in Emails \cup {NoEmail}
  BY DEF AccountInv, TokenRow
<1>4. q \in AccountCall /\ q.at = "saveUser" /\ q.token = t /\ q.house = NoHouse /\ q.office = NoOffice
  BY <1>2, <1>3 DEF IdleAccountCall, AccountCall
<1>5. /\ accountCalls[c].at = "idle" /\ accountCalls' = [accountCalls EXCEPT ![c] = q]
      /\ accountsBegun' \in 0 .. MaxAccountCalls
  BY <1>1, <1>2, <1>4, AccountBegins
<1>6. accountCalls'[c] = q /\ \A d \in AccountCalls : d # c => accountCalls'[d] = accountCalls[d]
  BY <1>5 DEF AccountInv
<1>7. ~Administers(q)
  BY <1>4, IdleAccount DEF Administers
<1>8. AccountCallSound(c)'
  BY <1>4, <1>6, <1>7 DEF AccountCallSound, Administers
<1>9. \A u \in AccountTokens : ~Holds(c, u)
  BY <1>5, AtRest
<1>10. overlapped \subseteq overlapped'
  BY <1>1
<1>11. TokenSound(t)'
  <2>1. TokenSound(t)
    BY DEF AccountInv
  <2>2. CASE \E d \in AccountCalls : accountCalls[d].token = t
    BY <1>1, <2>2 DEF TokenSound
  <2>3. CASE \A d \in AccountCalls : accountCalls[d].token # t
    <3>1. \A d \in AccountCalls : Holds(d, t)' <=> d = c
      BY <1>4, <1>6, <2>3 DEF Holds
    <3>2. t \in overlapped \/ spent[t] = 0
      <4>1. spent[t] \in Nat
        BY DEF AccountInv
      <4> QED
        BY <1>1, <2>1, <2>3, <4>1 DEF TokenSound, Holds
    <3> QED
      BY <1>1, <1>10, <3>1, <3>2 DEF TokenSound
  <2> QED
    BY <2>2, <2>3
<1>12. \A u \in AccountTokens : TokenSound(u)'
  BY <1>1, <1>4, <1>5, <1>9, <1>10, <1>11, OtherTokens
<1>13. OfficesAreSubscribed'
  BY <1>1, <1>4, <1>5, SubscribedKept
<1>14. SetUpsSound'
  BY <1>4, <1>1, <1>5, <1>7, <1>10, SetUpsKept
<1>15. UNCHANGED <<houses, offices, accounts, accountTokens, spent, subscribed, unfinished>>
  BY <1>1
<1>16. /\ accountTokens' \in [AccountTokens -> TokenRow] /\ spent' \in [AccountTokens -> Nat]
       /\ subscribed' \subseteq Offices /\ unfinished' \subseteq Offices \cup House
  BY <1>15 DEF AccountInv
<1> QED
  BY <1>4, <1>5, <1>8, <1>12, <1>13, <1>14, <1>15, <1>16, AccountQuiet

(* The user is saved once for a token nobody else has; the request goes on to mark it. *)
LEMMA SaveTokenUserAccounts == ASSUME AccountInv, NEW c \in AccountCalls, SaveTokenUser(c) PROVE AccountInv'
<1> DEFINE me == accountCalls[c]
<1>1. /\ me.at = "saveUser" /\ spent' = [spent EXCEPT ![me.token] = @ + 1] /\ Goes(c, "saveToken")
      /\ UNCHANGED <<houses, offices, subscribed, accounts, accountTokens, unfinished, overlapped>>
  BY DEF SaveTokenUser, At
<1>2. PICK q \in AccountCall :
        /\ accountCalls' = [accountCalls EXCEPT ![c] = q]
        /\ q.at = "saveToken" /\ q.house = me.house /\ q.office = me.office
        /\ q.email = me.email /\ q.token = me.token
  BY <1>1, AccountGoes
<1>3. accountsBegun' \in 0 .. MaxAccountCalls
  BY <1>1, AccountGoes
<1>4. ~Administers(me) /\ ~Administers(q)
  BY <1>1, <1>2, AtRest DEF AccountCallSound, Administers
<1>5. PICK t \in AccountTokens : t = me.token
  BY <1>1, AtRest DEF AccountCallSound
<1>6. accountCalls'[c] = q /\ \A d \in AccountCalls : d # c => accountCalls'[d] = accountCalls[d]
  BY <1>2 DEF AccountInv
<1>7. /\ spent' \in [AccountTokens -> Nat] /\ spent'[t] = spent[t] + 1
      /\ \A u \in AccountTokens : u # t => spent'[u] = spent[u]
  BY <1>1, <1>5 DEF AccountInv
<1>8. AccountCallSound(c)'
  BY <1>2, <1>4, <1>5, <1>6 DEF AccountCallSound
<1>9. TokenSound(t)'
  <2>1. TokenSound(t) /\ Holds(c, t) /\ At(c, "saveUser")
    BY <1>1, <1>5 DEF AccountInv, Holds, At
  <2>2. accountTokens'[t].state # "unsent"
    BY <1>1, <2>1 DEF TokenSound
  <2>3. CASE t \in overlapped
    BY <1>1, <2>2, <2>3 DEF TokenSound
  <2>4. CASE t \notin overlapped
    <3>1. spent[t] = 0 /\ \A d \in AccountCalls : Holds(d, t) => d = c
      BY <2>1, <2>4 DEF TokenSound
    <3>2. \A d \in AccountCalls : Holds(d, t)' <=> d = c
      BY <1>2, <1>5, <1>6, <3>1 DEF Holds
    <3>3. At(c, "saveToken")' /\ ~At(c, "saveUser")' /\ spent'[t] = 1
      BY <1>2, <1>6, <1>7, <3>1 DEF At
    <3> QED
      BY <2>2, <3>2, <3>3 DEF TokenSound
  <2> QED
    BY <2>3, <2>4
<1>10. \A u \in AccountTokens : TokenSound(u)'
  <2>1. ASSUME NEW u \in AccountTokens, u # t PROVE TokenSound(u)'
    <3>1. ~Holds(c, u) /\ q.token # u
      BY <1>2, <1>5, <2>1 DEF Holds
    <3> QED
      BY <1>1, <1>2, <1>7, <2>1, <3>1, OtherTokens
  <2> QED
    BY <1>9, <2>1
<1>11. OfficesAreSubscribed'
  BY <1>1, <1>2, SubscribedKept
<1>12. SetUpsSound'
  BY <1>1, <1>2, <1>4, SetUpsKept
<1> QED
  BY <1>1, <1>2, <1>3, <1>7, <1>8, <1>10, <1>11, <1>12, AccountQuiet DEF AccountInv

LEMMA SpendTokenAccounts == ASSUME AccountInv, NEW c \in AccountCalls, SpendToken(c) PROVE AccountInv'
<1> DEFINE me == accountCalls[c]
<1>1. /\ me.at = "saveToken" /\ accountTokens' = [accountTokens EXCEPT ![me.token].state = "used"] /\ Goes(c, "idle")
      /\ UNCHANGED <<houses, offices, subscribed, accounts, unfinished, overlapped, spent>>
  BY DEF SpendToken, At
<1>2. accountsBegun' \in 0 .. MaxAccountCalls /\ accountCalls' = [accountCalls EXCEPT ![c] = IdleAccountCall]
  BY <1>1, AccountRests
<1>3. PICK t \in AccountTokens : t = me.token
  BY <1>1, AtRest DEF AccountCallSound
<1>4. /\ accountTokens' \in [AccountTokens -> TokenRow] /\ accountTokens'[t].state = "used"
      /\ \A u \in AccountTokens : u # t => accountTokens'[u] = accountTokens[u]
  BY <1>1, <1>3 DEF AccountInv, TokenRow
<1>5. \A u \in AccountTokens : TokenSound(u)'
  <2>1. \A u \in AccountTokens :
          accountTokens'[u].state = accountTokens[u].state \/ accountTokens'[u].state \notin {"unsent", "sent"}
    BY <1>4
  <2>2. \A u \in AccountTokens : Holds(c, u) => accountTokens'[u].state # "sent"
    BY <1>3, <1>4 DEF Holds
  <2> QED
    BY <1>1, <1>2, <2>1, <2>2, IdleAccount, TokensKept
<1>6. OfficesAreSubscribed'
  BY <1>1, <1>2, IdleAccount, SubscribedKept
<1>7. SetUpsSound'
  BY <1>1, <1>2, IdleAccount, SetUpsKept
<1> QED
  BY <1>1, <1>2, <1>4, <1>5, <1>6, <1>7, IdleAccount, IdleSound, AccountQuiet DEF AccountInv

LEMMA CutAccounts == ASSUME AccountInv, NEW c \in AccountCalls, CutAccountCall(c) PROVE AccountInv'
<1> DEFINE me == accountCalls[c]
<1>1. /\ unfinished' = unfinished \cup
           (IF me.at \in {"trial", "adminTrial"} /\ me.office \notin subscribed THEN {me.office} ELSE {}) \cup
           (IF me.at = "adminOwns" THEN {Platform} ELSE {})
      /\ overlapped' = IF me.at = "saveToken" THEN overlapped \cup {me.token} ELSE overlapped
      /\ Goes(c, "idle")
      /\ UNCHANGED <<houses, offices, subscribed, accounts, accountTokens, spent>>
  BY DEF CutAccountCall
<1>2. accountsBegun' \in 0 .. MaxAccountCalls /\ accountCalls' = [accountCalls EXCEPT ![c] = IdleAccountCall]
  BY <1>1, AccountRests
<1>3. me.at \in {"trial", "adminTrial"} => me.office \in Offices
  BY AtRest DEF AccountCallSound
<1>4. /\ unfinished \subseteq unfinished' /\ overlapped \subseteq overlapped'
      /\ unfinished' \subseteq Offices \cup House
      /\ me.at \in {"trial", "adminTrial"} => me.office \in subscribed' \/ me.office \in unfinished'
  BY <1>1, <1>3 DEF AccountInv, House
<1>5. \A t \in AccountTokens : Holds(c, t) /\ At(c, "saveToken") => t \in overlapped'
  BY <1>1 DEF Holds, At
<1>6. \A t \in AccountTokens : TokenSound(t)'
  BY <1>1, <1>2, <1>4, <1>5, IdleAccount, TokensKept
<1>7. OfficesAreSubscribed'
  BY <1>1, <1>2, <1>4, IdleAccount, SubscribedKept
<1>8. SetUpsSound'
  BY <1>1, <1>2, <1>4, IdleAccount, SetUpsKept
<1>9. UNCHANGED <<houses, offices, accounts, accountTokens, spent, subscribed>>
  BY <1>1
<1>10. /\ accountTokens' \in [AccountTokens -> TokenRow] /\ spent' \in [AccountTokens -> Nat]
       /\ subscribed' \subseteq Offices
  BY <1>9 DEF AccountInv
<1> QED
  BY <1>2, <1>4, <1>6, <1>7, <1>8, <1>9, <1>10, IdleAccount, IdleSound, AccountQuiet

---------------------------------------------------------------------------
(* Accounts: the theorems. *)

LEMMA AccountStep == ASSUME AccountInv, [AccountNext]_accountVars PROVE AccountInv'
<1>1. CASE UNCHANGED accountVars
  <2> USE <1>1 DEF accountVars
  <2>1. \A d \in AccountCalls : AccountCallSound(d)'
    BY DEF AccountInv, AccountCallSound, OfficeReserved, Administers, At, Has
  <2>2. \A e \in Emails : AccountPlaced(e)'
    BY DEF AccountInv, AccountPlaced, Has
  <2>3. OfficesAreSubscribed' /\ HousesHaveOwners' /\ SetUpsSound'
    BY DEF AccountInv, OfficesAreSubscribed, HousesHaveOwners, SetUpsSound, SuperAdmins, Has, Administers
  <2>4. \A t \in AccountTokens : TokenSound(t)'
    BY DEF AccountInv, TokenSound, Holds, At
  <2> QED
    BY <2>1, <2>2, <2>3, <2>4 DEF AccountInv
<1>2. CASE \E c \in AccountCalls :
       \/ Register(c) \/ CommitRegister(c) \/ RefuseRegister(c)
       \/ CreateBranch(c) \/ InsertTrial(c) \/ ExtendBusinessSubscription(c)
       \/ SetUp(c) \/ FindAdminOffice(c) \/ InsertAdminOffice(c) \/ InsertAdminTrial(c)
       \/ InsertSuperAdmin(c) \/ SaveOwner(c)
       \/ SendToken(c) \/ UseToken(c) \/ SaveTokenUser(c) \/ SpendToken(c)
       \/ CutAccountCall(c)
  BY <1>2, RegisterAccounts, CommitAccounts, RefuseAccounts, CreateBranchAccounts, TrialAccounts, ExtendAccounts,
     SetUpAccounts, FindAdminOfficeAccounts, InsertAdminOfficeAccounts, AdminTrialAccounts, SuperAdminAccounts,
     SaveOwnerAccounts, SendTokenAccounts, UseTokenAccounts, SaveTokenUserAccounts, SpendTokenAccounts, CutAccounts
<1>3. CASE ExpireToken
  BY <1>3, ExpireTokenAccounts
<1> QED
  BY <1>1, <1>2, <1>3 DEF AccountNext

(* The invariant of the accounts holds in every reachable state, of auth.service.ts and branch.service.ts. *)
THEOREM AccountInvariant == AccountSpec => []AccountInv
  BY AccountInitial, AccountStep, PTL DEF AccountSpec

LEMMA AccountImplies == AccountInv => AccountTypeOK /\ AccountsStand
<1> SUFFICES ASSUME AccountInv PROVE AccountTypeOK /\ AccountsStand
  OBVIOUS
<1>1. AccountTypeOK
  BY DEF AccountInv, AccountTypeOK, AccountCall
<1>2. AccountsHaveHouses
  <2> SUFFICES ASSUME NEW e \in Emails, Has(e)
               PROVE  LET h == offices[accounts[e].office]
                      IN h # NoHouse /\ houses[h].exists /\ (accounts[e].role = "owner" => houses[h].owner = e)
    BY DEF AccountsHaveHouses
  <2>1. AccountPlaced(e)
    BY DEF AccountInv
  <2> QED
    BY <2>1, AccountsAssumption DEF AccountPlaced, House
<1>3. OneTimeOnly
  <2>1. Cardinality(SuperAdmins) <= 1 \/ Platform \in overlapped
    <3> SUFFICES ASSUME Platform \notin overlapped PROVE Cardinality(SuperAdmins) <= 1
      OBVIOUS
    <3>1. \A e, f \in SuperAdmins : e = f
      BY DEF AccountInv, SetUpsSound
    <3>2. CASE SuperAdmins = {}
      <4>1. Cardinality(SuperAdmins) = 0
        BY <3>2, FS_EmptySet
      <4> QED
        BY <4>1
    <3>3. CASE \E e : SuperAdmins = {e}
      <4>1. Cardinality(SuperAdmins) = 1
        BY <3>3, FS_Singleton
      <4> QED
        BY <4>1
    <3> QED
      BY <3>1, <3>2, <3>3
  <2>2. \A t \in AccountTokens : spent[t] <= 1 \/ t \in overlapped
    BY DEF AccountInv, TokenSound
  <2> QED
    BY <2>1, <2>2 DEF OneTimeOnly
<1> QED
  BY <1>1, <1>2, <1>3 DEF AccountInv, AccountsStand

(* Rows and requests of auth.service.ts, branch.service.ts and admin.service.ts keep their types. *)
THEOREM AccountTypeCorrect == AccountSpec => []AccountTypeOK
  BY AccountInvariant, AccountImplies, PTL

(* Whoever can sign in has a business with a branch, a branch its subscription and a business its owner, one *)
(* super admin is made and a token takes effect once, but for what unfinished and overlapped record          *)
(* (register, setupSuperAdmin, create, resetPassword, verifyEmail).                                          *)
THEOREM AccountsStandAlways == AccountSpec => []AccountsStand
  BY AccountInvariant, AccountImplies, PTL

---------------------------------------------------------------------------
(* Staff: the inductive invariant. *)

StaffCall ==
  [at: {"idle", "insert", "profile", "save", "saveProfile", "setStatus", "retire", "deleteProfile"},
   id: StaffIds \cup {NoStaff}, row: StaffRow, stale: BOOLEAN, tested: BOOLEAN]

Known(s) == staff[s].status # "none"

(* A row to be inserted is nobody's yet, and its PIN is still free if it was and nothing happened since.  *)
Inserts(c) ==
  LET q == staffCalls[c]
  IN /\ ~Known(q.id) /\ q.row.status = "active"
     /\ \A d \in StaffCalls : d # c /\ staffCalls[d].at # "idle" => staffCalls[d].id # q.id
     /\ ~q.stale /\ q.tested /\ q.row.pin # NoPin => \A s \in StaffIds : Active(s) => staff[s].pin # q.row.pin

(* A row to be saved is of somebody in the same role, and has the same PIN if nothing happened since. *)
Saves(c) ==
  LET q == staffCalls[c]
  IN /\ q.row.status \in {"active", "inactive"} /\ q.row.role = staff[q.id].role
     /\ ~q.stale /\ q.tested /\ Active(q.id) => q.row.pin = staff[q.id].pin

StaffCallSound(c) ==
  LET q == staffCalls[c]
  IN /\ q.at # "idle" => q.id \in StaffIds
     /\ q.at = "insert" => Inserts(c)
     /\ q.at \notin {"idle", "insert"} => Known(q.id)
     /\ q.at = "save" => Saves(c)
     /\ q.at = "setStatus" => q.row.status # "none"
     /\ q.at = "deleteProfile" /\ ~q.stale => ~Active(q.id)

StaffInv ==
  /\ StaffTypeOK
  /\ \A s \in profiles : Known(s)
  /\ \A c \in StaffCalls : StaffCallSound(c)
  /\ StaffRecordsAgree

LEMMA StaffTyped ==
  ASSUME StaffInv
  PROVE  /\ staff \in [StaffIds -> StaffRow] /\ profiles \subseteq StaffIds
         /\ staffCalls \in [StaffCalls -> StaffCall]
         /\ staffBegun \in 0 .. MaxStaffCalls /\ untested \subseteq StaffIds /\ halved \subseteq StaffIds
  BY DEF StaffInv, StaffTypeOK, StaffCall

LEMMA IdleIsCall == IdleStaffCall \in StaffCall /\ IdleStaffCall.at = "idle"
  BY DEF IdleStaffCall, StaffCall, NoStaffRow, StaffRow, StaffRole

LEMMA StaffInitial == StaffInit => StaffInv
<1> SUFFICES ASSUME StaffInit PROVE StaffInv
  OBVIOUS
<1>1. NoStaffRow \in StaffRow /\ NoStaffRow.status = "none"
  BY DEF NoStaffRow, StaffRow, StaffRole
<1>2. staffCalls \in [StaffCalls -> StaffCall] /\ \A c \in StaffCalls : staffCalls[c].at = "idle"
  BY IdleIsCall DEF StaffInit
<1>3. staff \in [StaffIds -> StaffRow] /\ \A s \in StaffIds : staff[s].status = "none"
  BY <1>1 DEF StaffInit
<1>4. profiles = {} /\ untested = {} /\ halved = {} /\ staffBegun \in 0 .. MaxStaffCalls
  BY StaffAssumption DEF StaffInit
<1>5. \A c \in StaffCalls : StaffCallSound(c)
  BY <1>2 DEF StaffCallSound
<1>6. StaffRecordsAgree
  BY <1>3 DEF StaffRecordsAgree, PinIsPersonal, RiderHasProfile, Active
<1>7. StaffTypeOK
  BY <1>2, <1>3, <1>4 DEF StaffTypeOK, StaffCall
<1> QED
  BY <1>4, <1>5, <1>6, <1>7 DEF StaffInv

---------------------------------------------------------------------------
(* Staff: how a request begins, and goes on. *)

LEMMA StaffAsks ==
  ASSUME StaffInv, NEW c \in StaffCalls, NEW s \in StaffIds, NEW row \in StaffRow, NEW tested \in BOOLEAN,
         NEW at \in {"insert", "save", "saveProfile", "retire"}, Asks(c, at, s, row, tested),
         at = "insert" =>
           /\ ~Known(s) /\ row.status = "active"
           /\ \A d \in StaffCalls : staffCalls[d].at # "idle" => staffCalls[d].id # s
           /\ tested /\ row.pin # NoPin => \A t \in StaffIds : Active(t) => staff[t].pin # row.pin,
         at # "insert" => Known(s),
         at = "save" =>
           /\ row.status \in {"active", "inactive"} /\ row.role = staff[s].role
           /\ tested => row.pin = staff[s].pin
  PROVE  StaffInv'
<1> DEFINE q == [at |-> at, id |-> s, row |-> row, stale |-> FALSE, tested |-> tested]
<1>1. /\ staffCalls[c].at = "idle" /\ staffCalls' = [staffCalls EXCEPT ![c] = q]
      /\ staffBegun < MaxStaffCalls /\ staffBegun' = staffBegun + 1
      /\ UNCHANGED <<staff, profiles, untested, halved>>
  BY DEF Asks
<1>2. /\ q \in StaffCall /\ q.at = at /\ q.id = s /\ q.row = row /\ q.stale = FALSE /\ q.tested = tested
  BY DEF StaffCall
<1> HIDE DEF q
<1>3. /\ staffCalls' \in [StaffCalls -> StaffCall] /\ staffCalls'[c] = q
      /\ \A d \in StaffCalls : d # c => staffCalls'[d] = staffCalls[d]
  BY <1>1, <1>2, StaffTyped
<1>4. staffBegun' \in 0 .. MaxStaffCalls
  BY <1>1, StaffTyped, StaffAssumption
<1>5. StaffTypeOK'
  BY <1>1, <1>3, <1>4, StaffTyped DEF StaffTypeOK, StaffCall
<1>6. StaffCallSound(c)'
  BY <1>1, <1>2, <1>3 DEF StaffCallSound, Inserts, Saves, Known, Active
<1>7. ASSUME NEW d \in StaffCalls, d # c PROVE StaffCallSound(d)'
  <2>1. StaffCallSound(d) /\ staffCalls'[d] = staffCalls[d]
    BY <1>3, <1>7 DEF StaffInv
  <2>2. staffCalls[d].at = "insert" => Inserts(d)'
    <3>1. staffCalls[d].at = "insert" => s # staffCalls[d].id
      BY <2>1 DEF StaffCallSound, Inserts
    <3> QED
      BY <1>1, <1>2, <1>3, <2>1, <3>1 DEF StaffCallSound, Inserts, Known, Active
  <2> QED
    BY <1>1, <2>1, <2>2 DEF StaffCallSound, Saves, Known, Active
<1>8. StaffRecordsAgree'
  <2>1. PinIsPersonal'
    BY <1>1 DEF StaffInv, StaffRecordsAgree, PinIsPersonal, Active
  <2>2. RiderHasProfile'
    BY <1>1, <1>3 DEF StaffInv, StaffRecordsAgree, RiderHasProfile, Active, CallOf
  <2> QED
    BY <2>1, <2>2 DEF StaffRecordsAgree
<1> QED
  BY <1>1, <1>5, <1>6, <1>7, <1>8 DEF StaffInv, Known

(* What Leaves does to its own request, and to the others: their rows are old news. *)
LEMMA StaffLeaves ==
  ASSUME StaffInv, NEW c \in StaffCalls,
         NEW at \in {"idle", "insert", "profile", "save", "saveProfile", "setStatus", "retire", "deleteProfile"},
         Leaves(c, at)
  PROVE  /\ staffCalls' \in [StaffCalls -> StaffCall]
         /\ staffCalls'[c].at = at
         /\ at # "idle" =>
              /\ staffCalls'[c].id = staffCalls[c].id /\ staffCalls'[c].row = staffCalls[c].row
              /\ staffCalls'[c].stale = staffCalls[c].stale /\ staffCalls'[c].tested = staffCalls[c].tested
         /\ \A d \in StaffCalls : d # c =>
              /\ staffCalls'[d].at = staffCalls[d].at /\ staffCalls'[d].id = staffCalls[d].id
              /\ staffCalls'[d].row = staffCalls[d].row /\ staffCalls'[d].tested = staffCalls[d].tested
              /\ staffCalls[d].at # "idle" => staffCalls'[d].stale
<1>1. \A d \in StaffCalls : staffCalls[d] \in StaffCall
  BY StaffTyped
<1>2. /\ staffCalls'[c] \in StaffCall /\ staffCalls'[c].at = at
      /\ at # "idle" =>
              /\ staffCalls'[c].id = staffCalls[c].id /\ staffCalls'[c].row = staffCalls[c].row
              /\ staffCalls'[c].stale = staffCalls[c].stale /\ staffCalls'[c].tested = staffCalls[c].tested
  <2>1. CASE at = "idle"
    BY <2>1, IdleIsCall DEF Leaves
  <2>2. CASE at # "idle"
    <3>1. staffCalls'[c] = [staffCalls[c] EXCEPT !.at = at]
      BY <2>2 DEF Leaves
    <3> QED
      BY <1>1, <3>1 DEF StaffCall
  <2> QED
    BY <2>1, <2>2
<1>3. ASSUME NEW d \in StaffCalls, d # c
      PROVE  /\ staffCalls'[d] \in StaffCall
             /\ staffCalls'[d].at = staffCalls[d].at /\ staffCalls'[d].id = staffCalls[d].id
             /\ staffCalls'[d].row = staffCalls[d].row /\ staffCalls'[d].tested = staffCalls[d].tested
             /\ staffCalls[d].at # "idle" => staffCalls'[d].stale
  <2>1. PICK stale \in BOOLEAN :
          /\ stale <=> staffCalls[d].at # "idle"
          /\ staffCalls'[d] = [staffCalls[d] EXCEPT !.stale = stale]
    <3> DEFINE stale == staffCalls[d].at # "idle"
    <3>1. stale \in BOOLEAN /\ (stale <=> staffCalls[d].at # "idle")
      OBVIOUS
    <3>2. staffCalls'[d] = [staffCalls[d] EXCEPT !.stale = stale]
      BY <1>3 DEF Leaves
    <3> HIDE DEF stale
    <3> QED
      BY <3>1, <3>2
  <2> QED
    BY <1>1, <2>1 DEF StaffCall
<1>4. staffCalls' = [d \in StaffCalls |-> staffCalls'[d]]
  BY DEF Leaves
<1> QED
  BY <1>2, <1>3, <1>4

(* A step of one request: roles stay, nobody becomes unknown, and nobody whom others would insert known. *)
LEMMA StaffMoves ==
  ASSUME StaffInv, NEW c \in StaffCalls,
         NEW at \in {"idle", "insert", "profile", "save", "saveProfile", "setStatus", "retire", "deleteProfile"},
         Leaves(c, at), staffCalls[c].at = "idle" => at = "idle",
         staff' \in [StaffIds -> StaffRow], profiles' \subseteq StaffIds, staffBegun' \in 0 .. MaxStaffCalls,
         untested' \subseteq StaffIds, halved' \subseteq StaffIds,
         \A s \in StaffIds : Known(s) => Known(s)' /\ staff'[s].role = staff[s].role,
         \A s \in StaffIds : ~Known(s) /\ ~(staffCalls[c].at = "insert" /\ s = staffCalls[c].id) => ~Known(s)',
         \A s \in profiles' : Known(s)',
         StaffCallSound(c)', PinIsPersonal', RiderHasProfile'
  PROVE  StaffInv'
<1>1. staffCalls' \in [StaffCalls -> StaffCall]
  BY StaffLeaves
<1>2. StaffTypeOK'
  BY <1>1 DEF StaffTypeOK, StaffCall
<1>3. ASSUME NEW d \in StaffCalls, d # c PROVE StaffCallSound(d)'
  <2>1. /\ staffCalls'[d].at = staffCalls[d].at /\ staffCalls'[d].id = staffCalls[d].id
        /\ staffCalls'[d].row = staffCalls[d].row /\ staffCalls'[d].tested = staffCalls[d].tested
        /\ staffCalls[d].at # "idle" => staffCalls'[d].stale
    BY <1>3, StaffLeaves
  <2>2. StaffCallSound(d)
    BY DEF StaffInv
  <2>3. CASE staffCalls[d].at = "insert"
    <3>1. Inserts(d) /\ staffCalls[d].id \in StaffIds
      BY <2>2, <2>3 DEF StaffCallSound
    <3>2. ~(staffCalls[c].at = "insert" /\ staffCalls[d].id = staffCalls[c].id)
      BY <1>3, <3>1 DEF Inserts
    <3>3. ~Known(staffCalls[d].id)'
      <4>1. ~Known(staffCalls[d].id)
        BY <3>1 DEF Inserts
      <4>2. PICK s \in StaffIds : s = staffCalls[d].id
        BY <3>1
      <4>3. ~Known(s)'
        BY <3>2, <4>1, <4>2
      <4> QED
        BY <2>1, <4>2, <4>3 DEF Known
    <3>4. ASSUME NEW e \in StaffCalls, e # d, staffCalls'[e].at # "idle" PROVE staffCalls'[e].id # staffCalls[d].id
      <4>1. staffCalls[e].at # "idle" => staffCalls[e].id # staffCalls[d].id
        BY <3>1, <3>4 DEF Inserts
      <4>2. CASE e # c
        BY <3>4, <4>1, <4>2, StaffLeaves
      <4>3. CASE e = c
        <5>1. staffCalls'[c].id = staffCalls[c].id /\ staffCalls[c].at # "idle"
          BY <3>4, <4>3, StaffLeaves
        <5> QED
          BY <4>1, <4>3, <5>1
      <4> QED
        BY <4>2, <4>3
    <3>5. Inserts(d)'
      BY <2>1, <2>3, <3>1, <3>3, <3>4 DEF Inserts
    <3> QED
      BY <2>1, <2>3, <3>1, <3>5 DEF StaffCallSound
  <2>4. CASE staffCalls[d].at \notin {"idle", "insert"}
    <3>1. staffCalls[d].id \in StaffIds /\ Known(staffCalls[d].id)
      BY <2>2, <2>4 DEF StaffCallSound
    <3>2. PICK s \in StaffIds : s = staffCalls[d].id /\ staffCalls'[d].id = s
      BY <2>1, <3>1
    <3>3. Known(s)' /\ staff'[s].role = staff[s].role
      BY <3>1, <3>2
    <3>4. Known(staffCalls[d].id)'
      BY <3>2, <3>3 DEF Known
    <3>5. staffCalls[d].at = "save" => Saves(d)'
      BY <2>1, <2>2, <3>2, <3>3 DEF Saves, StaffCallSound
    <3> QED
      BY <2>1, <2>2, <2>4, <3>2, <3>4, <3>5 DEF StaffCallSound
  <2>5. CASE staffCalls[d].at = "idle"
    BY <2>1, <2>5 DEF StaffCallSound
  <2> QED
    BY <2>3, <2>4, <2>5
<1> QED
  BY <1>2, <1>3 DEF StaffInv, StaffRecordsAgree

---------------------------------------------------------------------------
(* Staff: the steps. *)

LEMMA CreateStaff == ASSUME StaffInv, NEW c \in StaffCalls, CreateWaiter(c) \/ CreateRider(c) PROVE StaffInv'
<1>1. PICK s \in StaffIds, row \in StaffRow, tested \in BOOLEAN :
        /\ staff[s].status = "none"
        /\ \A d \in StaffCalls : staffCalls[d].at # "idle" => staffCalls[d].id # s
        /\ Asks(c, "insert", s, row, tested) /\ row.status = "active"
        /\ tested /\ row.pin # NoPin => row.pin \notin TakenPins
  <2>1. CASE CreateWaiter(c)
    <3>1. PICK s \in StaffIds, p \in Pins, r \in StaffRole :
            /\ staff[s].status = "none"
            /\ \A d \in StaffCalls : CallOf(d).at # "idle" => CallOf(d).id # s
            /\ Asks(c, "insert", s, [status |-> "active", role |-> r, pin |-> p], p \notin TakenPins)
      BY <2>1 DEF CreateWaiter
    <3> DEFINE row == [status |-> "active", role |-> r, pin |-> p]
               tested == p \notin TakenPins
    <3>2. row \in StaffRow /\ row.status = "active" /\ row.pin = p
      BY DEF StaffRow
    <3>3. tested \in BOOLEAN /\ (tested => p \notin TakenPins)
      OBVIOUS
    <3>4. Asks(c, "insert", s, row, tested)
      BY <3>1
    <3> HIDE DEF row, tested
    <3> QED
      BY <3>1, <3>2, <3>3, <3>4 DEF CallOf
  <2>2. CASE CreateRider(c)
    <3>1. PICK s \in StaffIds :
            /\ staff[s].status = "none"
            /\ \A d \in StaffCalls : CallOf(d).at # "idle" => CallOf(d).id # s
            /\ Asks(c, "insert", s, [status |-> "active", role |-> "rider", pin |-> NoPin], TRUE)
      BY <2>2 DEF CreateRider
    <3> DEFINE row == [status |-> "active", role |-> "rider", pin |-> NoPin]
    <3>2. row \in StaffRow /\ row.status = "active" /\ row.pin = NoPin
      BY DEF StaffRow, StaffRole
    <3>3. Asks(c, "insert", s, row, TRUE)
      BY <3>1
    <3> HIDE DEF row
    <3> QED
      BY <3>1, <3>2, <3>3 DEF CallOf
  <2> QED
    BY <2>1, <2>2
<1>2. tested /\ row.pin # NoPin => \A t \in StaffIds : Active(t) => staff[t].pin # row.pin
  BY <1>1 DEF TakenPins
<1> QED
  BY <1>1, <1>2, StaffAsks DEF Known

LEMMA EditStaff ==
  ASSUME StaffInv, NEW c \in StaffCalls, EditUser(c) \/ ResetWaiterPin(c) \/ EditRider(c) \/ RemoveRider(c)
  PROVE  StaffInv'
<1>1. CASE EditUser(c)
  <2>1. PICK s \in StaffIds, status \in {"active", "inactive"} :
          Employed(s) /\ Asks(c, "save", s, [staff[s] EXCEPT !.status = status], TRUE)
    BY <1>1 DEF EditUser
  <2>2. PICK row : row = [staff[s] EXCEPT !.status = status]
    OBVIOUS
  <2>3. row \in StaffRow /\ row.status = status /\ row.role = staff[s].role /\ row.pin = staff[s].pin
    BY <2>2, StaffTyped DEF StaffRow
  <2> QED
    BY <2>1, <2>2, <2>3, StaffAsks DEF Known, Employed
<1>2. CASE ResetWaiterPin(c)
  <2>1. PICK s \in StaffIds, p \in Pins :
          Employed(s) /\ Asks(c, "save", s, [staff[s] EXCEPT !.pin = p], FALSE)
    BY <1>2 DEF ResetWaiterPin
  <2>2. PICK row : row = [staff[s] EXCEPT !.pin = p]
    OBVIOUS
  <2>3. row \in StaffRow /\ row.status = staff[s].status /\ row.role = staff[s].role
    BY <2>2, StaffTyped DEF StaffRow
  <2> QED
    BY <2>1, <2>2, <2>3, StaffAsks DEF Known, Employed
<1>3. CASE EditRider(c)
  <2>1. PICK s \in profiles, status \in {"none", "active", "inactive"} :
          Asks(c, "saveProfile", s, [staff[s] EXCEPT !.status = status], TRUE)
    BY <1>3 DEF EditRider
  <2>2. PICK row : row = [staff[s] EXCEPT !.status = status]
    OBVIOUS
  <2>3. s \in StaffIds /\ Known(s) /\ row \in StaffRow
    BY <2>2, StaffTyped DEF StaffRow, StaffInv
  <2> QED
    BY <2>1, <2>2, <2>3, StaffAsks
<1>4. CASE RemoveRider(c)
  <2>1. PICK s \in profiles : Asks(c, "retire", s, NoStaffRow, TRUE)
    BY <1>4 DEF RemoveRider
  <2>2. s \in StaffIds /\ Known(s) /\ NoStaffRow \in StaffRow
    BY StaffTyped DEF StaffRow, NoStaffRow, StaffRole, StaffInv
  <2> QED
    BY <2>1, <2>2, StaffAsks
<1> QED
  BY <1>1, <1>2, <1>3, <1>4

(* Rows of users stay as they are, or fewer of them are active. *)
LEMMA FewerActive ==
  ASSUME StaffInv,
         \A s \in StaffIds : Active(s)' => Active(s) /\ staff'[s] = staff[s],
         \A s \in untested : s \in untested'
  PROVE  PinIsPersonal'
  BY DEF StaffInv, StaffRecordsAgree, PinIsPersonal

(* One row becomes what a request knew: its PIN is nobody else's, or is not compared. *)
LEMMA OneRow ==
  ASSUME StaffInv, NEW s \in StaffIds,
         \A t \in StaffIds : t # s => staff'[t] = staff[t],
         \A t \in untested : t \in untested',
         \/ s \in untested'
         \/ staff'[s].status # "active"
         \/ staff'[s].pin = NoPin
         \/ \A t \in StaffIds : t # s /\ Active(t) => staff[t].pin # staff'[s].pin
         \/ Active(s) /\ staff'[s].pin = staff[s].pin
  PROVE  PinIsPersonal'
<1> SUFFICES ASSUME NEW a \in StaffIds, NEW b \in StaffIds, a # b, Active(a)', Active(b)',
                    staff'[a].pin = staff'[b].pin, staff'[a].pin # NoPin, a \notin untested', b \notin untested'
             PROVE  FALSE
  BY DEF PinIsPersonal
<1>1. PinIsPersonal
  BY DEF StaffInv, StaffRecordsAgree
<1>2. CASE a # s /\ b # s
  BY <1>1, <1>2 DEF PinIsPersonal, Active
<1>3. CASE a = s
  BY <1>1, <1>3 DEF PinIsPersonal, Active
<1>4. CASE b = s
  BY <1>1, <1>4 DEF PinIsPersonal, Active
<1> QED
  BY <1>2, <1>3, <1>4

LEMMA InsertUserStaff == ASSUME StaffInv, NEW c \in StaffCalls, InsertUser(c) PROVE StaffInv'
<1> DEFINE me == staffCalls[c]
           at == IF me.row.role = "rider" THEN "profile" ELSE "idle"
<1>1. /\ me.at = "insert" /\ staffBegun' = staffBegun
      /\ staff' = [staff EXCEPT ![me.id] = me.row]
      /\ untested' = IF me.stale \/ ~me.tested THEN untested \cup {me.id} ELSE untested
      /\ Leaves(c, at)
      /\ UNCHANGED <<profiles, halved>>
  BY DEF InsertUser, Comes, CallOf
<1>2. PICK s \in StaffIds, row \in StaffRow : s = me.id /\ row = me.row
  BY <1>1, StaffTyped DEF StaffInv, StaffCallSound, StaffCall
<1>3. at \in {"profile", "idle"}
  OBVIOUS
<1>4. Inserts(c)
  BY <1>1 DEF StaffInv, StaffCallSound
<1>5. /\ staff'[s] = row /\ row.status = "active" /\ ~Known(s)
      /\ \A t \in StaffIds : t # s => staff'[t] = staff[t]
      /\ staff' \in [StaffIds -> StaffRow]
  BY <1>1, <1>2, <1>4, StaffTyped DEF Inserts
<1>6. untested' \subseteq StaffIds /\ untested \subseteq untested'
  BY <1>1, <1>2, StaffTyped
<1>7. PinIsPersonal'
  <2>1. s \in untested' \/ row.pin = NoPin \/ \A t \in StaffIds : Active(t) => staff[t].pin # row.pin
    BY <1>1, <1>2, <1>4 DEF Inserts
  <2> QED
    BY <1>5, <1>6, <2>1, OneRow
<1>8. /\ staffCalls'[c].at = at /\ (at # "idle" => staffCalls'[c].id = s)
      /\ \A d \in StaffCalls : d # c => staffCalls'[d].at = staffCalls[d].at /\ staffCalls'[d].id = staffCalls[d].id
  BY <1>1, <1>2, <1>3, StaffLeaves
<1>9. RiderHasProfile'
  <2> SUFFICES ASSUME NEW t \in StaffIds, Active(t)', staff'[t].role = "rider", t \notin profiles'
               PROVE  t \in halved' \/ \E d \in StaffCalls : staffCalls'[d].at = "profile" /\ staffCalls'[d].id = t
    BY DEF RiderHasProfile, CallOf
  <2>1. CASE t = s
    BY <1>2, <1>5, <1>8, <2>1
  <2>2. CASE t # s
    <3>1. t \in halved \/ \E d \in StaffCalls : staffCalls[d].at = "profile" /\ staffCalls[d].id = t
      BY <1>1, <1>5, <2>2 DEF StaffInv, StaffRecordsAgree, RiderHasProfile, CallOf, Active
    <3> QED
      BY <1>1, <1>8, <3>1
  <2> QED
    BY <2>1, <2>2
<1>10. StaffCallSound(c)'
  BY <1>3, <1>5, <1>8 DEF StaffCallSound, Known
<1>11. \A t \in StaffIds : Known(t) => Known(t)' /\ staff'[t].role = staff[t].role
  BY <1>5 DEF Known
<1>12. \A t \in StaffIds : ~Known(t) /\ ~(me.at = "insert" /\ t = me.id) => ~Known(t)'
  BY <1>1, <1>2, <1>5 DEF Known
<1>13. \A t \in profiles' : Known(t)'
  BY <1>1, <1>11, StaffTyped DEF StaffInv
<1> QED
  BY <1>1, <1>3, <1>5, <1>6, <1>7, <1>9, <1>10, <1>11, <1>12, <1>13, StaffMoves, StaffTyped

LEMMA SaveUserStaff == ASSUME StaffInv, NEW c \in StaffCalls, SaveUser(c) PROVE StaffInv'
<1> DEFINE me == staffCalls[c]
           revived == me.row.status = "active" /\ ~Active(me.id)
<1>1. /\ me.at = "save" /\ staffBegun' = staffBegun
      /\ staff' = [staff EXCEPT ![me.id] = me.row]
      /\ untested' = IF me.stale \/ revived \/ ~me.tested THEN untested \cup {me.id} ELSE untested
      /\ halved' = IF revived /\ me.row.role = "rider" /\ me.id \notin profiles THEN halved \cup {me.id} ELSE halved
      /\ Leaves(c, "idle")
      /\ UNCHANGED profiles
  BY DEF SaveUser, Comes, CallOf
<1>2. PICK s \in StaffIds, row \in StaffRow : s = me.id /\ row = me.row
  BY <1>1, StaffTyped DEF StaffInv, StaffCallSound, StaffCall
<1>3. Saves(c) /\ Known(s)
  BY <1>1, <1>2 DEF StaffInv, StaffCallSound
<1>4. /\ staff'[s] = row /\ row.status \in {"active", "inactive"} /\ row.role = staff[s].role
      /\ \A t \in StaffIds : t # s => staff'[t] = staff[t]
      /\ staff' \in [StaffIds -> StaffRow]
  BY <1>1, <1>2, <1>3, StaffTyped DEF Saves
<1>5. /\ untested' \subseteq StaffIds /\ untested \subseteq untested'
      /\ halved' \subseteq StaffIds /\ halved \subseteq halved'
  BY <1>1, <1>2, StaffTyped
<1>6. PinIsPersonal'
  <2>1. s \in untested' \/ row.status # "active" \/ (Active(s) /\ row.pin = staff[s].pin)
    BY <1>1, <1>2, <1>3 DEF Saves
  <2> QED
    BY <1>4, <1>5, <2>1, OneRow
<1>7. /\ staffCalls'[c].at = "idle"
      /\ \A d \in StaffCalls : d # c => staffCalls'[d].at = staffCalls[d].at /\ staffCalls'[d].id = staffCalls[d].id
  BY <1>1, StaffLeaves
<1>8. RiderHasProfile'
  <2> SUFFICES ASSUME NEW t \in StaffIds, Active(t)', staff'[t].role = "rider", t \notin profiles'
               PROVE  t \in halved' \/ \E d \in StaffCalls : staffCalls'[d].at = "profile" /\ staffCalls'[d].id = t
    BY DEF RiderHasProfile, CallOf
  <2>1. CASE ~Active(t)
    <3>1. t = s
      BY <1>4, <2>1 DEF Active
    <3> QED
      BY <1>1, <1>2, <1>4, <2>1, <3>1 DEF Active
  <2>2. CASE Active(t)
    <3>1. staff[t].role = "rider" /\ t \notin profiles
      BY <1>1, <1>4
    <3>2. t \in halved \/ \E d \in StaffCalls : staffCalls[d].at = "profile" /\ staffCalls[d].id = t
      BY <2>2, <3>1 DEF StaffInv, StaffRecordsAgree, RiderHasProfile, CallOf
    <3> QED
      BY <1>1, <1>5, <1>7, <3>2
  <2> QED
    BY <2>1, <2>2
<1>9. StaffCallSound(c)'
  BY <1>7 DEF StaffCallSound
<1>10. /\ \A t \in StaffIds : Known(t) => Known(t)' /\ staff'[t].role = staff[t].role
       /\ \A t \in StaffIds : ~Known(t) => ~Known(t)'
  BY <1>3, <1>4 DEF Known
<1>11. \A t \in profiles' : Known(t)'
  BY <1>1, <1>10, StaffTyped DEF StaffInv
<1> QED
  BY <1>1, <1>4, <1>5, <1>6, <1>8, <1>9, <1>10, <1>11, StaffMoves, StaffTyped

(* A rider without a profile is accounted for as before when no row becomes active and no profile goes. *)
LEMMA SameRiders ==
  ASSUME StaffInv, NEW c \in StaffCalls,
         \A s \in StaffIds : Active(s)' => Active(s) /\ staff'[s] = staff[s],
         \A s \in profiles : s \in profiles' \/ s \in halved' \/ ~Active(s),
         \A s \in halved : s \in halved',
         \A d \in StaffCalls : d # c => staffCalls'[d].at = staffCalls[d].at /\ staffCalls'[d].id = staffCalls[d].id,
         staffCalls[c].at = "profile" =>
           \/ staffCalls[c].id \in profiles' \/ staffCalls[c].id \in halved'
           \/ staffCalls'[c].at = "profile" /\ staffCalls'[c].id = staffCalls[c].id
  PROVE  RiderHasProfile'
<1> SUFFICES ASSUME NEW t \in StaffIds, Active(t)', staff'[t].role = "rider", t \notin profiles'
             PROVE  t \in halved' \/ \E d \in StaffCalls : staffCalls'[d].at = "profile" /\ staffCalls'[d].id = t
  BY DEF RiderHasProfile, CallOf
<1>1. Active(t) /\ staff[t].role = "rider"
  OBVIOUS
<1>2. CASE t \in profiles
  BY <1>1, <1>2
<1>3. CASE t \notin profiles
  <2>1. t \in halved \/ \E d \in StaffCalls : staffCalls[d].at = "profile" /\ staffCalls[d].id = t
    BY <1>1, <1>3 DEF StaffInv, StaffRecordsAgree, RiderHasProfile, CallOf
  <2> QED
    BY <2>1
<1> QED
  BY <1>2, <1>3

LEMMA InsertProfileStaff ==
  ASSUME StaffInv, NEW c \in StaffCalls, InsertProfile(c) \/ SaveProfile(c)
  PROVE  StaffInv'
<1> DEFINE me == staffCalls[c]
<1>1. PICK at \in {"idle", "setStatus"} :
        /\ me.at \in {"profile", "saveProfile"} /\ staffBegun' = staffBegun
        /\ profiles' = profiles \cup {me.id}
        /\ Leaves(c, at) /\ (at = "setStatus" => me.row.status # "none")
        /\ UNCHANGED <<staff, untested, halved>>
  <2>1. CASE InsertProfile(c)
    BY <2>1 DEF InsertProfile, Comes, CallOf
  <2>2. CASE SaveProfile(c)
    BY <2>2 DEF SaveProfile, Comes, CallOf
  <2> QED
    BY <2>1, <2>2
<1>2. me.id \in StaffIds /\ Known(me.id)
  BY <1>1 DEF StaffInv, StaffCallSound
<1>3. /\ staffCalls'[c].at = at /\ (at # "idle" => staffCalls'[c].id = me.id /\ staffCalls'[c].row = me.row)
      /\ \A d \in StaffCalls : d # c => staffCalls'[d].at = staffCalls[d].at /\ staffCalls'[d].id = staffCalls[d].id
  BY <1>1, StaffLeaves
<1>4. StaffCallSound(c)'
  BY <1>1, <1>2, <1>3 DEF StaffCallSound, Known
<1>5. PinIsPersonal'
  BY <1>1, FewerActive DEF Active
<1>6. RiderHasProfile'
  BY <1>1, <1>3, SameRiders DEF Active
<1>7. /\ \A t \in StaffIds : Known(t) => Known(t)' /\ staff'[t].role = staff[t].role
      /\ \A t \in StaffIds : ~Known(t) => ~Known(t)'
      /\ \A t \in profiles' : Known(t)'
  BY <1>1, <1>2 DEF Known, StaffInv
<1> QED
  BY <1>1, <1>2, <1>4, <1>5, <1>6, <1>7, StaffMoves, StaffTyped

(* A row becomes inactive or is removed; a request that goes on is as sound as before. *)
LEMMA RowEnds ==
  ASSUME StaffInv, NEW c \in StaffCalls,
         NEW at \in {"idle", "insert", "profile", "save", "saveProfile", "setStatus", "retire", "deleteProfile"},
         Leaves(c, at), at = staffCalls[c].at \/ (staffCalls[c].at = "retire" /\ at = "deleteProfile"),
         staffBegun' \in 0 .. MaxStaffCalls, UNCHANGED <<profiles, untested, halved>>,
         NEW s \in StaffIds, NEW status \in {"inactive", "removed"},
         (Employed(s) /\ staff' = [staff EXCEPT ![s].status = status]) \/ (staff' = staff /\ ~Active(s)),
         at = staffCalls[c].at \/ s = staffCalls[c].id
  PROVE  StaffInv'
<1>1. /\ staff' \in [StaffIds -> StaffRow] /\ ~Active(s)' /\ (Known(s) <=> Known(s)')
      /\ \A t \in StaffIds : t # s => staff'[t] = staff[t]
      /\ \A t \in StaffIds : staff'[t].role = staff[t].role /\ staff'[t].pin = staff[t].pin
      /\ \A t \in StaffIds : Active(t)' => Active(t) /\ staff'[t] = staff[t]
  <2>1. CASE staff' = staff /\ ~Active(s)
    BY <2>1, StaffTyped DEF Active, Known
  <2>2. CASE Employed(s) /\ staff' = [staff EXCEPT ![s].status = status]
    <3>1. PICK row : row = [staff[s] EXCEPT !.status = status]
      OBVIOUS
    <3>2. row \in StaffRow /\ row.status = status /\ row.role = staff[s].role /\ row.pin = staff[s].pin
      BY <3>1, StaffTyped DEF StaffRow
    <3>3. staff'[s] = row /\ staff' \in [StaffIds -> StaffRow] /\ \A t \in StaffIds : t # s => staff'[t] = staff[t]
      BY <2>2, <3>1, <3>2, StaffTyped
    <3> QED
      BY <2>2, <3>2, <3>3 DEF Active, Known, Employed
  <2> QED
    BY <2>1, <2>2
<1>2. /\ staffCalls'[c].at = at
      /\ at # "idle" =>
           /\ staffCalls'[c].id = staffCalls[c].id /\ staffCalls'[c].row = staffCalls[c].row
           /\ staffCalls'[c].stale = staffCalls[c].stale /\ staffCalls'[c].tested = staffCalls[c].tested
      /\ \A d \in StaffCalls : d # c => staffCalls'[d].at = staffCalls[d].at /\ staffCalls'[d].id = staffCalls[d].id
  BY StaffLeaves
<1>3. /\ \A t \in StaffIds : Known(t) => Known(t)' /\ staff'[t].role = staff[t].role
      /\ \A t \in StaffIds : ~Known(t) => ~Known(t)'
      /\ \A t \in profiles' : Known(t)'
  <2>1. \A t \in StaffIds : Known(t) <=> Known(t)'
    BY <1>1 DEF Known
  <2> QED
    BY <1>1, <2>1, StaffTyped DEF StaffInv
<1>4. PinIsPersonal'
  BY <1>1, FewerActive
<1>5. RiderHasProfile'
  BY <1>1, <1>2, SameRiders
<1>6. StaffCallSound(c)'
  <2>1. StaffCallSound(c)
    BY DEF StaffInv
  <2>2. CASE at = "idle"
    BY <1>2, <2>2 DEF StaffCallSound
  <2>3. CASE at # "idle"
    <3>1. PICK k \in StaffIds : k = staffCalls[c].id /\ staffCalls'[c].id = k
      BY <1>2, <2>1, <2>3 DEF StaffCallSound
    <3>2. at # "insert" => Known(k) /\ Known(k)'
      BY <1>3, <2>1, <2>3, <3>1 DEF StaffCallSound
    <3>3. at = "insert" => Inserts(c)'
      <4> SUFFICES ASSUME at = "insert" PROVE Inserts(c)'
        OBVIOUS
      <4>1. Inserts(c) /\ ~Known(k)
        BY <2>1, <2>3, <3>1 DEF StaffCallSound, Inserts
      <4>2. ~Known(k)'
        BY <1>3, <4>1
      <4> QED
        BY <1>1, <1>2, <2>3, <3>1, <4>1, <4>2 DEF Inserts, Known
    <3>4. at = "save" => Saves(c)'
      BY <1>1, <1>2, <2>1, <2>3, <3>1 DEF Saves, StaffCallSound, Active
    <3>5. at = "deleteProfile" /\ ~staffCalls'[c].stale => ~Active(k)'
      BY <1>1, <1>2, <2>1, <2>3, <3>1 DEF StaffCallSound
    <3> QED
      BY <1>2, <2>1, <2>3, <3>1, <3>2, <3>3, <3>4, <3>5 DEF StaffCallSound, Known, Active
  <2> QED
    BY <2>2, <2>3
<1> QED
  BY <1>1, <1>3, <1>4, <1>5, <1>6, StaffMoves, StaffTyped

LEMMA RemoveUserStaff == ASSUME StaffInv, NEW c \in StaffCalls, RemoveUser(c) PROVE StaffInv'
<1>1. PICK s \in StaffIds : Employed(s) /\ staff' = [staff EXCEPT ![s].status = "removed"]
  BY DEF RemoveUser
<1>2. /\ staffBegun < MaxStaffCalls /\ staffBegun' = staffBegun + 1
      /\ Leaves(c, staffCalls[c].at) /\ UNCHANGED <<profiles, untested, halved>>
  BY DEF RemoveUser
<1>3. staffBegun' \in 0 .. MaxStaffCalls
  BY <1>2, StaffTyped, StaffAssumption
<1>4. staffCalls[c].at \in
        {"idle", "insert", "profile", "save", "saveProfile", "setStatus", "retire", "deleteProfile"}
  BY StaffTyped DEF StaffCall
<1>5. PICK at \in {"idle", "insert", "profile", "save", "saveProfile", "setStatus", "retire", "deleteProfile"} :
        at = staffCalls[c].at /\ Leaves(c, at)
  BY <1>2, <1>4
<1>6. PICK status \in {"inactive", "removed"} : staff' = [staff EXCEPT ![s].status = status]
  BY <1>1
<1> QED
  BY <1>1, <1>2, <1>3, <1>5, <1>6, RowEnds

LEMMA DeactivateRiderStaff == ASSUME StaffInv, NEW c \in StaffCalls, DeactivateRider(c) PROVE StaffInv'
<1>1. /\ staffCalls[c].at = "retire" /\ staffBegun' = staffBegun
      /\ staff' = Retired(staffCalls[c].id) /\ Leaves(c, "deleteProfile")
      /\ UNCHANGED <<profiles, untested, halved>>
  BY DEF DeactivateRider, Comes, CallOf
<1>2. PICK s \in StaffIds : s = staffCalls[c].id
  BY <1>1 DEF StaffInv, StaffCallSound
<1>3. \/ Employed(s) /\ staff' = [staff EXCEPT ![s].status = "inactive"]
      \/ staff' = staff /\ ~Active(s)
  BY <1>1, <1>2 DEF Retired, Employed, Active
<1>4. PICK status \in {"inactive", "removed"} : status = "inactive"
  OBVIOUS
<1>5. PICK at \in {"idle", "insert", "profile", "save", "saveProfile", "setStatus", "retire", "deleteProfile"} :
        at = "deleteProfile"
  OBVIOUS
<1>6. (Employed(s) /\ staff' = [staff EXCEPT ![s].status = status]) \/ (staff' = staff /\ ~Active(s))
  BY <1>3, <1>4
<1>7. Leaves(c, at) /\ staffCalls[c].at = "retire" /\ staffBegun' \in 0 .. MaxStaffCalls
  BY <1>1, <1>5, StaffTyped
<1> QED
  BY <1>1, <1>2, <1>5, <1>6, <1>7, RowEnds

LEMMA SetRiderStatusStaff == ASSUME StaffInv, NEW c \in StaffCalls, SetRiderStatus(c) PROVE StaffInv'
<1> DEFINE me == staffCalls[c]
<1>1. /\ me.at = "setStatus" /\ staffBegun' = staffBegun
      /\ staff' = IF Employed(me.id) THEN [staff EXCEPT ![me.id].status = me.row.status] ELSE staff
      /\ untested' = untested \cup {me.id}
      /\ halved' = IF me.id \notin profiles THEN halved \cup {me.id} ELSE halved
      /\ Leaves(c, "idle")
      /\ UNCHANGED profiles
  BY DEF SetRiderStatus, Comes, CallOf
<1>2. PICK s \in StaffIds, row \in StaffRow : s = me.id /\ row = me.row /\ row.status # "none"
  BY <1>1, StaffTyped DEF StaffInv, StaffCallSound, StaffCall
<1>3. Known(s)
  BY <1>1, <1>2 DEF StaffInv, StaffCallSound
<1>4. /\ staff' \in [StaffIds -> StaffRow] /\ staff'[s].role = staff[s].role /\ Known(s)'
      /\ \A t \in StaffIds : t # s => staff'[t] = staff[t]
  <2>1. CASE Employed(s)
    <3>1. PICK new : new = [staff[s] EXCEPT !.status = row.status]
      OBVIOUS
    <3>2. new \in StaffRow /\ new.status = row.status /\ new.role = staff[s].role
      BY <3>1, StaffTyped DEF StaffRow
    <3> QED
      BY <1>1, <1>2, <2>1, <3>1, <3>2, StaffTyped DEF Known
  <2>2. CASE ~Employed(s)
    BY <1>1, <1>2, <1>3, <2>2, StaffTyped DEF Known
  <2> QED
    BY <2>1, <2>2
<1>5. /\ untested' \subseteq StaffIds /\ untested \subseteq untested' /\ s \in untested'
      /\ halved' \subseteq StaffIds /\ halved \subseteq halved' /\ (s \in profiles \/ s \in halved')
  BY <1>1, <1>2, StaffTyped
<1>6. PinIsPersonal'
  BY <1>4, <1>5, OneRow
<1>7. /\ staffCalls'[c].at = "idle"
      /\ \A d \in StaffCalls : d # c => staffCalls'[d].at = staffCalls[d].at /\ staffCalls'[d].id = staffCalls[d].id
  BY <1>1, StaffLeaves
<1>8. RiderHasProfile'
  <2> SUFFICES ASSUME NEW t \in StaffIds, Active(t)', staff'[t].role = "rider", t \notin profiles'
               PROVE  t \in halved' \/ \E d \in StaffCalls : staffCalls'[d].at = "profile" /\ staffCalls'[d].id = t
    BY DEF RiderHasProfile, CallOf
  <2>1. CASE t = s
    BY <1>1, <1>5, <2>1
  <2>2. CASE t # s
    <3>1. t \in halved \/ \E d \in StaffCalls : staffCalls[d].at = "profile" /\ staffCalls[d].id = t
      BY <1>1, <1>4, <2>2 DEF StaffInv, StaffRecordsAgree, RiderHasProfile, CallOf, Active
    <3> QED
      BY <1>1, <1>5, <1>7, <3>1
  <2> QED
    BY <2>1, <2>2
<1>9. StaffCallSound(c)'
  BY <1>7 DEF StaffCallSound
<1>10. /\ \A t \in StaffIds : Known(t) => Known(t)' /\ staff'[t].role = staff[t].role
       /\ \A t \in StaffIds : ~Known(t) => ~Known(t)'
  BY <1>3, <1>4 DEF Known
<1>11. \A t \in profiles' : Known(t)'
  BY <1>1, <1>10, StaffTyped DEF StaffInv
<1> QED
  BY <1>1, <1>4, <1>5, <1>6, <1>8, <1>9, <1>10, <1>11, StaffMoves, StaffTyped

LEMMA DeleteProfileStaff == ASSUME StaffInv, NEW c \in StaffCalls, DeleteProfile(c) PROVE StaffInv'
<1> DEFINE me == staffCalls[c]
<1>1. /\ me.at = "deleteProfile" /\ staffBegun' = staffBegun
      /\ profiles' = profiles \ {me.id}
      /\ halved' = IF me.stale THEN halved \cup {me.id} ELSE halved
      /\ Leaves(c, "idle")
      /\ UNCHANGED <<staff, untested>>
  BY DEF DeleteProfile, Comes, CallOf
<1>2. /\ me.id \in StaffIds /\ (me.stale \/ ~Active(me.id))
  BY <1>1 DEF StaffInv, StaffCallSound
<1>3. /\ staffCalls'[c].at = "idle"
      /\ \A d \in StaffCalls : d # c => staffCalls'[d].at = staffCalls[d].at /\ staffCalls'[d].id = staffCalls[d].id
  BY <1>1, StaffLeaves
<1>4. StaffCallSound(c)'
  BY <1>3 DEF StaffCallSound
<1>5. PinIsPersonal'
  BY <1>1, FewerActive DEF Active
<1>6. RiderHasProfile'
  BY <1>1, <1>2, <1>3, SameRiders DEF Active
<1>7. /\ \A t \in StaffIds : Known(t) => Known(t)' /\ staff'[t].role = staff[t].role
      /\ \A t \in StaffIds : ~Known(t) => ~Known(t)'
      /\ \A t \in profiles' : Known(t)'
  BY <1>1 DEF Known, StaffInv
<1> QED
  BY <1>1, <1>2, <1>4, <1>5, <1>6, <1>7, StaffMoves, StaffTyped

(* A request that is cut leaves its row behind; a rider whose profile was to come is half there. *)
LEMMA CutStaff == ASSUME StaffInv, NEW c \in StaffCalls, CutStaffCall(c) PROVE StaffInv'
<1>1. /\ UNCHANGED staffBegun
      /\ halved' = IF staffCalls[c].at = "profile" THEN halved \cup {staffCalls[c].id} ELSE halved
      /\ staffCalls' = [staffCalls EXCEPT ![c] = IdleStaffCall]
      /\ UNCHANGED <<staff, profiles, untested>>
  BY DEF CutStaffCall, CallOf
<1>2. /\ staffCalls' \in [StaffCalls -> StaffCall] /\ staffCalls'[c].at = "idle"
      /\ \A d \in StaffCalls : d # c => staffCalls'[d] = staffCalls[d]
  BY <1>1, IdleIsCall, StaffTyped
<1>3. halved' \subseteq StaffIds
  BY <1>1, StaffTyped DEF StaffInv, StaffCallSound
<1>4. StaffTypeOK'
  BY <1>1, <1>2, <1>3, StaffTyped DEF StaffTypeOK, StaffCall
<1>5. ASSUME NEW d \in StaffCalls PROVE StaffCallSound(d)'
  <2>1. CASE d = c
    BY <1>2, <2>1 DEF StaffCallSound
  <2>2. CASE d # c
    <3>1. StaffCallSound(d) /\ staffCalls'[d] = staffCalls[d]
      BY <1>2, <2>2 DEF StaffInv
    <3>2. Inserts(d) => Inserts(d)'
      BY <1>1, <1>2, <3>1 DEF Inserts, Known, Active
    <3> QED
      BY <1>1, <3>1, <3>2 DEF StaffCallSound, Saves, Known, Active
  <2> QED
    BY <2>1, <2>2
<1>6. PinIsPersonal'
  BY <1>1, FewerActive DEF Active
<1>7. RiderHasProfile'
  BY <1>1, <1>2, SameRiders DEF Active
<1> QED
  BY <1>1, <1>4, <1>5, <1>6, <1>7 DEF StaffInv, StaffRecordsAgree, Known

---------------------------------------------------------------------------
(* Staff: the theorems. *)

LEMMA StaffStep == ASSUME StaffInv, [StaffNext]_staffVars PROVE StaffInv'
<1>1. CASE UNCHANGED staffVars
  <2>1. StaffTypeOK'
    BY <1>1 DEF StaffInv, StaffTypeOK, staffVars
  <2>2. \A d \in StaffCalls : StaffCallSound(d)'
    BY <1>1 DEF StaffInv, StaffCallSound, Inserts, Saves, Known, Active, staffVars
  <2>3. StaffRecordsAgree'
    BY <1>1 DEF StaffInv, StaffRecordsAgree, PinIsPersonal, RiderHasProfile, Active, CallOf, staffVars
  <2> QED
    BY <1>1, <2>1, <2>2, <2>3 DEF StaffInv, Known, staffVars
<1>2. CASE StaffNext
  <2>1. PICK c \in StaffCalls :
          \/ CreateWaiter(c) \/ CreateRider(c) \/ InsertUser(c) \/ InsertProfile(c)
          \/ EditUser(c) \/ ResetWaiterPin(c) \/ SaveUser(c) \/ RemoveUser(c)
          \/ EditRider(c) \/ SaveProfile(c) \/ SetRiderStatus(c)
          \/ RemoveRider(c) \/ DeactivateRider(c) \/ DeleteProfile(c) \/ CutStaffCall(c)
    BY <1>2 DEF StaffNext
  <2> QED
    BY <2>1, CreateStaff, EditStaff, InsertUserStaff, InsertProfileStaff, SaveUserStaff, RemoveUserStaff,
       SetRiderStatusStaff, DeactivateRiderStaff, DeleteProfileStaff, CutStaff
<1> QED
  BY <1>1, <1>2

(* The invariant of the staff holds in every reachable state, of user.service.ts and rider.service.ts. *)
THEOREM StaffInvariant == StaffSpec => []StaffInv
  BY StaffInitial, StaffStep, PTL DEF StaffSpec

(* Rows and requests of user.service.ts and rider.service.ts keep their types. *)
THEOREM StaffTypeCorrect == StaffSpec => []StaffTypeOK
<1>1. StaffInv => StaffTypeOK
  BY DEF StaffInv
<1> QED
  BY <1>1, StaffInvariant, PTL

(* Two of the active staff share no PIN and an active rider has a profile, but for what untested and halved *)
(* record (createWaiter, resetWaiterPin, update, and the riders' create and remove).                        *)
THEOREM StaffRecordsAgreeAlways == StaffSpec => []StaffRecordsAgree
<1>1. StaffInv => StaffRecordsAgree
  BY DEF StaffInv
<1> QED
  BY <1>1, StaffInvariant, PTL

---------------------------------------------------------------------------
(* Roles: the inductive invariant. *)

Server == [at: {"idle", "insert", "find", "save", "create"}, release: SUBSET Codes, todo: SUBSET (Codes \cup RoleNames)]

(* An instance has inserted what its release needs before it looks for roles, and has found or made those *)
(* it no longer has to look for.                                                                          *)
ServerSound(i) ==
  LET q == servers[i]
  IN /\ q.at \in {"insert", "find", "save"} => OldCodes \subseteq q.release
     /\ q.at = "insert" => q.todo \subseteq Codes /\ q.release \subseteq permissions \cup q.todo
     /\ q.at \in {"find", "save"} =>
          /\ q.release \subseteq permissions /\ q.todo \subseteq RoleNames
          /\ \A n \in RoleNames \ q.todo : RolesNamed(n) # {}
     /\ q.at = "save" => q.todo # {}
     /\ q.at = "create" => q.todo # {} /\ q.todo \subseteq RoleNames /\ permissions # {}

RoleInv ==
  /\ RoleTypeOK
  /\ IsFiniteSet(roles)
  /\ permissions = {} \/ OldCodes \subseteq permissions
  /\ \A i \in Servers : ServerSound(i)
  /\ seeded => \A n \in RoleNames : RolesNamed(n) # {}
  /\ \A r \in roles : r.name \notin EditedNames => CodesOf[r.name] \cap OldCodes \subseteq r.codes
  /\ edited \subseteq roles
  /\ \A r, t \in roles : r.name = t.name /\ r # t => r.name \in twice

LEMMA RoleTyped ==
  ASSUME RoleInv
  PROVE  /\ permissions \subseteq Codes /\ roles \subseteq RoleRow
         /\ servers \in [Servers -> Server] /\ seeded \in BOOLEAN
         /\ edited \subseteq RoleRow /\ twice \subseteq RoleNames /\ roleCalls \in 0 .. MaxRoleCalls
  BY DEF RoleInv, RoleTypeOK, Server

LEMMA IdleIsServer == IdleServer \in Server /\ IdleServer.at = "idle"
  BY DEF IdleServer, Server

LEMMA RoleInitial == RoleInit => RoleInv
<1> SUFFICES ASSUME RoleInit PROVE RoleInv
  OBVIOUS
<1>1. servers \in [Servers -> Server] /\ \A i \in Servers : servers[i].at = "idle"
  BY IdleIsServer DEF RoleInit
<1>2. RoleTypeOK
  <2>1. roleCalls \in 0 .. MaxRoleCalls
    BY RoleAssumption DEF RoleInit
  <2>2. permissions = {} /\ roles = {} /\ edited = {} /\ twice = {}
    BY DEF RoleInit
  <2>3. seeded \in BOOLEAN
    BY Zenon DEF RoleInit
  <2> QED
    BY <1>1, <2>1, <2>2, <2>3 DEF RoleTypeOK, Server
<1>3. \A i \in Servers : ServerSound(i)
  BY <1>1 DEF ServerSound
<1>4. IsFiniteSet(roles)
  BY FS_EmptySet DEF RoleInit
<1> QED
  BY <1>2, <1>3, <1>4 DEF RoleInit, RoleInv

---------------------------------------------------------------------------
(* Roles: the steps. *)

(* One instance goes on; permissions and roles may only be added to, and the new ones are right. *)
LEMMA ServerMoves ==
  ASSUME RoleInv, NEW i \in Servers, NEW q \in Server, servers' = [servers EXCEPT ![i] = q],
         permissions \subseteq permissions', permissions' \subseteq Codes,
         permissions' = {} \/ OldCodes \subseteq permissions',
         roles \subseteq roles', roles' \subseteq RoleRow, IsFiniteSet(roles'),
         seeded' \in BOOLEAN, twice \subseteq twice', twice' \subseteq RoleNames, edited' = edited,
         roleCalls' \in 0 .. MaxRoleCalls, ServerSound(i)',
         seeded' => seeded \/ \A n \in RoleNames : RolesNamed(n) # {},
         \A r \in roles' : r \in roles \/ (r.name \notin EditedNames => CodesOf[r.name] \cap OldCodes \subseteq r.codes),
         \A r, t \in roles' : r.name = t.name /\ r # t => (r \in roles /\ t \in roles) \/ r.name \in twice'
  PROVE  RoleInv'
<1>1. /\ servers' \in [Servers -> Server] /\ servers'[i] = q
      /\ \A j \in Servers : j # i => servers'[j] = servers[j]
  BY RoleTyped
<1>2. RoleTypeOK'
  BY <1>1, RoleTyped DEF RoleTypeOK, Server
<1>3. \A n : RolesNamed(n) \subseteq RolesNamed(n)'
  BY DEF RolesNamed
<1>4. ASSUME NEW j \in Servers PROVE ServerSound(j)'
  <2>1. CASE j = i
    BY <2>1
  <2>2. CASE j # i
    <3>1. ServerSound(j) /\ servers'[j] = servers[j]
      BY <1>1, <2>2 DEF RoleInv
    <3>2. \A n : RolesNamed(n) # {} => RolesNamed(n)' # {}
      BY <1>3
    <3> QED
      BY <3>1, <3>2 DEF ServerSound
  <2> QED
    BY <2>1, <2>2
<1>5. seeded' => \A n \in RoleNames : RolesNamed(n)' # {}
  BY <1>3 DEF RoleInv
<1>6. \A r \in roles' : r.name \notin EditedNames' => CodesOf[r.name] \cap OldCodes \subseteq r.codes
  BY DEF RoleInv, EditedNames
<1>7. \A r, t \in roles' : r.name = t.name /\ r # t => r.name \in twice'
  BY DEF RoleInv
<1> QED
  BY <1>2, <1>4, <1>5, <1>6, <1>7 DEF RoleInv

LEMMA MoreRoleCalls ==
  ASSUME RoleInv, NEW i \in Servers, BeginRoleCall(i)
  PROVE  roleCalls' \in 0 .. MaxRoleCalls
  BY RoleAssumption, RoleTyped DEF BeginRoleCall

(* Nothing but the server, the ready flag and the count of the calls changes. *)
LEMMA ServerOnly ==
  ASSUME RoleInv, NEW i \in Servers, NEW q \in Server, servers' = [servers EXCEPT ![i] = q],
         UNCHANGED <<permissions, roles, edited, twice>>, roleCalls' \in 0 .. MaxRoleCalls,
         seeded' \in BOOLEAN, seeded' => seeded \/ \A n \in RoleNames : RolesNamed(n) # {},
         ServerSound(i)'
  PROVE  RoleInv'
  BY ServerMoves, RoleTyped DEF RoleInv

LEMMA ServerIdle ==
  ASSUME RoleInv, NEW i \in Servers, servers' = [servers EXCEPT ![i] = IdleServer]
  PROVE  ServerSound(i)'
<1>1. servers'[i] = IdleServer
  BY RoleTyped
<1> QED
  BY <1>1, IdleIsServer DEF ServerSound

LEMMA BootstrapRoles == ASSUME RoleInv, NEW i \in Servers, Bootstrap(i) PROVE RoleInv'
<1>1. PICK release \in {OldCodes, Codes} :
        servers' = [servers EXCEPT ![i] = [at |-> "insert", release |-> release, todo |-> Missing(release)]]
  BY DEF Bootstrap
<1>2. seeded' = FALSE /\ UNCHANGED <<permissions, roles, edited, twice>> /\ BeginRoleCall(i)
  BY DEF Bootstrap
<1> DEFINE q == [at |-> "insert", release |-> release, todo |-> Missing(release)]
<1>3. /\ q \in Server /\ q.at = "insert" /\ q.release = release /\ q.todo \subseteq Codes
      /\ release \subseteq permissions \cup q.todo /\ OldCodes \subseteq release
  BY RoleAssumption DEF Server, Missing
<1>4. servers' = [servers EXCEPT ![i] = q]
  BY <1>1
<1> HIDE DEF q
<1>5. servers'[i] = q
  BY <1>4, RoleTyped
<1>6. ServerSound(i)'
  BY <1>2, <1>3, <1>5 DEF ServerSound
<1> QED
  BY <1>2, <1>3, <1>4, <1>6, MoreRoleCalls, ServerOnly

LEMMA InsertPermissionsRoles == ASSUME RoleInv, NEW i \in Servers, InsertPermissions(i) PROVE RoleInv'
<1> DEFINE me == servers[i]
<1>1. /\ me.at = "insert" /\ roleCalls' = roleCalls /\ UNCHANGED <<roles, seeded, edited, twice>>
      /\ IF me.todo \cap permissions = {}
         THEN /\ permissions' = permissions \cup me.todo
              /\ servers' = [servers EXCEPT ![i].at = "find", ![i].todo = RolesToEnsure]
         ELSE servers' = [servers EXCEPT ![i] = IdleServer] /\ UNCHANGED permissions
  BY DEF InsertPermissions, DoingAt
<1>2. /\ OldCodes \subseteq me.release /\ me.todo \subseteq Codes /\ me.release \subseteq permissions \cup me.todo
  BY <1>1 DEF RoleInv, ServerSound
<1>3. CASE me.todo \cap permissions = {}
  <2>1. PICK q : q = [me EXCEPT !.at = "find", !.todo = RoleNames]
    OBVIOUS
  <2>2. q \in Server /\ q.at = "find" /\ q.release = me.release /\ q.todo = RoleNames
    BY <2>1, RoleTyped DEF Server
  <2>3. servers' = [servers EXCEPT ![i] = q]
    BY <1>1, <1>3, <2>1, RoleTyped DEF RolesToEnsure
  <2>4. permissions' = permissions \cup me.todo /\ permissions' \subseteq Codes /\ OldCodes \subseteq permissions'
    BY <1>1, <1>2, <1>3, RoleTyped
  <2>5. ServerSound(i)'
    <3>1. servers'[i] = q
      BY <2>3, RoleTyped
    <3> QED
      BY <1>2, <2>2, <2>4, <3>1 DEF ServerSound
  <2> QED
    BY <1>1, <2>2, <2>3, <2>4, <2>5, ServerMoves, RoleTyped DEF RoleInv
<1>4. CASE me.todo \cap permissions # {}
  BY <1>1, <1>4, IdleIsServer, ServerIdle, ServerOnly, RoleTyped
<1> QED
  BY <1>3, <1>4

LEMMA FindRoles == ASSUME RoleInv, NEW i \in Servers, FindRole(i) PROVE RoleInv'
<1> DEFINE me == servers[i]
<1>1. PICK n : n = NextName(i)
  OBVIOUS
<1>2. /\ me.at = "find" /\ roleCalls' = roleCalls /\ me.todo # {}
      /\ servers' = IF RolesNamed(n) # {} THEN [servers EXCEPT ![i].todo = @ \ {n}]
                    ELSE [servers EXCEPT ![i].at = "save"]
      /\ UNCHANGED <<permissions, roles, seeded, edited, twice>>
  BY <1>1 DEF FindRole, DoingAt
<1>3. ServerSound(i) /\ me \in Server
  BY RoleTyped DEF RoleInv
<1>4. PICK q : q = IF RolesNamed(n) # {} THEN [me EXCEPT !.todo = @ \ {n}] ELSE [me EXCEPT !.at = "save"]
  OBVIOUS
<1>5. servers' = [servers EXCEPT ![i] = q]
  BY <1>2, <1>4, RoleTyped
<1>6. /\ q \in Server /\ q.release = me.release
      /\ \/ RolesNamed(n) # {} /\ q.at = "find" /\ q.todo = me.todo \ {n}
         \/ q.at = "save" /\ q.todo = me.todo
  BY <1>2, <1>3, <1>4 DEF Server
<1>7. servers'[i] = q
  BY <1>5, RoleTyped
<1>8. ServerSound(i)'
  BY <1>2, <1>3, <1>6, <1>7 DEF ServerSound, RolesNamed
<1> QED
  BY <1>2, <1>5, <1>6, <1>8, ServerOnly, RoleTyped

(* A role that is created is the first of its name, or the name is noted as created twice. *)
LEMMA CreatesRole ==
  ASSUME RoleInv, NEW i \in Servers, NEW n \in RoleNames, NEW codes \in SUBSET Codes, CreateRole(i, n, codes),
         CodesOf[n] \cap OldCodes \subseteq codes \cap permissions
  PROVE  /\ roles \subseteq roles' /\ roles' \subseteq RoleRow /\ IsFiniteSet(roles') /\ RolesNamed(n)' # {}
         /\ twice \subseteq twice' /\ twice' \subseteq RoleNames
         /\ \A r \in roles' : r \in roles \/ CodesOf[r.name] \cap OldCodes \subseteq r.codes
         /\ \A r, t \in roles' : r.name = t.name /\ r # t => (r \in roles /\ t \in roles) \/ r.name \in twice'
<1> DEFINE new == [name |-> n, number |-> Cardinality(RolesNamed(n)), codes |-> codes \cap permissions]
<1>1. Cardinality(RolesNamed(n)) \in Nat
  BY FS_Subset, FS_CardinalityType DEF RolesNamed, RoleInv
<1>2. new \in RoleRow /\ new.name = n /\ new.codes = codes \cap permissions
  BY <1>1, RoleTyped DEF RoleRow
<1>3. roles' = roles \cup {new} /\ twice' = IF RolesNamed(n) # {} THEN twice \cup {n} ELSE twice
  BY DEF CreateRole
<1> HIDE DEF new
<1>4. IsFiniteSet(roles')
  BY <1>3, FS_AddElement DEF RoleInv
<1>5. RolesNamed(n)' # {}
  BY <1>2, <1>3 DEF RolesNamed
<1>6. ASSUME NEW r \in roles', NEW t \in roles', r.name = t.name, r # t, r \notin roles \/ t \notin roles
      PROVE  r.name \in twice'
  <2>1. r.name = n /\ (r \in roles \/ t \in roles)
    BY <1>2, <1>3, <1>6
  <2>2. RolesNamed(n) # {}
    BY <1>6, <2>1 DEF RolesNamed
  <2> QED
    BY <1>3, <2>1, <2>2
<1> QED
  BY <1>2, <1>3, <1>4, <1>5, <1>6, RoleTyped

LEMMA SaveRoles == ASSUME RoleInv, NEW i \in Servers, SaveRole(i) PROVE RoleInv'
<1> DEFINE me == servers[i]
<1>1. PICK n : n = NextName(i)
  OBVIOUS
<1>2. /\ me.at = "save" /\ roleCalls' = roleCalls
      /\ CreateRole(i, n, CodesOf[n] \cap me.release)
      /\ servers' = [servers EXCEPT ![i].at = "find", ![i].todo = @ \ {n}]
      /\ UNCHANGED <<permissions, seeded, edited>>
  BY <1>1 DEF SaveRole, DoingAt
<1>3. ServerSound(i) /\ me \in Server
  BY RoleTyped DEF RoleInv
<1>4. n \in RoleNames
  BY <1>1, <1>2, <1>3 DEF ServerSound, NextName
<1>5. PICK codes \in SUBSET Codes : codes = CodesOf[n] \cap me.release
  BY <1>3 DEF Server
<1>6. CodesOf[n] \cap OldCodes \subseteq codes \cap permissions
  BY <1>2, <1>3, <1>5 DEF ServerSound
<1>7. CreateRole(i, n, codes)
  BY <1>2, <1>5
<1>8. /\ roles \subseteq roles' /\ roles' \subseteq RoleRow /\ IsFiniteSet(roles') /\ RolesNamed(n)' # {}
      /\ twice \subseteq twice' /\ twice' \subseteq RoleNames
      /\ \A r \in roles' : r \in roles \/ CodesOf[r.name] \cap OldCodes \subseteq r.codes
      /\ \A r, t \in roles' : r.name = t.name /\ r # t => (r \in roles /\ t \in roles) \/ r.name \in twice'
  BY <1>4, <1>6, <1>7, CreatesRole
<1>9. PICK q : q = [me EXCEPT !.at = "find", !.todo = @ \ {n}]
  OBVIOUS
<1>10. q \in Server /\ q.at = "find" /\ q.release = me.release /\ q.todo = me.todo \ {n}
  BY <1>3, <1>9 DEF Server
<1>11. servers' = [servers EXCEPT ![i] = q] /\ servers'[i] = q
  BY <1>2, <1>9, RoleTyped
<1>12. ServerSound(i)'
  <2>1. \A m : RolesNamed(m) \subseteq RolesNamed(m)'
    BY <1>8 DEF RolesNamed
  <2>2. \A m \in RoleNames \ q.todo : RolesNamed(m)' # {}
    BY <1>2, <1>3, <1>8, <1>10, <2>1 DEF ServerSound
  <2> QED
    BY <1>2, <1>3, <1>10, <1>11, <2>2 DEF ServerSound
<1> QED
  BY <1>2, <1>8, <1>10, <1>11, <1>12, ServerMoves, RoleTyped DEF RoleInv

LEMMA CreateOnDemandRoles == ASSUME RoleInv, NEW i \in Servers, CreateOnDemand(i) PROVE RoleInv'
<1> DEFINE me == servers[i]
<1>1. PICK n : n = NextName(i)
  OBVIOUS
<1>2. /\ me.at = "create" /\ roleCalls' = roleCalls
      /\ CreateRole(i, n, IF n = "Owner" THEN permissions ELSE CodesOf[n])
      /\ servers' = [servers EXCEPT ![i] = IdleServer]
      /\ UNCHANGED <<permissions, seeded, edited>>
  BY <1>1 DEF CreateOnDemand, DoingAt
<1>3. ServerSound(i)
  BY DEF RoleInv
<1>4. n \in RoleNames /\ OldCodes \subseteq permissions
  BY <1>1, <1>2, <1>3 DEF ServerSound, NextName, RoleInv
<1>5. PICK codes \in SUBSET Codes : codes = IF n = "Owner" THEN permissions ELSE CodesOf[n]
  BY <1>4, RoleTyped, RoleAssumption
<1>6. CodesOf[n] \cap OldCodes \subseteq codes \cap permissions
  BY <1>4, <1>5
<1>7. CreateRole(i, n, codes)
  BY <1>2, <1>5
<1>8. /\ roles \subseteq roles' /\ roles' \subseteq RoleRow /\ IsFiniteSet(roles')
      /\ twice \subseteq twice' /\ twice' \subseteq RoleNames
      /\ \A r \in roles' : r \in roles \/ CodesOf[r.name] \cap OldCodes \subseteq r.codes
      /\ \A r, t \in roles' : r.name = t.name /\ r # t => (r \in roles /\ t \in roles) \/ r.name \in twice'
  BY <1>4, <1>6, <1>7, CreatesRole
<1> QED
  BY <1>2, <1>8, IdleIsServer, ServerIdle, ServerMoves, RoleTyped DEF RoleInv

LEMMA ReadyRoles == ASSUME RoleInv, NEW i \in Servers, Ready(i) PROVE RoleInv'
<1>1. /\ servers[i].at = "find" /\ servers[i].todo = {} /\ roleCalls' = roleCalls
      /\ servers' = [servers EXCEPT ![i] = IdleServer] /\ seeded' = TRUE
      /\ UNCHANGED <<permissions, roles, edited, twice>>
  BY DEF Ready, DoingAt
<1>2. \A n \in RoleNames : RolesNamed(n) # {}
  BY <1>1 DEF RoleInv, ServerSound
<1>3. seeded' \in BOOLEAN
  BY <1>1, Zenon
<1> QED
  BY <1>1, <1>2, <1>3, IdleIsServer, ServerIdle, ServerOnly, RoleTyped

LEMMA LookForRoles == ASSUME RoleInv, NEW i \in Servers, LookForRole(i) PROVE RoleInv'
<1>1. PICK n \in OnDemand :
        /\ BeginRoleCall(i) /\ permissions # {}
        /\ servers' = [servers EXCEPT ![i] = [IdleServer EXCEPT !.at = "create", !.todo = {n}]]
        /\ UNCHANGED <<permissions, roles, seeded, edited, twice>>
  BY DEF LookForRole
<1>2. PICK q : q = [IdleServer EXCEPT !.at = "create", !.todo = {n}]
  OBVIOUS
<1>3. q \in Server /\ q.at = "create" /\ q.todo = {n} /\ n \in RoleNames
  BY <1>2, RoleAssumption DEF IdleServer, Server
<1>4. servers' = [servers EXCEPT ![i] = q] /\ servers'[i] = q
  BY <1>1, <1>2, RoleTyped
<1>5. ServerSound(i)'
  BY <1>1, <1>3, <1>4 DEF ServerSound
<1> QED
  BY <1>1, <1>3, <1>4, <1>5, MoreRoleCalls, ServerOnly, RoleTyped

LEMMA CutRoles == ASSUME RoleInv, NEW i \in Servers, CutRoleCall(i) PROVE RoleInv'
<1>1. /\ UNCHANGED <<roleCalls, permissions, roles, seeded, edited, twice>>
      /\ servers' = [servers EXCEPT ![i] = IdleServer]
  BY DEF CutRoleCall
<1> QED
  BY <1>1, IdleIsServer, ServerIdle, ServerOnly, RoleTyped

(* An edit keeps the name and the number of the row, and is noted. *)
LEMMA UpdateRoles == ASSUME RoleInv, UpdateRolePermissions PROVE RoleInv'
<1>1. PICK r \in roles, codes \in SUBSET permissions :
        /\ roles' = (roles \ {r}) \cup {[r EXCEPT !.codes = codes]}
        /\ edited' = (edited \ {r}) \cup {[r EXCEPT !.codes = codes]}
        /\ roleCalls < MaxRoleCalls /\ roleCalls' = roleCalls + 1
        /\ UNCHANGED <<permissions, servers, seeded, twice>>
  BY DEF UpdateRolePermissions
<1>2. PICK new : new = [r EXCEPT !.codes = codes]
  OBVIOUS
<1>3. new \in RoleRow /\ new.name = r.name /\ r.name \in RoleNames
  BY <1>1, <1>2, RoleTyped DEF RoleRow
<1>4. roles' = (roles \ {r}) \cup {new} /\ roles' \subseteq RoleRow
  BY <1>1, <1>2, <1>3, RoleTyped
<1>5. IsFiniteSet(roles')
  BY <1>4, FS_AddElement, FS_RemoveElement DEF RoleInv
<1>6. \A n \in RoleNames : RolesNamed(n) # {} => RolesNamed(n)' # {}
  BY <1>1, <1>3, <1>4 DEF RolesNamed
<1>7. roleCalls' \in 0 .. MaxRoleCalls
  BY <1>1, RoleTyped, RoleAssumption
<1>8. RoleTypeOK'
  BY <1>1, <1>2, <1>3, <1>4, <1>7, RoleTyped DEF RoleTypeOK, Server
<1>9. ASSUME NEW i \in Servers PROVE ServerSound(i)'
  <2>1. ServerSound(i) /\ servers' = servers /\ permissions' = permissions
    BY <1>1 DEF RoleInv
  <2> QED
    BY <1>6, <2>1 DEF ServerSound
<1>10. seeded' => \A n \in RoleNames : RolesNamed(n)' # {}
  BY <1>1, <1>6 DEF RoleInv
<1>13. edited' = (edited \ {r}) \cup {new} /\ edited' \subseteq roles'
  BY <1>1, <1>2, <1>4 DEF RoleInv
<1>11. \A t \in roles' : t.name \notin EditedNames' => CodesOf[t.name] \cap OldCodes \subseteq t.codes
  <2>1. \A n \in EditedNames : n \in EditedNames'
    <3> SUFFICES ASSUME NEW t \in edited PROVE t.name \in EditedNames'
      BY DEF EditedNames
    <3> QED
      BY <1>3, <1>13 DEF EditedNames
  <2>2. new.name \in EditedNames'
    BY <1>13 DEF EditedNames
  <2> QED
    BY <1>3, <1>4, <2>1, <2>2 DEF RoleInv
<1>12. \A s, t \in roles' : s.name = t.name /\ s # t => s.name \in twice'
  BY <1>1, <1>3, <1>4 DEF RoleInv
<1> QED
  BY <1>1, <1>5, <1>8, <1>9, <1>10, <1>11, <1>12, <1>13 DEF RoleInv

---------------------------------------------------------------------------
(* Roles: the theorems. *)

LEMMA RoleStep == ASSUME RoleInv, [RoleNext]_roleVars PROVE RoleInv'
<1>1. CASE UNCHANGED roleVars
  BY <1>1 DEF RoleInv, RoleTypeOK, ServerSound, RolesNamed, EditedNames, roleVars
<1>2. CASE \E i \in Servers :
             \/ Bootstrap(i) \/ InsertPermissions(i) \/ FindRole(i) \/ SaveRole(i) \/ Ready(i)
             \/ LookForRole(i) \/ CreateOnDemand(i) \/ CutRoleCall(i)
  BY <1>2, BootstrapRoles, InsertPermissionsRoles, FindRoles, SaveRoles, ReadyRoles, LookForRoles,
     CreateOnDemandRoles, CutRoles
<1>3. CASE UpdateRolePermissions
  BY <1>3, UpdateRoles
<1> QED
  BY <1>1, <1>2, <1>3 DEF RoleNext

(* The invariant of the seed holds in every reachable state, of role-seed.service.ts and those that create roles. *)
THEOREM RoleInvariant == RoleSpec => []RoleInv
  BY RoleInitial, RoleStep, PTL DEF RoleSpec

LEMMA RoleImplies == RoleInv => DefaultRolesExist
<1> SUFFICES ASSUME RoleInv PROVE DefaultRolesExist
  OBVIOUS
<1>1. ASSUME NEW n \in RoleNames, Cardinality(RolesNamed(n)) > 1 PROVE n \in twice
  <2>1. IsFiniteSet(RolesNamed(n))
    BY FS_Subset DEF RolesNamed, RoleInv
  <2>2. RolesNamed(n) # {} /\ ~ \E r : RolesNamed(n) = {r}
    <3>1. ASSUME RolesNamed(n) = {} PROVE FALSE
      <4>1. Cardinality(RolesNamed(n)) = 0
        BY <3>1, FS_EmptySet
      <4> QED
        BY <1>1, <4>1
    <3>2. ASSUME NEW r, RolesNamed(n) = {r} PROVE FALSE
      <4>1. Cardinality(RolesNamed(n)) = 1
        BY <3>2, FS_Singleton
      <4> QED
        BY <1>1, <4>1
    <3> QED
      BY <3>1, <3>2
  <2>3. PICK r \in RolesNamed(n) : TRUE
    BY <2>2
  <2>4. PICK t \in RolesNamed(n) : t # r
    BY <2>2, <2>3
  <2> QED
    BY <2>3, <2>4 DEF RolesNamed, RoleInv
<1> QED
  BY <1>1 DEF DefaultRolesExist, RoleInv

(* Permissions, roles and starts of role-seed.service.ts keep their types. *)
THEOREM RoleTypeCorrect == RoleSpec => []RoleTypeOK
<1>1. RoleInv => RoleTypeOK
  BY DEF RoleInv
<1> QED
  BY <1>1, RoleInvariant, PTL

(* Once an instance is ready every default role exists, once unless two creators looked for it at the same   *)
(* time; a role nobody changed has what the older release gives it, and a changed one is as it was left      *)
(* (RoleSeedService.seed).                                                                                   *)
THEOREM DefaultRolesExistAlways == RoleSpec => []DefaultRolesExist
  BY RoleInvariant, RoleImplies, PTL

---------------------------------------------------------------------------
(***************************************************************************)
(* Stock.  Stock and movements change together, by the same units, in every*)
(* step but the back office's save and its late movement; the stock is not  *)
(* taken below zero; and where an order sits, its tab has the movement, but *)
(* for orders an update put back.                                           *)
(***************************************************************************)

(* What a call still knows when it goes on. *)
CallSound(call) ==
  /\ call.pc = "idle" => call.op = "none"
  /\ call.pc = "round" => call.tab \in Tab /\ call.quantity \in Quantity
  /\ call.pc = "update" => /\ call.op = "update" /\ call.order \in Order
                           /\ call.row \in OrderRow /\ call.row.tab \in Tab
  /\ call.pc = "void" => call.tab \in Tab
  /\ call.pc = "merge" => call.tab \in Tab /\ call.into \in Tab /\ call.tab # call.into
  /\ call.pc = "save" => call.op \in {"restock", "count", "edit"}
  /\ call.pc = "record" => call.op \in {"restock", "count"}
  /\ call.pc \in {"save", "record"} /\ call.op = "restock" => call.quantity \in Nat

CallsSound == \A c \in Call : CallSound(calls[c])

OrdersPlaced == \A o \in Order : orders[o].status # "none" => orders[o].tab \in Tab

AtWork(c) == calls[c].op \in {"restock", "count", "edit"}

(* The movements account for the stock until the back office works on it. *)
BooksBalance == (\A c \in Call : ~ AtWork(c)) => stock = Booked
AdjustedByCount == adjusted # 0 => \E c \in Call : calls[c].op = "count"

StockInv ==
  /\ StockTypeOK
  /\ CallsSound
  /\ OrdersPlaced
  /\ NeverNegative
  /\ OrdersHaveMovement
  /\ BooksBalance
  /\ AdjustedByCount

-----------------------------------------------------------------------------
(* Sums of units: they are natural, and change with the one movement that changes. *)
LEMMA SumOfUnits ==
  ASSUME NEW f, NEW S
  PROVE  Sum(f, S) = Sums([x \in S |-> Units(f[x])], S)
<1> DEFINE g == [x \in S |-> Units(f[x])]
           A(h) == [s \in SUBSET S |-> IF s = {} THEN 0
                                       ELSE LET x == CHOOSE y \in s : TRUE IN Units(f[x]) + h[s \ {x}]]
           B(h) == [s \in SUBSET S |-> SumStep(g, h, s)]
<1>1. \A h : A(h) = B(h)
  BY DEF SumStep
<1> DEFINE a == CHOOSE h : h = A(h)
           b == CHOOSE h : h = B(h)
<1>2. a = b
  <2> HIDE DEF A, B
  <2>1. \A h : h = A(h) <=> h = B(h)
    BY <1>1, Zenon
  <2> QED
    BY <2>1, Zenon
<1>3. Sum(f, S) = a[S]
  BY DEF Sum, MapThenSumSet, MapThenFoldSet
<1>4. Sums(g, S) = b[S]
  BY SumIsFcn DEF SumFcn
<1> QED
  BY <1>2, <1>3, <1>4

(* A movement has a natural number of units. *)
LEMMA UnitsNat ==
  ASSUME NEW m \in Movement
  PROVE  Units(m) \in Nat
BY DEF Units, Movement

LEMMA SumType ==
  ASSUME NEW S, IsFiniteSet(S), NEW f \in [S -> Movement]
  PROVE  Sum(f, S) \in Nat
<1> DEFINE g == [x \in S |-> Units(f[x])]
<1>1. \A x \in S : g[x] \in Nat
  BY UnitsNat
<1> HIDE DEF g
<1>2. Sums(g, S) \in Nat
  BY <1>1, SumNat
<1> QED
  BY <1>2, SumOfUnits DEF g

(* One movement changes, and the sum by the difference. *)
LEMMA SumOneChanges ==
  ASSUME NEW S, IsFiniteSet(S), NEW f \in [S -> Movement], NEW k \in [S -> Movement], NEW y \in S,
         \A x \in S \ {y} : k[x] = f[x]
  PROVE  Sum(k, S) = Sum(f, S) - Units(f[y]) + Units(k[y])
<1> DEFINE g == [x \in S |-> Units(f[x])]
           j == [x \in S |-> Units(k[x])]
<1>2. /\ \A x \in S : g[x] \in Nat /\ j[x] \in Nat
      /\ \A x \in S \ {y} : g[x] = j[x]
      /\ g[y] = Units(f[y]) /\ j[y] = Units(k[y])
  BY UnitsNat
<1> HIDE DEF g, j
<1>3. Sums(j, S) = Sums(g, S) - g[y] + j[y]
  BY <1>2, SumUpdate
<1>4. Sum(k, S) = Sums(j, S) /\ Sum(f, S) = Sums(g, S)
  BY SumOfUnits DEF g, j
<1> QED
  BY <1>2, <1>3, <1>4

(* A merge moves units from one tab to another. *)
LEMMA SumRepoint ==
  ASSUME NEW S, IsFiniteSet(S), NEW f \in [S -> Movement], NEW a \in S, NEW b \in S, a # b
  PROVE  Repoint(f, a, b) \in [S -> Movement] /\ Sum(Repoint(f, a, b), S) = Sum(f, S)
<1>1. CASE f[a] = NULL
  BY <1>1 DEF Repoint
<1>2. CASE f[a] # NULL
  <2> DEFINE m == Units(f[b]) + f[a]
  <2>1. f[a] \in Nat /\ Units(f[a]) = f[a] /\ Units(f[b]) \in Nat /\ m \in Nat
    BY <1>2, UnitsNat DEF Movement, Units
  <2>2. m \in Movement /\ NULL \in Movement /\ Units(m) = m /\ Units(NULL) = 0
    BY <2>1, StockAssumption DEF Movement, Units
  <2>3. PICK k : k = [f EXCEPT ![b] = m]
    OBVIOUS
  <2>4. PICK l : l = [k EXCEPT ![a] = NULL]
    OBVIOUS
  <2>5. Repoint(f, a, b) = l
    BY <1>2, <2>3, <2>4 DEF Repoint
  <2>6. m = Units(f[b]) + f[a]
    OBVIOUS
  <2> HIDE DEF m
  <2>7. k \in [S -> Movement] /\ k[a] = f[a] /\ k[b] = m /\ \A x \in S \ {b} : k[x] = f[x]
    BY <2>2, <2>3
  <2>8. l \in [S -> Movement] /\ l[a] = NULL /\ \A x \in S \ {a} : l[x] = k[x]
    BY <2>2, <2>4, <2>7
  <2>9. Sum(k, S) = Sum(f, S) - Units(f[b]) + m
    BY <2>2, <2>7, SumOneChanges
  <2>10. Sum(l, S) = Sum(k, S) - Units(f[a]) + 0
    BY <2>2, <2>7, <2>8, SumOneChanges
  <2>11. Sum(f, S) \in Nat
    BY SumType
  <2> QED
    BY <2>1, <2>5, <2>6, <2>8, <2>9, <2>10, <2>11
<1> QED
  BY <1>1, <1>2

(* What a tab ordered is a natural number: the finite sum of its orders. *)
LEMMA OrderedType ==
  ASSUME StockTypeOK, NEW t \in Tab
  PROVE  Ordered(t) \in Nat
<1> DEFINE S == OrdersOf(t)
           g == [o \in S |-> orders[o].quantity]
           A(h) == [s \in SUBSET S |-> IF s = {} THEN 0
                                       ELSE LET x == CHOOSE y \in s : TRUE IN orders[x].quantity + h[s \ {x}]]
           B(h) == [s \in SUBSET S |-> SumStep(g, h, s)]
<1>0. IsFiniteSet(S)
  BY StockAssumption, FS_Subset DEF OrdersOf
<1>1. \A h : A(h) = B(h)
  BY DEF SumStep
<1> DEFINE a == CHOOSE h : h = A(h)
           b == CHOOSE h : h = B(h)
<1>2. a = b
  <2> HIDE DEF A, B
  <2>1. \A h : h = A(h) <=> h = B(h)
    BY <1>1, Zenon
  <2> QED
    BY <2>1, Zenon
<1>3. Ordered(t) = a[S]
  BY DEF Ordered, MapThenSumSet, MapThenFoldSet
<1>4. Sums(g, S) = b[S]
  BY SumIsFcn DEF SumFcn
<1>5. \A o \in S : g[o] \in Nat
  BY DEF StockTypeOK, OrderRow, OrdersOf
<1> HIDE DEF S, g, a, b
<1>6. Sums(g, S) \in Nat
  BY <1>0, <1>5, SumNat
<1> QED
  BY <1>2, <1>3, <1>4, <1>6

(* The sums of the movements, and what they account for. *)
LEMMA BookedType ==
  ASSUME StockTypeOK
  PROVE  /\ Sum(reversal, Tab) \in Nat /\ Sum(orderReversal, Order) \in Nat
         /\ Sum(consumption, Tab) \in Nat /\ Booked \in Int
<1>1. /\ Sum(reversal, Tab) \in Nat /\ Sum(orderReversal, Order) \in Nat
      /\ Sum(consumption, Tab) \in Nat
  BY SumType, StockAssumption DEF StockTypeOK
<1>2. InitialStock \in Int /\ purchased \in Int /\ adjusted \in Int
  BY StockAssumption DEF StockTypeOK
<1> QED
  BY <1>1, <1>2 DEF Booked

(* The same after a step. *)
LEMMA BookedTypeNext == StockTypeOK' => (Booked \in Int)'
<1>1. StockTypeOK => Booked \in Int
  BY BookedType
<1> QED
  BY <1>1, PTL

-----------------------------------------------------------------------------
(* A call goes on: it keeps its operation, and one that is done stays so. *)
StockCallsGoOn ==
  /\ \A d \in Call : calls[d].op # "none" => calls'[d].op = calls[d].op
  /\ \A d \in Call : calls[d].pc = "done" => calls'[d] = calls[d]

LEMMA StockCallGoesOn ==
  ASSUME StockInv, NEW c \in Call, NEW q \in CallState, Become(c, q), CallSound(q),
         calls[c].pc # "done", calls[c].op # "none" => q.op = calls[c].op
  PROVE  /\ calls' \in [Call -> CallState] /\ CallsSound' /\ StockCallsGoOn
         /\ calls'[c] = q
<1>1. calls \in [Call -> CallState] /\ calls' = [calls EXCEPT ![c] = q]
  BY DEF StockInv, StockTypeOK, Become
<1>2. calls' \in [Call -> CallState] /\ calls'[c] = q /\ \A d \in Call \ {c} : calls'[d] = calls[d]
  BY <1>1
<1>3. \A d \in Call : CallSound(calls'[d])
  BY <1>2 DEF StockInv, CallsSound
<1>4. StockCallsGoOn
  BY <1>2 DEF StockCallsGoOn
<1> QED
  BY <1>2, <1>3, <1>4 DEF CallsSound

(* Starting a call disturbs nothing else. *)
LEMMA StockCallStarts ==
  ASSUME StockInv, NEW c \in Call, NEW q \in CallState, Starts(c, q), CallSound(q)
  PROVE  /\ calls' \in [Call -> CallState] /\ CallsSound' /\ StockCallsGoOn
         /\ UNCHANGED <<stock, tabStatus, orders, consumption, reversal, orderReversal,
                         purchased, adjusted>>
<1>1. calls[c].op = "none"
  BY DEF Starts, StockInv, CallsSound, CallSound
<1> QED
  BY <1>1, StockCallGoesOn DEF Starts

(* A call that ends. *)
LEMMA StockCallFinishes ==
  ASSUME StockInv, NEW c \in Call, calls[c].pc \notin {"idle", "done"}, Finish(c)
  PROVE  /\ calls' \in [Call -> CallState] /\ CallsSound' /\ StockCallsGoOn
         /\ calls'[c] = [calls[c] EXCEPT !.pc = "done"]
<1>1. PICK q : q = [calls[c] EXCEPT !.pc = "done"]
  OBVIOUS
<1>2. calls[c] \in CallState
  BY DEF StockInv, StockTypeOK
<1>3. q \in CallState /\ q.pc = "done" /\ q.op = calls[c].op
  BY <1>1, <1>2 DEF CallState
<1>4. CallSound(q)
  BY <1>3 DEF CallSound
<1> QED
  BY <1>1, <1>3, <1>4, StockCallGoesOn DEF Finish

(* What is left to show of a step that keeps stock and movements together. *)
Moved == stock' - Booked' = stock - Booked

Kept ==
  /\ StockTypeOK' /\ CallsSound' /\ StockCallsGoOn
  /\ OrdersPlaced' /\ NeverNegative' /\ OrdersHaveMovement'
  /\ UNCHANGED adjusted /\ Moved

(* Such a step keeps the invariant: the books balance as before. *)
LEMMA KeptKeeps ==
  ASSUME StockInv, Kept
  PROVE  StockInv'
<1>1. BooksBalance'
  <2> SUFFICES ASSUME \A c \in Call : ~ (calls'[c].op \in {"restock", "count", "edit"})
               PROVE  stock' = Booked'
    BY DEF BooksBalance, AtWork
  <2>1. \A c \in Call : ~ AtWork(c)
    BY DEF AtWork, Kept, StockCallsGoOn
  <2>2. stock = Booked
    BY <2>1 DEF StockInv, BooksBalance
  <2>3. stock \in Int /\ Booked \in Int /\ stock' \in Int
    BY BookedType DEF StockInv, StockTypeOK, Kept
  <2>4. Booked' \in Int
    BY BookedTypeNext DEF Kept
  <2>5. stock' - Booked' = stock - Booked
    BY DEF Kept, Moved
  <2>6. PICK b \in Int : b = Booked'
    BY <2>4
  <2>7. PICK d \in Int : d = stock'
    BY <2>3
  <2>8. d - b = stock - Booked
    BY <2>5, <2>6, <2>7, Zenon
  <2>9. d = b
    BY <2>2, <2>3, <2>8
  <2> QED
    BY <2>6, <2>7, <2>9
<1>2. AdjustedByCount'
  BY DEF AdjustedByCount, StockInv, Kept, StockCallsGoOn
<1> QED
  BY <1>1, <1>2 DEF Kept, StockInv

-----------------------------------------------------------------------------
(* The units that move between the stock and the movements. *)
LEMMA UnitsMove ==
  ASSUME StockTypeOK, stock' \in Int, UNCHANGED <<purchased, adjusted>>,
         NEW r \in Nat, NEW o \in Nat, NEW c \in Nat,
         r = Sum(reversal', Tab), o = Sum(orderReversal', Order), c = Sum(consumption', Tab),
         stock' - r - o + c =
           stock - Sum(reversal, Tab) - Sum(orderReversal, Order) + Sum(consumption, Tab)
  PROVE  Moved
<1>1. PICK R \in Nat, O \in Nat, C \in Nat :
         R = Sum(reversal, Tab) /\ O = Sum(orderReversal, Order) /\ C = Sum(consumption, Tab)
  BY BookedType
<1>2. PICK s \in Int, z \in Int, p \in Int, a \in Int :
         s = stock /\ z = stock' /\ p = purchased /\ a = adjusted
  BY DEF StockTypeOK
<1>3. InitialStock \in Int
  BY StockAssumption
<1>4. Booked = InitialStock + p + a + R + O - C
  BY <1>1, <1>2 DEF Booked
<1>5. Booked' = InitialStock + p + a + r + o - c
  BY <1>2 DEF Booked
<1>6. z - r - o + c = s - R - O + C
  BY <1>1, <1>2
<1>7. z - (InitialStock + p + a + r + o - c) = s - (InitialStock + p + a + R + O - C)
  BY <1>3, <1>6
<1> QED
  BY <1>2, <1>4, <1>5, <1>7, Zenon DEF Moved

LEMMA NothingMoves ==
  ASSUME StockTypeOK, UNCHANGED <<stock, consumption, reversal, orderReversal, purchased, adjusted>>
  PROVE  Moved
<1>1. stock \in Int
  BY DEF StockTypeOK
<1> QED
  BY BookedType, UnitsMove, <1>1

(* A deduction that is not refused: what it takes is recorded for the tab, *)
(* which has a movement then.                                              *)
LEMMA DeductKeeps ==
  ASSUME StockInv, NEW t \in Tab, NEW n \in Nat, ~ Refused(t, n), Deduct(t, n)
  PROVE  /\ stock' \in Nat /\ consumption' \in [Tab -> Movement]
         /\ stock' + Sum(consumption', Tab) = stock + Sum(consumption, Tab)
         /\ \A u \in Tab : consumption'[u] = NULL => consumption[u] = NULL
         /\ n > 0 => consumption'[t] # NULL
<1>1. stock \in Nat /\ consumption \in [Tab -> Movement]
  BY DEF StockInv, StockTypeOK, NeverNegative
<1>2. Units(consumption[t]) \in Nat
  BY <1>1, UnitsNat
<1>3. ToDeduct(t, n) \in Nat
  BY <1>2 DEF ToDeduct
<1>4. CASE ToDeduct(t, n) = 0
  <2>1. UNCHANGED <<stock, consumption>>
    BY <1>4 DEF Deduct
  <2>2. n > 0 => consumption[t] # NULL
    BY <1>2, <1>4 DEF ToDeduct, Units
  <2> QED
    BY <1>1, <2>1, <2>2
<1>5. CASE ToDeduct(t, n) # 0
  <2>1. consumption[t] = NULL /\ Units(consumption[t]) = 0
    BY <1>3, <1>5 DEF Refused, Units
  <2>2. PICK a : a = Applied(ToDeduct(t, n))
    OBVIOUS
  <2>3. a \in Nat /\ a <= stock
    BY <1>1, <1>3, <2>2 DEF Applied
  <2>4. stock' = stock - a /\ consumption' = [consumption EXCEPT ![t] = a]
    BY <1>5, <2>2 DEF Deduct
  <2>5. a # NULL /\ a \in Movement /\ Units(a) = a
    BY <2>3, StockAssumption DEF Movement, Units
  <2>6. PICK k : k = consumption'
    OBVIOUS
  <2>7. k \in [Tab -> Movement] /\ k[t] = a /\ \A u \in Tab \ {t} : k[u] = consumption[u]
    BY <1>1, <2>4, <2>5, <2>6
  <2>8. Sum(k, Tab) = Sum(consumption, Tab) - 0 + a
    BY <1>1, <2>1, <2>5, <2>7, SumOneChanges, StockAssumption
  <2>9. Sum(consumption, Tab) \in Nat
    BY BookedType DEF StockInv
  <2>10. stock' \in Nat /\ stock' + Sum(k, Tab) = stock + Sum(consumption, Tab)
    BY <1>1, <2>3, <2>4, <2>8, <2>9
  <2> QED
    BY <2>1, <2>5, <2>6, <2>7, <2>10
<1> QED
  BY <1>4, <1>5

(* So a deduction moves units from the stock to the movements. *)
LEMMA DeductMoves ==
  ASSUME StockInv, NEW t \in Tab, NEW n \in Nat, ~ Refused(t, n), Deduct(t, n),
         UNCHANGED <<reversal, orderReversal, purchased, adjusted>>
  PROVE  Moved
<1>1. PICK R \in Nat, O \in Nat, C \in Nat :
         R = Sum(reversal, Tab) /\ O = Sum(orderReversal, Order) /\ C = Sum(consumption, Tab)
  BY BookedType DEF StockInv
<1>2. PICK s \in Nat, z \in Nat : s = stock /\ z = stock'
  BY DeductKeeps DEF StockInv, StockTypeOK, NeverNegative
<1>3. consumption' \in [Tab -> Movement]
  BY DeductKeeps
<1>4. PICK c \in Nat : c = Sum(consumption', Tab)
  BY <1>3, SumType, StockAssumption
<1>5. z + c = s + C
  BY <1>1, <1>2, <1>4, DeductKeeps
<1>6. z - R - O + c = s - R - O + C
  BY <1>5
<1>7. stock' \in Int /\ R = Sum(reversal', Tab) /\ O = Sum(orderReversal', Order)
  BY <1>1, <1>2
<1>8. stock' - R - O + c =
        stock - Sum(reversal, Tab) - Sum(orderReversal, Order) + Sum(consumption, Tab)
  BY <1>1, <1>2, <1>6, Zenon
<1> QED
  BY <1>4, <1>7, <1>8, UnitsMove DEF StockInv

-----------------------------------------------------------------------------
(* An order that had lost its movement has a finished update to show, which stays. *)
Stray(o) == orders[o].status # "none" /\ consumption[orders[o].tab] = NULL
PutBack(o) == \E c \in Call : calls[c].op = "update" /\ calls[c].pc = "done" /\ calls[c].order = o

(* A step that strands no order but one an update puts back. *)
LEMMA MovementsStay ==
  ASSUME StockInv, StockCallsGoOn, \A o \in Order : Stray(o)' => Stray(o) \/ PutBack(o)'
  PROVE  OrdersHaveMovement'
<1>1. \A o \in Order : Stray(o) => PutBack(o)
  BY DEF StockInv, OrdersHaveMovement, Stray, PutBack
<1>2. \A o \in Order : PutBack(o) => PutBack(o)'
  BY DEF PutBack, StockCallsGoOn
<1>3. \A o \in Order : Stray(o)' => PutBack(o)'
  BY <1>1, <1>2
<1> QED
  BY <1>3 DEF OrdersHaveMovement, Stray, PutBack

(* Steps that touch the calls only. *)
LEMMA CallsOnly ==
  ASSUME StockInv, calls' \in [Call -> CallState], CallsSound', StockCallsGoOn,
         UNCHANGED <<stock, tabStatus, orders, consumption, reversal, orderReversal,
                     purchased, adjusted>>
  PROVE  Kept
<1>1. StockTypeOK'
  BY DEF StockInv, StockTypeOK
<1>2. OrdersPlaced' /\ NeverNegative'
  BY DEF StockInv, OrdersPlaced, NeverNegative
<1>3. OrdersHaveMovement'
  BY MovementsStay DEF Stray
<1>4. Moved
  BY NothingMoves DEF StockInv
<1> QED
  BY <1>1, <1>2, <1>3, <1>4 DEF Kept

LEMMA IdleCallType == IdleCall \in CallState
BY DEF IdleCall, CallState

(* What the handlers read first is sound in their calls. *)
LEMMA BeginsKeep ==
  ASSUME StockInv, NEW c \in Call,
         BeginRound(c) \/ BeginUpdate(c) \/ BeginVoid(c) \/ BeginMerge(c)
           \/ BeginRestock(c) \/ BeginCount(c) \/ BeginEdit(c)
  PROVE  Kept
<1>1. StockTypeOK /\ stock \in Nat
  BY DEF StockInv, StockTypeOK, NeverNegative
<1>2. Quantity \subseteq Nat /\ 0 .. MaxQuantity \subseteq Nat /\ Quantity \subseteq 0 .. MaxQuantity
  BY StockAssumption DEF Quantity
<1>3. ASSUME NEW q \in CallState, CallSound(q), Starts(c, q) PROVE Kept
  BY <1>3, StockCallStarts, CallsOnly
<1>4. CASE BeginRound(c)
  <2>1. PICK t \in Tab, n \in Quantity :
          Starts(c, [IdleCall EXCEPT !.pc = "round", !.op = "round", !.tab = t, !.quantity = n])
    BY <1>4 DEF BeginRound
  <2>2. PICK q : q = [IdleCall EXCEPT !.pc = "round", !.op = "round", !.tab = t, !.quantity = n]
    OBVIOUS
  <2>3. n \in Int
    BY <1>2
  <2>4. q \in CallState
    BY <2>2, <2>3, IdleCallType DEF CallState
  <2>5. CallSound(q)
    BY <2>2, <2>3 DEF IdleCall, CallSound
  <2> QED
    BY <1>3, <2>1, <2>2, <2>4, <2>5
<1>5. CASE BeginUpdate(c)
  <2>1. PICK o \in Order, n \in Quantity :
          /\ orders[o].status # "none"
          /\ Starts(c, [IdleCall EXCEPT !.pc = "update", !.op = "update", !.order = o,
                                        !.row = [orders[o] EXCEPT !.quantity = n]])
    BY <1>5 DEF BeginUpdate
  <2>2. PICK r : r = [orders[o] EXCEPT !.quantity = n]
    OBVIOUS
  <2>3. r \in OrderRow /\ r.tab \in Tab
    BY <1>1, <1>2, <2>1, <2>2 DEF StockTypeOK, OrderRow, StockInv, OrdersPlaced
  <2>4. PICK q : q = [IdleCall EXCEPT !.pc = "update", !.op = "update", !.order = o, !.row = r]
    OBVIOUS
  <2>5. q \in CallState /\ CallSound(q)
    BY <2>3, <2>4, IdleCallType DEF CallState, IdleCall, CallSound
  <2> QED
    BY <1>3, <2>1, <2>2, <2>4, <2>5
<1>6. CASE BeginVoid(c)
  <2>1. PICK t \in Tab :
          Starts(c, [IdleCall EXCEPT !.pc = "void", !.op = "void", !.tab = t,
                                     !.reversed = (reversal[t] # NULL)])
    BY <1>6 DEF BeginVoid
  <2>2. PICK b \in BOOLEAN : b <=> reversal[t] # NULL
    OBVIOUS
  <2>3. b = (reversal[t] # NULL)
    BY <2>2
  <2>4. PICK q : q = [IdleCall EXCEPT !.pc = "void", !.op = "void", !.tab = t, !.reversed = b]
    OBVIOUS
  <2>5. q \in CallState /\ CallSound(q)
    BY <2>4, IdleCallType DEF CallState, IdleCall, CallSound
  <2>6. Starts(c, q)
    BY <2>1, <2>3, <2>4, Zenon
  <2> QED
    BY <1>3, <2>5, <2>6
<1>7. CASE BeginMerge(c)
  <2>1. PICK t \in Tab, u \in Tab :
          /\ t # u
          /\ Starts(c, [IdleCall EXCEPT !.pc = "merge", !.op = "merge", !.tab = t, !.into = u])
    BY <1>7 DEF BeginMerge
  <2>2. PICK q : q = [IdleCall EXCEPT !.pc = "merge", !.op = "merge", !.tab = t, !.into = u]
    OBVIOUS
  <2>3. q \in CallState /\ CallSound(q)
    BY <2>1, <2>2, IdleCallType DEF CallState, IdleCall, CallSound
  <2> QED
    BY <1>3, <2>1, <2>2, <2>3
<1>8. CASE BeginRestock(c)
  <2>1. PICK n \in Quantity :
          Starts(c, [IdleCall EXCEPT !.pc = "save", !.op = "restock", !.quantity = n,
                                     !.value = stock + n])
    BY <1>8 DEF BeginRestock
  <2>2. PICK v \in Nat : v = stock + n
    BY <1>1, <1>2
  <2>3. PICK q : q = [IdleCall EXCEPT !.pc = "save", !.op = "restock", !.quantity = n, !.value = v]
    OBVIOUS
  <2>4. n \in Nat /\ n \in Int
    BY <1>2
  <2>5. q \in CallState
    BY <2>3, <2>4, IdleCallType DEF CallState
  <2>6. CallSound(q)
    BY <2>3, <2>4 DEF IdleCall, CallSound
  <2> QED
    BY <1>3, <2>1, <2>2, <2>3, <2>5, <2>6
<1>9. CASE BeginCount(c)
  <2>1. PICK n \in 0 .. MaxQuantity :
          Starts(c, [IdleCall EXCEPT !.pc = "save", !.op = "count",
                                     !.quantity = n - stock, !.value = n])
    BY <1>9 DEF BeginCount
  <2>2. PICK v \in Int : v = n - stock
    BY <1>1, <1>2
  <2>3. PICK q : q = [IdleCall EXCEPT !.pc = "save", !.op = "count", !.quantity = v, !.value = n]
    OBVIOUS
  <2>4. n \in Nat
    BY <1>2
  <2>5. q \in CallState /\ CallSound(q)
    BY <2>3, <2>4, IdleCallType DEF CallState, IdleCall, CallSound
  <2> QED
    BY <1>3, <2>1, <2>2, <2>3, <2>5
<1>10. CASE BeginEdit(c)
  <2>1. PICK q : q = [IdleCall EXCEPT !.pc = "save", !.op = "edit", !.value = stock]
    OBVIOUS
  <2>2. q \in CallState /\ CallSound(q)
    BY <1>1, <2>1, IdleCallType DEF CallState, IdleCall, CallSound
  <2> QED
    BY <1>3, <1>10, <2>1, <2>2 DEF BeginEdit
<1> QED
  BY <1>4, <1>5, <1>6, <1>7, <1>8, <1>9, <1>10

LEMMA AbortKeeps ==
  ASSUME StockInv, NEW c \in Call, Abort(c)
  PROVE  Kept
BY StockCallFinishes, CallsOnly DEF Abort

-----------------------------------------------------------------------------
(* The steps that write an order row, and those that move units with it. *)
LEMMA CommitRoundKeeps ==
  ASSUME StockInv, NEW c \in Call, CommitRound(c)
  PROVE  Kept
<1>1. PICK t, n : t = calls[c].tab /\ n = calls[c].quantity
  OBVIOUS
<1>2. calls[c].pc = "round" /\ calls[c].pc \notin {"idle", "done"} /\ Finish(c)
  BY DEF CommitRound
<1>3. calls' \in [Call -> CallState] /\ CallsSound' /\ StockCallsGoOn
  BY <1>2, StockCallFinishes
<1>4. t \in Tab /\ n \in Quantity
  BY <1>1, <1>2 DEF StockInv, CallsSound, CallSound
<1>5. n \in Nat /\ n > 0 /\ n \in 0 .. MaxQuantity
  BY <1>4, StockAssumption DEF Quantity
<1>6. UNCHANGED <<tabStatus, reversal, orderReversal, purchased, adjusted>>
  BY DEF CommitRound
<1>7. CASE Refused(t, n)
  <2>1. UNCHANGED <<stock, consumption, orders>>
    BY <1>1, <1>7 DEF CommitRound
  <2> QED
    BY <1>3, <1>6, <2>1, CallsOnly
<1>8. CASE ~ Refused(t, n)
  <2>1. Deduct(t, n)
    BY <1>1, <1>8 DEF CommitRound
  <2>2. PICK o \in Order : orders' = [orders EXCEPT ![o] = NewOrder(t, n)]
    BY <1>1, <1>8 DEF CommitRound
  <2>3. PICK r \in OrderRow : r = NewOrder(t, n)
    BY <1>4, <1>5 DEF NewOrder, OrderRow, OrderStatus
  <2>4. r.tab = t
    BY <2>3 DEF NewOrder
  <2>5. orders' \in [Order -> OrderRow] /\ orders'[o] = r /\ \A p \in Order \ {o} : orders'[p] = orders[p]
    BY <2>2, <2>3 DEF StockInv, StockTypeOK
  <2>6. /\ stock' \in Nat /\ consumption' \in [Tab -> Movement]
        /\ \A u \in Tab : consumption'[u] = NULL => consumption[u] = NULL
        /\ consumption'[t] # NULL
    BY <1>4, <1>5, <1>8, <2>1, DeductKeeps
  <2>7. Moved
    BY <1>4, <1>5, <1>6, <1>8, <2>1, DeductMoves
  <2>8. StockTypeOK' /\ NeverNegative'
    BY <1>3, <1>6, <2>5, <2>6 DEF StockInv, StockTypeOK, NeverNegative
  <2>9. OrdersPlaced'
    BY <1>4, <2>4, <2>5 DEF StockInv, OrdersPlaced
  <2>10. ASSUME NEW p \in Order, Stray(p)' PROVE Stray(p)
    <3>1. p # o
      BY <2>4, <2>5, <2>6, <2>10 DEF Stray
    <3>2. orders'[p] = orders[p] /\ orders[p].status # "none" /\ consumption'[orders[p].tab] = NULL
      BY <2>5, <2>10, <3>1 DEF Stray
    <3>3. orders[p].tab \in Tab
      BY <3>2 DEF StockInv, OrdersPlaced
    <3> QED
      BY <2>6, <3>2, <3>3 DEF Stray
  <2>11. OrdersHaveMovement'
    BY <1>3, <2>10, MovementsStay
  <2> QED
    BY <1>3, <1>6, <2>7, <2>8, <2>9, <2>11 DEF Kept
<1> QED
  BY <1>7, <1>8

(* A payment takes what was ordered and not yet recorded. *)
LEMMA PayKeeps ==
  ASSUME StockInv, NEW t \in Tab, Pay(t)
  PROVE  Kept
<1>1. PICK n \in Nat : n = Ordered(t)
  BY OrderedType DEF StockInv
<1>2. /\ ~ Refused(t, n) /\ Deduct(t, n) /\ tabStatus' = [tabStatus EXCEPT ![t] = "paid"]
      /\ UNCHANGED <<orders, reversal, orderReversal, purchased, adjusted, calls>>
  BY <1>1 DEF Pay
<1>3. /\ stock' \in Nat /\ consumption' \in [Tab -> Movement]
      /\ \A u \in Tab : consumption'[u] = NULL => consumption[u] = NULL
  BY <1>2, DeductKeeps
<1>4. Moved
  BY <1>2, DeductMoves
<1>5. StockTypeOK' /\ NeverNegative'
  <2>1. tabStatus' \in [Tab -> {"open", "paid", "voided"}]
    BY <1>2 DEF StockInv, StockTypeOK
  <2> QED
    BY <1>2, <1>3, <2>1 DEF StockInv, StockTypeOK, NeverNegative
<1>6. CallsSound' /\ StockCallsGoOn /\ OrdersPlaced'
  BY <1>2 DEF StockInv, CallsSound, StockCallsGoOn, OrdersPlaced
<1>7. ASSUME NEW o \in Order, Stray(o)' PROVE Stray(o)
  <2>1. orders[o].status # "none" /\ consumption'[orders[o].tab] = NULL
    BY <1>2, <1>7 DEF Stray
  <2>2. orders[o].tab \in Tab
    BY <2>1 DEF StockInv, OrdersPlaced
  <2> QED
    BY <1>3, <2>1, <2>2 DEF Stray
<1>8. OrdersHaveMovement'
  BY <1>6, <1>7, MovementsStay
<1> QED
  BY <1>2, <1>4, <1>5, <1>6, <1>8 DEF Kept

(* Changing the status of an order that is there. *)
LEMMA StatusChanges ==
  ASSUME StockInv, NEW o \in Order, NEW x \in OrderStatus \ {"none"}, orders[o].status # "none",
         orders' = [orders EXCEPT ![o].status = x], UNCHANGED <<consumption, calls>>
  PROVE  /\ orders' \in [Order -> OrderRow] /\ OrdersPlaced' /\ OrdersHaveMovement'
         /\ CallsSound' /\ StockCallsGoOn
<1>1. CallsSound' /\ StockCallsGoOn
  BY DEF StockInv, CallsSound, StockCallsGoOn
<1>2. PICK r : r = [orders[o] EXCEPT !.status = x]
  OBVIOUS
<1>3. orders \in [Order -> OrderRow]
  BY DEF StockInv, StockTypeOK
<1>4. r \in OrderRow /\ r.tab = orders[o].tab
  BY <1>2, <1>3 DEF OrderRow
<1>5. orders' = [orders EXCEPT ![o] = r]
  BY <1>2
<1>6. orders' \in [Order -> OrderRow] /\ orders'[o] = r /\ \A p \in Order \ {o} : orders'[p] = orders[p]
  BY <1>3, <1>4, <1>5
<1>7. OrdersPlaced'
  BY <1>4, <1>6 DEF StockInv, OrdersPlaced
<1>8. \A p \in Order : Stray(p)' => Stray(p)
  BY <1>4, <1>6 DEF Stray
<1>9. OrdersHaveMovement'
  BY <1>1, <1>8, MovementsStay
<1> QED
  BY <1>1, <1>6, <1>7, <1>9

LEMMA ResolveKeeps ==
  ASSUME StockInv, NEW o \in Order, Resolve(o)
  PROVE  Kept
<1>1. PICK x \in {"delivered", "declined"} : orders' = [orders EXCEPT ![o].status = x]
  BY DEF Resolve
<1>2. orders[o].status # "none" /\ x \in OrderStatus \ {"none"}
  BY DEF Resolve, OrderStatus
<1>3. UNCHANGED <<stock, tabStatus, consumption, reversal, orderReversal, purchased, adjusted, calls>>
  BY DEF Resolve
<1>4. /\ orders' \in [Order -> OrderRow] /\ OrdersPlaced' /\ OrdersHaveMovement'
      /\ CallsSound' /\ StockCallsGoOn
  BY <1>1, <1>2, <1>3, StatusChanges
<1>5. StockTypeOK' /\ NeverNegative'
  BY <1>3, <1>4 DEF StockInv, StockTypeOK, NeverNegative
<1>6. Moved
  BY <1>3, NothingMoves DEF StockInv
<1> QED
  BY <1>3, <1>4, <1>5, <1>6 DEF Kept

(* The copy an update saves is of an order of some tab; the update is done then. *)
LEMMA SaveOrderKeeps ==
  ASSUME StockInv, NEW c \in Call, SaveOrder(c)
  PROVE  Kept
<1>1. PICK o, r : o = calls[c].order /\ r = calls[c].row
  OBVIOUS
<1>2. calls[c].pc = "update" /\ calls[c].pc \notin {"idle", "done"} /\ Finish(c)
  BY DEF SaveOrder
<1>3. calls' \in [Call -> CallState] /\ CallsSound' /\ StockCallsGoOn /\ calls'[c] = [calls[c] EXCEPT !.pc = "done"]
  BY <1>2, StockCallFinishes
<1>4. calls[c].op = "update" /\ o \in Order /\ r \in OrderRow /\ r.tab \in Tab
  BY <1>1, <1>2 DEF StockInv, CallsSound, CallSound
<1>5. /\ orders' = [orders EXCEPT ![o] = r]
      /\ UNCHANGED <<stock, tabStatus, consumption, reversal, orderReversal, purchased, adjusted>>
  BY <1>1 DEF SaveOrder
<1>6. orders' \in [Order -> OrderRow] /\ orders'[o] = r /\ \A p \in Order \ {o} : orders'[p] = orders[p]
  BY <1>4, <1>5 DEF StockInv, StockTypeOK
<1>7. OrdersPlaced'
  BY <1>4, <1>6 DEF StockInv, OrdersPlaced
<1>8. PutBack(o)'
  <2>1. calls[c] \in CallState
    BY DEF StockInv, StockTypeOK
  <2>2. calls'[c].op = "update" /\ calls'[c].pc = "done" /\ calls'[c].order = o
    BY <1>1, <1>3, <1>4, <2>1 DEF CallState
  <2> QED
    BY <2>2 DEF PutBack
<1>9. \A p \in Order : Stray(p)' => Stray(p) \/ PutBack(p)'
  BY <1>5, <1>6, <1>8 DEF Stray
<1>10. OrdersHaveMovement'
  BY <1>3, <1>9, MovementsStay
<1>11. StockTypeOK' /\ NeverNegative'
  BY <1>3, <1>5, <1>6 DEF StockInv, StockTypeOK, NeverNegative
<1>12. Moved
  BY <1>5, NothingMoves DEF StockInv
<1> QED
  BY <1>3, <1>5, <1>7, <1>10, <1>11, <1>12 DEF Kept

(* A cancelled item is returned once. *)
LEMMA CancelKeeps ==
  ASSUME StockInv, NEW o \in Order, Cancel(o)
  PROVE  Kept
<1>1. /\ orders[o].status # "none" /\ "cancelled" \in OrderStatus \ {"none"}
      /\ orders' = [orders EXCEPT ![o].status = "cancelled"]
      /\ UNCHANGED <<tabStatus, consumption, reversal, purchased, adjusted, calls>>
  BY DEF Cancel, OrderStatus
<1>2. /\ orders' \in [Order -> OrderRow] /\ OrdersPlaced' /\ OrdersHaveMovement'
      /\ CallsSound' /\ StockCallsGoOn
  BY <1>1, StatusChanges
<1>3. stock \in Nat /\ orderReversal \in [Order -> Movement]
  BY DEF StockInv, StockTypeOK, NeverNegative
<1>4. CASE orderReversal[o] # NULL
  <2>1. UNCHANGED <<stock, orderReversal>>
    BY <1>4 DEF Cancel
  <2>2. StockTypeOK' /\ NeverNegative'
    BY <1>1, <1>2, <2>1 DEF StockInv, StockTypeOK, NeverNegative
  <2>3. Moved
    BY <1>1, <2>1, NothingMoves DEF StockInv
  <2> QED
    BY <1>1, <1>2, <2>2, <2>3 DEF Kept
<1>5. CASE orderReversal[o] = NULL
  <2>1. PICK q \in Nat : q = orders[o].quantity
    BY StockAssumption DEF StockInv, StockTypeOK, OrderRow
  <2>2. stock' = stock + q /\ orderReversal' = [orderReversal EXCEPT ![o] = q]
    BY <1>5, <2>1 DEF Cancel
  <2>3. q \in Movement /\ Units(q) = q /\ Units(orderReversal[o]) = 0
    BY <1>5, StockAssumption DEF Movement, Units
  <2>4. PICK k : k = orderReversal'
    OBVIOUS
  <2>5. k \in [Order -> Movement] /\ k[o] = q /\ \A p \in Order \ {o} : k[p] = orderReversal[p]
    BY <1>3, <2>2, <2>3, <2>4
  <2>6. stock' \in Nat
    BY <1>3, <2>2
  <2>7. StockTypeOK' /\ NeverNegative'
    BY <1>1, <1>2, <2>4, <2>5, <2>6 DEF StockInv, StockTypeOK, NeverNegative
  <2>8. PICK R \in Nat, O \in Nat, C \in Nat :
          R = Sum(reversal, Tab) /\ O = Sum(orderReversal, Order) /\ C = Sum(consumption, Tab)
    BY BookedType DEF StockInv
  <2>9. Sum(k, Order) = O - 0 + q
    BY <1>3, <2>3, <2>5, <2>8, SumOneChanges, StockAssumption
  <2>10. PICK p \in Nat : p = Sum(k, Order)
    BY <2>5, SumType, StockAssumption
  <2>11. p = O + q
    BY <2>9, <2>10
  <2>12. stock' - R - p + C = stock - R - O + C
    BY <1>3, <2>2, <2>11
  <2>13. /\ R = Sum(reversal', Tab) /\ p = Sum(orderReversal', Order) /\ C = Sum(consumption', Tab)
         /\ stock' \in Int
    BY <1>1, <2>4, <2>6, <2>8, <2>10
  <2>14. stock' - R - p + C =
           stock - Sum(reversal, Tab) - Sum(orderReversal, Order) + Sum(consumption, Tab)
    BY <2>8, <2>12, Zenon
  <2>15. Moved
    BY <1>1, <2>13, <2>14, UnitsMove DEF StockInv
  <2> QED
    BY <1>1, <1>2, <2>7, <2>15 DEF Kept
<1> QED
  BY <1>4, <1>5

(* A void returns what is recorded for the tab. *)
LEMMA CommitVoidKeeps ==
  ASSUME StockInv, NEW c \in Call, CommitVoid(c)
  PROVE  Kept
<1>1. PICK t : t = calls[c].tab
  OBVIOUS
<1>2. calls[c].pc = "void" /\ calls[c].pc \notin {"idle", "done"} /\ Finish(c)
  BY DEF CommitVoid
<1>3. calls' \in [Call -> CallState] /\ CallsSound' /\ StockCallsGoOn
  BY <1>2, StockCallFinishes
<1>4. t \in Tab
  BY <1>1, <1>2 DEF StockInv, CallsSound, CallSound
<1>5. /\ tabStatus' = [tabStatus EXCEPT ![t] = "voided"]
      /\ UNCHANGED <<orders, consumption, orderReversal, purchased, adjusted>>
  BY <1>1 DEF CommitVoid
<1>6. tabStatus' \in [Tab -> {"open", "paid", "voided"}]
  BY <1>5 DEF StockInv, StockTypeOK
<1>7. OrdersPlaced'
  BY <1>5 DEF StockInv, OrdersPlaced
<1>8. OrdersHaveMovement'
  BY <1>3, <1>5, MovementsStay DEF Stray
<1>9. /\ stock \in Nat /\ reversal \in [Tab -> Movement] /\ consumption \in [Tab -> Movement]
  BY DEF StockInv, StockTypeOK, NeverNegative
<1>10. CASE calls[c].reversed \/ consumption[t] = NULL
  <2>1. UNCHANGED <<stock, reversal>>
    BY <1>1, <1>10 DEF CommitVoid
  <2>2. StockTypeOK' /\ NeverNegative'
    BY <1>3, <1>5, <1>6, <2>1 DEF StockInv, StockTypeOK, NeverNegative
  <2>3. Moved
    BY <1>5, <2>1, NothingMoves DEF StockInv
  <2> QED
    BY <1>3, <1>5, <1>7, <1>8, <2>2, <2>3 DEF Kept
<1>11. CASE ~ (calls[c].reversed \/ consumption[t] = NULL)
  <2>1. PICK q : q = consumption[t]
    OBVIOUS
  <2>2. q \in Nat
    BY <1>4, <1>9, <1>11, <2>1 DEF Movement
  <2>3. PICK u \in Nat : u = Units(reversal[t])
    BY <1>4, <1>9, UnitsNat
  <2>4. PICK m \in Nat : m = u + q
    BY <2>2
  <2>5. stock' = stock + q /\ reversal' = [reversal EXCEPT ![t] = m]
    <3>1. /\ stock' = stock + consumption[t]
          /\ reversal' = [reversal EXCEPT ![t] = Units(@) + consumption[t]]
      BY <1>1, <1>11 DEF CommitVoid
    <3>2. m = Units(reversal[t]) + consumption[t]
      BY <2>1, <2>3, <2>4
    <3>3. reversal' = [reversal EXCEPT ![t] = Units(reversal[t]) + consumption[t]]
      BY <3>1
    <3> QED
      BY <2>1, <3>1, <3>2, <3>3
  <2>6. m \in Movement /\ Units(m) = m
    BY StockAssumption DEF Movement, Units
  <2>7. PICK k : k = reversal'
    OBVIOUS
  <2>8. k \in [Tab -> Movement] /\ k[t] = m /\ \A p \in Tab \ {t} : k[p] = reversal[p]
    BY <1>4, <1>9, <2>5, <2>6, <2>7
  <2>9. stock' \in Nat
    BY <1>9, <2>2, <2>5
  <2>10. StockTypeOK' /\ NeverNegative'
    BY <1>3, <1>5, <1>6, <2>7, <2>8, <2>9 DEF StockInv, StockTypeOK, NeverNegative
  <2>11. PICK R \in Nat, O \in Nat, C \in Nat :
           R = Sum(reversal, Tab) /\ O = Sum(orderReversal, Order) /\ C = Sum(consumption, Tab)
    BY BookedType DEF StockInv
  <2>12. Sum(k, Tab) = R - u + m
    BY <1>4, <1>9, <2>3, <2>6, <2>8, <2>11, SumOneChanges, StockAssumption
  <2>13. PICK r \in Nat : r = Sum(k, Tab)
    BY <2>8, SumType, StockAssumption
  <2>14. r = R + q
    BY <2>2, <2>4, <2>12, <2>13
  <2>15. stock' - r - O + C = stock - R - O + C
    BY <1>9, <2>2, <2>5, <2>14
  <2>16. /\ r = Sum(reversal', Tab) /\ O = Sum(orderReversal', Order) /\ C = Sum(consumption', Tab)
         /\ stock' \in Int
    BY <1>5, <2>7, <2>9, <2>11, <2>13
  <2>17. stock' - r - O + C =
           stock - Sum(reversal, Tab) - Sum(orderReversal, Order) + Sum(consumption, Tab)
    BY <2>11, <2>15, Zenon
  <2>18. Moved
    BY <1>5, <2>16, <2>17, UnitsMove DEF StockInv
  <2> QED
    BY <1>3, <1>5, <1>7, <1>8, <2>10, <2>18 DEF Kept
<1> QED
  BY <1>10, <1>11

(* A merge moves the orders along with the movements. *)
LEMMA CommitMergeKeeps ==
  ASSUME StockInv, NEW c \in Call, CommitMerge(c)
  PROVE  Kept
<1>1. PICK t, u : t = calls[c].tab /\ u = calls[c].into
  OBVIOUS
<1>2. calls[c].pc = "merge" /\ calls[c].pc \notin {"idle", "done"} /\ Finish(c)
  BY DEF CommitMerge
<1>3. calls' \in [Call -> CallState] /\ CallsSound' /\ StockCallsGoOn
  BY <1>2, StockCallFinishes
<1>4. t \in Tab /\ u \in Tab /\ t # u
  BY <1>1, <1>2 DEF StockInv, CallsSound, CallSound
<1>5. /\ orders' = [o \in Order |-> IF o \in OrdersOf(t) THEN [orders[o] EXCEPT !.tab = u] ELSE orders[o]]
      /\ consumption' = Repoint(consumption, t, u) /\ reversal' = Repoint(reversal, t, u)
      /\ tabStatus' = [tabStatus EXCEPT ![t] = "voided"]
      /\ UNCHANGED <<stock, orderReversal, purchased, adjusted>>
  BY <1>1 DEF CommitMerge
<1>6. /\ orders \in [Order -> OrderRow] /\ consumption \in [Tab -> Movement]
      /\ reversal \in [Tab -> Movement] /\ stock \in Int
  BY DEF StockInv, StockTypeOK
<1>7. \A o \in Order : /\ orders'[o] \in OrderRow /\ orders'[o].status = orders[o].status
                        /\ orders'[o].tab = IF o \in OrdersOf(t) THEN u ELSE orders[o].tab
  BY <1>4, <1>5, <1>6 DEF OrderRow
<1>8. orders' \in [Order -> OrderRow]
  BY <1>5, <1>7
<1>9. PICK k, l : k = Repoint(consumption, t, u) /\ l = Repoint(reversal, t, u)
  OBVIOUS
<1>10. /\ k \in [Tab -> Movement] /\ Sum(k, Tab) = Sum(consumption, Tab)
       /\ l \in [Tab -> Movement] /\ Sum(l, Tab) = Sum(reversal, Tab)
  BY <1>4, <1>6, <1>9, SumRepoint, StockAssumption
<1>11. tabStatus' \in [Tab -> {"open", "paid", "voided"}]
  BY <1>5 DEF StockInv, StockTypeOK
<1>12. StockTypeOK' /\ NeverNegative'
  BY <1>3, <1>5, <1>8, <1>9, <1>10, <1>11 DEF StockInv, StockTypeOK, NeverNegative
<1>13. OrdersPlaced'
  BY <1>4, <1>7 DEF StockInv, OrdersPlaced
<1>14. /\ consumption[t] = NULL => k = consumption
       /\ consumption[t] # NULL => /\ k[u] # NULL
                                   /\ \A v \in Tab \ {t, u} : k[v] = consumption[v]
  <2>1. Units(consumption[u]) \in Nat
    BY <1>4, <1>6, UnitsNat
  <2>2. consumption[t] # NULL => consumption[t] \in Nat
    BY <1>4, <1>6 DEF Movement
  <2>3. consumption[t] # NULL => Units(consumption[u]) + consumption[t] # NULL
    BY <2>1, <2>2, StockAssumption
  <2>4. consumption[t] = NULL => k = consumption
    BY <1>9 DEF Repoint
  <2>5. ASSUME consumption[t] # NULL
        PROVE  k[u] # NULL /\ \A v \in Tab \ {t, u} : k[v] = consumption[v]
    <3>1. PICK m : m = Units(consumption[u]) + consumption[t]
      OBVIOUS
    <3>2. k = [consumption EXCEPT ![u] = m, ![t] = NULL]
      BY <1>9, <2>5, <3>1 DEF Repoint
    <3>3. m # NULL
      BY <2>3, <2>5, <3>1
    <3> QED
      BY <1>4, <1>6, <3>2, <3>3
  <2> QED
    BY <2>4, <2>5
<1>15. ASSUME NEW o \in Order, Stray(o)' PROVE Stray(o)
  <2>1. orders[o].status # "none" /\ k[orders'[o].tab] = NULL
    BY <1>5, <1>7, <1>9, <1>15 DEF Stray
  <2>2. orders[o].tab \in Tab
    BY <2>1 DEF StockInv, OrdersPlaced
  <2>3. CASE o \in OrdersOf(t)
    <3>1. orders[o].tab = t /\ orders'[o].tab = u
      BY <1>7, <2>3 DEF OrdersOf
    <3>2. consumption[t] = NULL
      BY <1>14, <2>1, <3>1
    <3> QED
      BY <2>1, <3>1, <3>2 DEF Stray
  <2>4. CASE o \notin OrdersOf(t)
    <3>1. orders'[o].tab = orders[o].tab /\ orders[o].tab # t
      BY <1>7, <2>1, <2>4 DEF OrdersOf
    <3>2. consumption[orders[o].tab] = NULL
      BY <1>4, <1>14, <2>1, <2>2, <3>1
    <3> QED
      BY <2>1, <3>2 DEF Stray
  <2> QED
    BY <2>3, <2>4
<1>16. OrdersHaveMovement'
  BY <1>3, <1>15, MovementsStay
<1>17. Moved
  <2>1. PICK R \in Nat, O \in Nat, C \in Nat :
          R = Sum(reversal, Tab) /\ O = Sum(orderReversal, Order) /\ C = Sum(consumption, Tab)
    BY BookedType DEF StockInv
  <2>2. /\ R = Sum(reversal', Tab) /\ O = Sum(orderReversal', Order) /\ C = Sum(consumption', Tab)
        /\ stock' \in Int
    BY <1>5, <1>6, <1>9, <1>10, <2>1
  <2>3. stock' - R - O + C =
          stock - Sum(reversal, Tab) - Sum(orderReversal, Order) + Sum(consumption, Tab)
    BY <1>5, <2>1
  <2> QED
    BY <1>5, <2>2, <2>3, UnitsMove DEF StockInv
<1> QED
  BY <1>3, <1>5, <1>12, <1>13, <1>16, <1>17 DEF Kept

-----------------------------------------------------------------------------
(* The back office's steps: nothing keeps stock and movements together here, *)
(* but its calls are there to show.                                          *)
LEMMA WorkShows ==
  ASSUME NEW c \in Call, calls'[c].op \in {"restock", "count", "edit"}
  PROVE  BooksBalance'
BY DEF BooksBalance, AtWork

(* The back office's save: the stock it read, and the units it adds or counted. *)
LEMMA SaveItemKeeps ==
  ASSUME StockInv, NEW c \in Call, SaveItem(c)
  PROVE  StockInv' /\ calls'[c] # calls[c]
<1>1. calls[c] \in CallState /\ CallSound(calls[c]) /\ calls[c].pc = "save"
  BY DEF StockInv, StockTypeOK, CallsSound, SaveItem
<1>2. PICK x \in {"done", "record"} : x = IF calls[c].op = "edit" THEN "done" ELSE "record"
  OBVIOUS
<1>3. PICK q : q = [calls[c] EXCEPT !.pc = x]
  OBVIOUS
<1>4. q \in CallState /\ q.pc = x /\ q.op = calls[c].op /\ q.quantity = calls[c].quantity
  BY <1>1, <1>3 DEF CallState
<1>5. CallSound(q)
  BY <1>1, <1>2, <1>4 DEF CallSound
<1>6. Become(c, q)
  BY <1>2, <1>3 DEF SaveItem
<1>7. /\ calls' \in [Call -> CallState] /\ CallsSound' /\ StockCallsGoOn /\ calls'[c] = q
  BY <1>1, <1>4, <1>5, <1>6, StockCallGoesOn
<1>8. /\ stock' = calls[c].value
      /\ UNCHANGED <<tabStatus, orders, consumption, reversal, orderReversal, purchased, adjusted>>
  BY DEF SaveItem
<1>9. stock' \in Nat
  BY <1>1, <1>8 DEF CallState
<1>10. StockTypeOK' /\ NeverNegative'
  BY <1>7, <1>8, <1>9 DEF StockInv, StockTypeOK, NeverNegative
<1>11. OrdersPlaced'
  BY <1>8 DEF StockInv, OrdersPlaced
<1>12. OrdersHaveMovement'
  BY <1>7, <1>8, MovementsStay DEF Stray
<1>13. BooksBalance'
  BY <1>1, <1>4, <1>7, WorkShows DEF CallSound
<1>14. AdjustedByCount'
  BY <1>7, <1>8 DEF StockInv, AdjustedByCount, StockCallsGoOn
<1> QED
  BY <1>1, <1>4, <1>7, <1>10, <1>11, <1>12, <1>13, <1>14 DEF StockInv

(* Its late movement. *)
LEMMA RecordMovementKeeps ==
  ASSUME StockInv, NEW c \in Call, RecordMovement(c)
  PROVE  StockInv' /\ calls'[c] # calls[c]
<1>1. /\ calls[c] \in CallState /\ calls[c].pc = "record" /\ calls[c].op \in {"restock", "count"}
      /\ calls[c].op = "restock" => calls[c].quantity \in Nat
  BY DEF StockInv, StockTypeOK, CallsSound, CallSound, RecordMovement
<1>2. Finish(c) /\ calls[c].pc \notin {"idle", "done"}
  BY <1>1 DEF RecordMovement
<1>3. /\ calls' \in [Call -> CallState] /\ CallsSound' /\ StockCallsGoOn
      /\ calls'[c] = [calls[c] EXCEPT !.pc = "done"]
  BY <1>2, StockCallFinishes
<1>4. calls'[c].op = calls[c].op /\ calls'[c].pc = "done"
  BY <1>1, <1>3 DEF CallState
<1>5. UNCHANGED <<stock, tabStatus, orders, consumption, reversal, orderReversal>>
  BY DEF RecordMovement
<1>6. PICK n \in Int : n = calls[c].quantity
  BY <1>1 DEF CallState
<1>7. purchased \in Nat /\ adjusted \in Int
  BY DEF StockInv, StockTypeOK
<1>8. purchased' \in Nat /\ adjusted' \in Int /\ (calls[c].op = "restock" => adjusted' = adjusted)
  <2>1. CASE calls[c].op = "restock"
    <3>1. n \in Nat /\ purchased' = purchased + n /\ adjusted' = adjusted
      BY <1>1, <1>6, <2>1 DEF RecordMovement
    <3> QED
      BY <1>7, <3>1
  <2>2. CASE calls[c].op = "count"
    <3>1. adjusted' = adjusted + n /\ purchased' = purchased
      BY <1>6, <2>2 DEF RecordMovement
    <3> QED
      BY <1>7, <2>2, <3>1
  <2> QED
    BY <1>1, <2>1, <2>2
<1>9. StockTypeOK' /\ NeverNegative'
  BY <1>3, <1>5, <1>8 DEF StockInv, StockTypeOK, NeverNegative
<1>10. OrdersPlaced'
  BY <1>5 DEF StockInv, OrdersPlaced
<1>11. OrdersHaveMovement'
  BY <1>3, <1>5, MovementsStay DEF Stray
<1>12. BooksBalance'
  BY <1>1, <1>4, WorkShows
<1>13. AdjustedByCount'
  <2>1. CASE calls[c].op = "restock"
    BY <1>3, <1>8, <2>1 DEF StockInv, AdjustedByCount, StockCallsGoOn
  <2>2. CASE calls[c].op = "count"
    BY <1>4, <2>2 DEF AdjustedByCount
  <2> QED
    BY <1>1, <2>1, <2>2
<1> QED
  BY <1>1, <1>3, <1>4, <1>9, <1>10, <1>11, <1>12, <1>13 DEF StockInv

-----------------------------------------------------------------------------
(* Every step but the back office's last two. *)
Handled(c) == Step(c) /\ ~ SaveItem(c) /\ ~ RecordMovement(c)

LEMMA HandledKeeps ==
  ASSUME StockInv, NEW c \in Call, Handled(c)
  PROVE  Kept
<1>1. CASE BeginRound(c) \/ BeginUpdate(c) \/ BeginVoid(c) \/ BeginMerge(c)
             \/ BeginRestock(c) \/ BeginCount(c) \/ BeginEdit(c)
  BY <1>1, BeginsKeep
<1>2. CASE CommitRound(c)
  BY <1>2, CommitRoundKeeps
<1>3. CASE SaveOrder(c)
  BY <1>3, SaveOrderKeeps
<1>4. CASE CommitVoid(c)
  BY <1>4, CommitVoidKeeps
<1>5. CASE CommitMerge(c)
  BY <1>5, CommitMergeKeeps
<1>6. CASE Abort(c)
  BY <1>6, AbortKeeps
<1> QED
  BY <1>1, <1>2, <1>3, <1>4, <1>5, <1>6 DEF Handled, Step

(* What a step is: one that keeps the books, or one of the back office's. *)
LEMMA StepKeeps ==
  ASSUME StockInv, Next
  PROVE  \/ Kept
         \/ \E c \in Call : /\ calls[c].pc \in {"save", "record"} /\ calls'[c] # calls[c]
                            /\ StockInv'
<1>1. ASSUME NEW c \in Call, SaveItem(c) \/ RecordMovement(c)
      PROVE  calls[c].pc \in {"save", "record"} /\ calls'[c] # calls[c] /\ StockInv'
  BY <1>1, SaveItemKeeps, RecordMovementKeeps DEF SaveItem, RecordMovement
<1>2. ASSUME NEW c \in Call, Handled(c) PROVE Kept
  BY <1>2, HandledKeeps
<1>3. ASSUME NEW t \in Tab, Pay(t) PROVE Kept
  BY <1>3, PayKeeps
<1>4. ASSUME NEW o \in Order, Resolve(o) \/ Cancel(o) PROVE Kept
  BY <1>4, ResolveKeeps, CancelKeeps
<1> QED
  BY <1>1, <1>2, <1>3, <1>4 DEF Next, Handled

LEMMA StutterKeeps ==
  ASSUME StockInv, UNCHANGED vars
  PROVE  StockInv' /\ Moved
<1>1. UNCHANGED <<stock, tabStatus, orders, consumption, reversal, orderReversal, purchased, adjusted, calls>>
  BY DEF vars
<1>2. calls' \in [Call -> CallState] /\ CallsSound' /\ StockCallsGoOn
  BY <1>1 DEF StockInv, StockTypeOK, CallsSound, StockCallsGoOn
<1>3. Kept
  BY <1>1, <1>2, CallsOnly
<1> QED
  BY <1>3, KeptKeeps DEF Kept

LEMMA StockStarts ==
  ASSUME Init
  PROVE  StockInv
<1>1. /\ stock = InitialStock /\ purchased = 0 /\ adjusted = 0
      /\ reversal = [t \in Tab |-> NULL] /\ orderReversal = [o \in Order |-> NULL]
      /\ consumption = [t \in Tab |-> NULL] /\ tabStatus = [t \in Tab |-> "open"]
      /\ calls = [c \in Call |-> IdleCall]
      /\ orders = [o \in Order |-> [status |-> "none", tab |-> NULL, quantity |-> 0]]
  BY DEF Init
<1>2. StockTypeOK
  <2>1. [status |-> "none", tab |-> NULL, quantity |-> 0] \in OrderRow
    BY StockAssumption DEF OrderRow, OrderStatus
  <2>2. NULL \in Movement /\ InitialStock \in Int
    BY StockAssumption DEF Movement
  <2> QED
    BY <1>1, <2>1, <2>2, IdleCallType DEF StockTypeOK
<1>3. CallsSound
  BY <1>1 DEF CallsSound, CallSound, IdleCall
<1>4. OrdersPlaced /\ OrdersHaveMovement
  BY <1>1 DEF OrdersPlaced, OrdersHaveMovement
<1>5. NeverNegative
  BY <1>1, StockAssumption DEF NeverNegative
<1>6. ASSUME NEW S, IsFiniteSet(S), NEW f, f = [x \in S |-> NULL] PROVE Sum(f, S) = 0
  <2>1. PICK g : g = [x \in S |-> Units(f[x])]
    OBVIOUS
  <2>2. \A x \in S : g[x] = 0
    BY <1>6, <2>1 DEF Units
  <2>3. Sums(g, S) = 0
    BY <1>6, <2>2, SumZero
  <2> QED
    BY <2>1, <2>3, SumOfUnits
<1>7. Sum(reversal, Tab) = 0 /\ Sum(orderReversal, Order) = 0 /\ Sum(consumption, Tab) = 0
  BY <1>1, <1>6, StockAssumption
<1>8. stock = Booked
  BY <1>1, <1>7, StockAssumption DEF Booked
<1>9. BooksBalance /\ AdjustedByCount
  BY <1>1, <1>8 DEF BooksBalance, AdjustedByCount
<1> QED
  BY <1>2, <1>3, <1>4, <1>5, <1>9 DEF StockInv

(* The stock is never negative, orders have their movement, and the movements *)
(* account for the stock until the back office works on it.                   *)
THEOREM StockInvariant == Spec => []StockInv
<1>1. Init => StockInv
  BY StockStarts
<1>2. StockInv /\ [Next]_vars => StockInv'
  BY StepKeeps, KeptKeeps, StutterKeeps
<1> QED
  BY <1>1, <1>2, PTL DEF Spec

(* The audit and the tally work the opening out backwards: only a count makes them differ. *)
LEMMA AuditStands ==
  ASSUME StockInv
  PROVE  AuditStandsOnLedger
<1>1. PICK R \in Nat, O \in Nat, C \in Nat :
        R = Sum(reversal, Tab) /\ O = Sum(orderReversal, Order) /\ C = Sum(consumption, Tab)
  BY BookedType DEF StockInv
<1>2. PICK s \in Int, p \in Int, a \in Int : s = stock /\ p = purchased /\ a = adjusted
  BY DEF StockInv, StockTypeOK
<1>3. InitialStock \in Int
  BY StockAssumption
<1>4. PICK w \in Int : w = s - p + C - a
  OBVIOUS
<1>5. AuditedOpening = w /\ TallyOpening = w
  BY <1>1, <1>2, <1>4 DEF AuditedOpening, TallyOpening, Sold
<1>6. Slippage = s - (w + p - C) /\ (IsTallyValid <=> s = w + p - C)
  BY <1>1, <1>2, <1>5 DEF Slippage, IsTallyValid, Sold
<1>7. s - (w + p - C) = a /\ (a = 0 <=> s = w + p - C)
  BY <1>4
<1>8. ASSUME \A c \in Call : calls[c].op \notin {"restock", "count", "edit"}
      PROVE  AuditedOpening = InitialStock + Sum(reversal, Tab) + Sum(orderReversal, Order)
  <2>1. stock = Booked
    BY <1>8 DEF StockInv, BooksBalance, AtWork
  <2>2. s = InitialStock + p + a + R + O - C
    BY <1>1, <1>2, <2>1 DEF Booked
  <2>3. w = InitialStock + R + O
    BY <1>3, <1>4, <2>2
  <2> QED
    BY <1>1, <1>5, <2>3
<1>9. ASSUME AuditStatus \in {"Shortage", "Surplus"} \/ ~ IsTallyValid
      PROVE  \E c \in Call : calls[c].op = "count"
  <2>1. a # 0
    <3>1. CASE ~ IsTallyValid
      BY <1>6, <1>7, <3>1
    <3>2. CASE AuditStatus \in {"Shortage", "Surplus"}
      <4>1. Slippage # 0
        BY <3>2 DEF AuditStatus
      <4> QED
        BY <1>6, <1>7, <4>1
    <3> QED
      BY <1>9, <3>1, <3>2
  <2> QED
    BY <1>2, <2>1 DEF StockInv, AdjustedByCount
<1> QED
  BY <1>8, <1>9 DEF AuditStandsOnLedger

(* Nothing is oversold or loses its movement, and the audit and the tally *)
(* stand on the ledger.                                                   *)
THEOREM StockIsHeldAlways == Spec => []StockIsHeld
<1>1. StockInv => StockIsHeld
  BY AuditStands DEF StockInv, StockIsHeld
<1> QED
  BY <1>1, StockInvariant, PTL

(* Only the back office's save and its late movement part stock and movements. *)
THEOREM OnlyBackOfficeDriftsAlways == Spec => OnlyBackOfficeDrifts
<1>1. StockInv /\ [Next]_vars =>
        [stock' - Booked' # stock - Booked =>
           \E c \in Call : calls[c].pc \in {"save", "record"} /\ calls'[c] # calls[c]]_vars
  BY StepKeeps DEF Kept, Moved
<1> QED
  BY <1>1, StockInvariant, PTL DEF Spec, OnlyBackOfficeDrifts

===========================================================================
