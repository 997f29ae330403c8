------------------------------- MODULE Roles -------------------------------
(***************************************************************************)
(* The permissions and roles of the platform (role/), which every instance  *)
(* of the server completes when it starts: it inserts the permissions that  *)
(* are missing, then one default role after the other.  The name of a role  *)
(* is not unique in the database, and registering a business, creating a    *)
(* member of staff or a rider creates the role it needs and does not find.  *)
(* A release may bring permissions; a role that exists is left untouched.   *)
(***************************************************************************)
EXTENDS Naturals, FiniteSets

CONSTANTS
  Codes,           \* permission codes, of the newest release
  OldCodes,        \* those of the release before
  RoleNames,       \* default roles, "Owner" among them
  CodesOf,         \* CodesOf[r]: the codes of a default role in the newest release
  OnDemand,        \* the roles that other services create when they are missing
  Servers,         \* instances, and requests that create roles
  MaxRoleCalls     \* bound: starts, creations and edits in a behaviour

ASSUME RoleAssumption ==
  /\ OldCodes \subseteq Codes /\ OnDemand \subseteq RoleNames
  /\ CodesOf \in [RoleNames -> SUBSET Codes]
  /\ MaxRoleCalls \in Nat

VARIABLES
  permissions,   \* rows of permissions
  roles,         \* rows of roles: name, number among those of the name, codes
  servers,       \* what each instance or request is doing
  seeded,        \* is an instance ready that no other one overlapped
  edited,        \* history: the rows the administrator wrote, each as it was last left
  twice,         \* history: names two creators looked for before one of them saved
  roleCalls

roleVars == <<permissions, roles, servers, seeded, edited, twice, roleCalls>>

RoleRow == [name: RoleNames, number: Nat, codes: SUBSET Codes]
IdleServer == [at |-> "idle", release |-> Codes, todo |-> {}]

RoleInit ==
  /\ permissions = {}
  /\ roles = {}
  /\ servers = [i \in Servers |-> IdleServer]
  /\ seeded = FALSE
  /\ edited = {}
  /\ twice = {}
  /\ roleCalls = 0

RolesNamed(n) == { r \in roles : r.name = n }
DoingAt(i, at) == servers[i].at = at /\ UNCHANGED roleCalls

BeginRoleCall(i) == servers[i].at = "idle" /\ roleCalls < MaxRoleCalls /\ roleCalls' = roleCalls + 1

CreateRole(i, n, codes) ==
  /\ roles' = roles \cup {[name |-> n, number |-> Cardinality(RolesNamed(n)), codes |-> codes \cap permissions]}
  /\ twice' = IF RolesNamed(n) # {} THEN twice \cup {n} ELSE twice

---------------------------------------------------------------------------
(* RoleSeedService.seed, of an instance of either release. *)
(* Mutant: when there are permissions, the seed was done before and no role is looked for. *)
RolesUnlessSeeded == IF permissions = {} THEN RoleNames ELSE {}
RolesToEnsure == RoleNames
Missing(release) == release \ permissions

Bootstrap(i) ==
  /\ BeginRoleCall(i)
  /\ \E release \in {OldCodes, Codes} :
       servers' = [servers EXCEPT ![i] = [at |-> "insert", release |-> release, todo |-> Missing(release)]]
  /\ seeded' = FALSE
  /\ UNCHANGED <<permissions, roles, edited, twice>>

(* A code that another instance inserted meanwhile is refused, and the start fails. *)
InsertPermissions(i) ==
  LET me == servers[i]
  IN /\ DoingAt(i, "insert")
     /\ IF me.todo \cap permissions = {}
        THEN /\ permissions' = permissions \cup me.todo
             /\ servers' = [servers EXCEPT ![i].at = "find", ![i].todo = RolesToEnsure]
        ELSE servers' = [servers EXCEPT ![i] = IdleServer] /\ UNCHANGED permissions
     /\ UNCHANGED <<roles, seeded, edited, twice>>

(* One name after the other: those that exist are skipped. *)
NextName(i) == CHOOSE n \in servers[i].todo : TRUE

FindRole(i) ==
  LET me == servers[i]
      n == NextName(i)
  IN /\ DoingAt(i, "find") /\ me.todo # {}
     /\ servers' = IF RolesNamed(n) # {} THEN [servers EXCEPT ![i].todo = @ \ {n}]
                   ELSE [servers EXCEPT ![i].at = "save"]
     /\ UNCHANGED <<permissions, roles, seeded, edited, twice>>

SaveRole(i) ==
  LET me == servers[i]
      n == NextName(i)
  IN /\ DoingAt(i, "save")
     /\ CreateRole(i, n, CodesOf[n] \cap me.release)
     /\ servers' = [servers EXCEPT ![i].at = "find", ![i].todo = @ \ {n}]
     /\ UNCHANGED <<permissions, seeded, edited>>

Ready(i) ==
  /\ DoingAt(i, "find") /\ servers[i].todo = {}
  /\ servers' = [servers EXCEPT ![i] = IdleServer]
  /\ seeded' = TRUE
  /\ UNCHANGED <<permissions, roles, edited, twice>>

---------------------------------------------------------------------------
(* register, createWaiter and riders look for a role and create it; they run on instances that are ready. *)
LookForRole(i) ==
  \E n \in OnDemand :
    /\ BeginRoleCall(i)
    /\ permissions # {}
    /\ RolesNamed(n) = {}
    /\ servers' = [servers EXCEPT ![i] = [IdleServer EXCEPT !.at = "create", !.todo = {n}]]
    /\ UNCHANGED <<permissions, roles, seeded, edited, twice>>

CreateOnDemand(i) ==
  LET n == NextName(i)
  IN /\ DoingAt(i, "create")
     /\ CreateRole(i, n, IF n = "Owner" THEN permissions ELSE CodesOf[n])
     /\ servers' = [servers EXCEPT ![i] = IdleServer]
     /\ UNCHANGED <<permissions, seeded, edited>>

(* The administrator of the platform may change any role but the owner's (RolesGuard, updateRolePermissions). *)
Changeable(n) == n # "Owner"

UpdateRolePermissions ==
  /\ roleCalls < MaxRoleCalls /\ roleCalls' = roleCalls + 1
  /\ \E r \in roles, codes \in SUBSET permissions :
       /\ Changeable(r.name)
       /\ roles' = (roles \ {r}) \cup {[r EXCEPT !.codes = codes]}
       /\ edited' = (edited \ {r}) \cup {[r EXCEPT !.codes = codes]}
  /\ UNCHANGED <<permissions, servers, seeded, twice>>

CutRoleCall(i) ==
  /\ servers[i].at # "idle" /\ UNCHANGED roleCalls
  /\ servers' = [servers EXCEPT ![i] = IdleServer]
  /\ UNCHANGED <<permissions, roles, seeded, edited, twice>>

RoleNext ==
  \/ \E i \in Servers :
       \/ Bootstrap(i) \/ InsertPermissions(i) \/ FindRole(i) \/ SaveRole(i) \/ Ready(i)
       \/ LookForRole(i) \/ CreateOnDemand(i) \/ CutRoleCall(i)
  \/ UpdateRolePermissions

RoleSpec == RoleInit /\ [][RoleNext]_roleVars

---------------------------------------------------------------------------
(* Rows, starts and histories have their types. *)
RoleTypeOK ==
  /\ permissions \subseteq Codes
  /\ \A r \in roles : r \in RoleRow
  /\ servers \in [Servers -> [at: {"idle", "insert", "find", "save", "create"}, release: SUBSET Codes,
                              todo: SUBSET (Codes \cup RoleNames)]]
  /\ seeded \in BOOLEAN
  /\ \A r \in edited : r \in RoleRow
  /\ twice \subseteq RoleNames
  /\ roleCalls \in 0 .. MaxRoleCalls

EditedNames == { r.name : r \in edited }

(* "ensure every default role exists with its permissions" and "leave pre-existing roles untouched" (the  *)
(* comments of seed, role-seed.service.ts:612 and 640): once an instance is ready every default role      *)
(* exists, whatever starts failed, overlapped or stopped before, and once only, unless two creators looked *)
(* for it at the same time; a role the administrator changed stays as they left it; and one nobody changed *)
(* has what the older release gives it.  What a newer release adds reaches no role that exists already, so *)
(* no more than the older release's permissions is claimed.                                                *)
DefaultRolesExist ==
  /\ seeded => \A n \in RoleNames : RolesNamed(n) # {}
  /\ \A r \in roles : r.name \notin EditedNames => CodesOf[r.name] \cap OldCodes \subseteq r.codes
  /\ edited \subseteq roles
  /\ \A n \in RoleNames : Cardinality(RolesNamed(n)) > 1 => n \in twice

=============================================================================
