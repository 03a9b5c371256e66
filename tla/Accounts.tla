------------------------------- MODULE Accounts -------------------------------
(***************************************************************************)
(* The accounts of the employees and the administrators who change them:   *)
(* the routes of the back office under app/api/admin/users, each of which  *)
(* reads the session of its caller first and writes later, without looking *)
(* again when it changes a role; Better Auth looks again when it creates   *)
(* or removes a user (lib/auth-access.ts).  The endpoints of Better Auth's *)
(* admin plugin are mounted beside them (app/api/auth/[...all]/route.ts):  *)
(* no page calls them, but they answer an administrator's session too, and *)
(* without the refusals of the routes.                                     *)
(***************************************************************************)
EXTENDS FiniteSets

CONSTANTS
  Users,       \* the accounts there may be
  FirstAdmin,  \* the one an installation begins with
  RequestIds,  \* requests under way
  NoUser

ASSUME AccountsAssumption ==
  /\ FirstAdmin \in Users
  /\ NoUser \notin Users

VARIABLES
  roleOf,      \* the role of each account: admin, another, or none
  request,     \* the requests between the check of the session and the write
  overlapped,  \* history: did two requests to take away a role overlap?
  selfDemoted  \* history: did one ask Better Auth to take away his own?

accountVars == <<roleOf, request, overlapped, selfDemoted>>

AccountRoles == {"admin", "vendeur"}
IsUser(u) == roleOf[u] # "absent"

Ops == {"role", "remove", "create"}
NoAdminRequest == [op |-> "none", caller |-> NoUser, target |-> NoUser, role |-> "absent"]

AccountsInit ==
  /\ roleOf = [u \in Users |-> IF u = FirstAdmin THEN "admin" ELSE "absent"]
  /\ request = [r \in RequestIds |-> NoAdminRequest]
  /\ overlapped = FALSE
  /\ selfDemoted = FALSE

\* A request that may leave an account without the role of an administrator.
TakesAway(work) == work.op = "remove" \/ (work.op = "role" /\ work.role # "admin")

Begin(r, work) ==
  /\ request[r] = NoAdminRequest
  /\ request' = [request EXCEPT ![r] = work]
  /\ overlapped' = (overlapped \/ /\ TakesAway(work)
                                  /\ \E q \in RequestIds : TakesAway(request[q]))
  /\ UNCHANGED roleOf

\* Variant: any account may be changed, one's own too.
MayChangeAnyone(caller, target) == IsUser(target)

\* PATCH role and DELETE refuse one's own account.
MayChange(caller, target) == target # caller

\* requireAdminUserManagementSession and the checks of PATCH, DELETE and POST.
BeginChange(r, caller, target, role) ==
  /\ roleOf[caller] = "admin"
  /\ MayChange(caller, target)
  /\ Begin(r, [op |-> "role", caller |-> caller, target |-> target, role |-> role])
  /\ UNCHANGED selfDemoted

BeginRemoval(r, caller, target) ==
  /\ roleOf[caller] = "admin"
  /\ MayChange(caller, target) /\ IsUser(target)
  /\ Begin(r, [op |-> "remove", caller |-> caller, target |-> target, role |-> "absent"])
  /\ UNCHANGED selfDemoted

BeginCreation(r, caller, target, role) ==
  /\ roleOf[caller] = "admin"
  /\ Begin(r, [op |-> "create", caller |-> caller, target |-> target, role |-> role])
  /\ UNCHANGED selfDemoted

\* set-role, remove-user or create-user, called at Better Auth: it asks for the
\* permission of an administrator, of which role and target it asks nothing.
\* That a version of it may refuse to remove oneself is not relied on.
BeginAtBetterAuth(r, caller, target, op, role) ==
  /\ roleOf[caller] = "admin"
  /\ LET work == [op |-> op, caller |-> caller, target |-> target, role |-> role]
     IN  /\ Begin(r, work)
         /\ selfDemoted' = (selfDemoted \/ (TakesAway(work) /\ target = caller))

End(r, op) ==
  /\ request[r].op = op
  /\ request' = [request EXCEPT ![r] = NoAdminRequest]
  /\ UNCHANGED <<overlapped, selfDemoted>>

\* updateUserRole, or set-role of Better Auth: an UPDATE by id, which finds no
\* row for a removed account.
UpdateUserRole(r) ==
  /\ End(r, "role")
  /\ LET t == request[r].target
     IN  roleOf' = IF IsUser(t) THEN [roleOf EXCEPT ![t] = request[r].role] ELSE roleOf

\* removeUser of Better Auth: the caller must be an administrator still.
RemoveUser(r) ==
  /\ End(r, "remove")
  /\ roleOf' = IF roleOf[request[r].caller] = "admin"
               THEN [roleOf EXCEPT ![request[r].target] = "absent"] ELSE roleOf

\* createUser of Better Auth: likewise, and the address must be new.
CreateUser(r) ==
  /\ End(r, "create")
  /\ LET t == request[r].target
     IN  roleOf' = IF roleOf[request[r].caller] = "admin" /\ ~ IsUser(t)
                   THEN [roleOf EXCEPT ![t] = request[r].role] ELSE roleOf

\* The request dies before it writes.
Abandon(r) ==
  /\ \E op \in Ops : End(r, op)
  /\ UNCHANGED roleOf

\* A first sign-in with GitHub or Google, where they are set up, makes an
\* account with the default role: disableSignUp is for passwords only.
SocialSignUp(u) ==
  /\ ~ IsUser(u)
  /\ roleOf' = [roleOf EXCEPT ![u] = "vendeur"]
  /\ UNCHANGED <<request, overlapped, selfDemoted>>

AccountsNext ==
  \/ \E u \in Users : SocialSignUp(u)
  \/ \E r \in RequestIds :
      \/ \E caller, target \in Users :
           \/ \E role \in AccountRoles :
                BeginChange(r, caller, target, role) \/ BeginCreation(r, caller, target, role)
           \/ BeginRemoval(r, caller, target)
           \/ \E op \in Ops, role \in AccountRoles :
                BeginAtBetterAuth(r, caller, target, op, role)
      \/ UpdateUserRole(r) \/ RemoveUser(r) \/ CreateUser(r) \/ Abandon(r)

AccountsSpec == AccountsInit /\ [][AccountsNext]_accountVars

-----------------------------------------------------------------------------
(* Properties.                                                             *)

\* There is always an administrator, as long as no two requests that take a
\* role or an account away overlap and none asks Better Auth to take away his
\* own: the routes of the back office refuse that, and what one request takes
\* away leaves its caller.  Two administrators who demote each other at the
\* same time leave none, nor does the only one who calls set-role on himself.
SomeAdminRemains ==
  overlapped \/ selfDemoted \/ \E u \in Users : roleOf[u] = "admin"
=============================================================================
