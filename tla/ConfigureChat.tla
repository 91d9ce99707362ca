---------------------------- MODULE ConfigureChat -----------------------------
(***************************************************************************)
(* The script configureChat fixes the default permissions of the chat      *)
(* service: it registers the webhook, creates a role with fewer            *)
(* permissions unless there is one, makes it the default of new users,     *)
(* assigns it to all users, and deletes the role "service user", Twilio's  *)
(* default.  It ends with the first call that fails and is run again.      *)
(* Meanwhile setUpUserChannels creates users, and the script may be run by *)
(* two operators at the same time.                                         *)
(***************************************************************************)
CONSTANTS
    Run,            \* the runs of the script
    User,           \* the chat users
    Role,           \* the roles "service role (anonymous access)" it creates
    ServiceUser,    \* the role "service user" of a new chat service
    None            \* no role: a user who does not exist

ASSUME RolesAssumption == ServiceUser \notin Role /\ None \notin Role \cup {ServiceUser}

VARIABLES
    webhook,        \* whether Twilio calls the webhook receiver
    roles,          \* the roles of the chat service
    defaultRole,    \* the role that a new user is given
    roleOf,         \* roleOf[u]: the role of user u
    pc,             \* pc[r]: what run r does next
    oldListed,      \* the runs whose list of roles has the role "service user"
    userRole,       \* userRole[r]: the role that run r assigns
    unassigned,     \* unassigned[r]: the listed users it has yet to assign it to
    hit             \* the runs a call of which failed

service == <<webhook, roles, defaultRole, roleOf>>
script == <<pc, oldListed, userRole, unassigned>>
vars == <<service, script, hit>>

Init ==
    /\ webhook = FALSE
    /\ roles = {ServiceUser}
    /\ defaultRole = ServiceUser
    /\ roleOf = [u \in User |-> None]
    /\ pc = [r \in Run |-> "idle"]
    /\ oldListed = {}
    /\ userRole = [r \in Run |-> None]
    /\ unassigned = [r \in Run |-> {}]
    /\ hit = {}

Goto(r, step) == pc' = [pc EXCEPT ![r] = step]

Ended(r) == pc[r] \in {"done", "failed"}

\* The users that exist.
Users == {u \in User : roleOf[u] # None}

-----------------------------------------------------------------------------
(* setUpUserChannels                                                       *)

CreateUser(u) ==
    /\ u \notin Users
    /\ roleOf' = [roleOf EXCEPT ![u] = defaultRole]
    /\ UNCHANGED <<webhook, roles, defaultRole, script, hit>>

-----------------------------------------------------------------------------
(* configureChat                                                           *)

\* The settings and the URL of the webhook receiver are there.
Start(r) ==
    /\ pc[r] = "idle"
    /\ Goto(r, "webhook")
    /\ UNCHANGED <<service, oldListed, userRole, unassigned, hit>>

RegisterWebhook(r) ==
    /\ pc[r] = "webhook"
    /\ webhook' = TRUE
    /\ Goto(r, "roles")
    /\ UNCHANGED <<roles, defaultRole, roleOf, oldListed, userRole, unassigned, hit>>

\* Mutant of ListRoles: the first role of the list is taken, whatever its name.
ListRolesByPosition(r) ==
    /\ pc[r] = "roles"
    /\ oldListed' = IF ServiceUser \in roles THEN oldListed \cup {r} ELSE oldListed
    /\ \E role \in roles : userRole' = [userRole EXCEPT ![r] = role]
    /\ Goto(r, "default")
    /\ UNCHANGED <<service, unassigned, hit>>

\* A role with the name is taken, if the list has one.
ListRoles(r) ==
    /\ pc[r] = "roles"
    /\ oldListed' = IF ServiceUser \in roles THEN oldListed \cup {r} ELSE oldListed
    /\ \/ /\ \E role \in roles \cap Role : userRole' = [userRole EXCEPT ![r] = role]
          /\ Goto(r, "default")
       \/ /\ roles \cap Role = {}
          /\ Goto(r, "create")
          /\ UNCHANGED userRole
    /\ UNCHANGED <<service, unassigned, hit>>

CreateRole(r) ==
    /\ pc[r] = "create"
    /\ \E role \in Role \ roles :
         /\ roles' = roles \cup {role}
         /\ userRole' = [userRole EXCEPT ![r] = role]
    /\ Goto(r, "default")
    /\ UNCHANGED <<webhook, defaultRole, roleOf, oldListed, unassigned, hit>>

\* Mutant of SetDefault: only a role that was just created is made the default,
\* which is missing if an earlier run failed after it had created the role.
SetDefaultOfNew(r) ==
    /\ pc[r] = "default"
    /\ defaultRole' = IF \E s \in Run \ {r} : userRole[s] = userRole[r]
                      THEN defaultRole ELSE userRole[r]
    /\ Goto(r, "users")
    /\ UNCHANGED <<webhook, roles, roleOf, oldListed, userRole, unassigned, hit>>

SetDefault(r) ==
    /\ pc[r] = "default"
    /\ defaultRole' = userRole[r]
    /\ Goto(r, "users")
    /\ UNCHANGED <<webhook, roles, roleOf, oldListed, userRole, unassigned, hit>>

ListUsers(r) ==
    /\ pc[r] = "users"
    /\ unassigned' = [unassigned EXCEPT ![r] = Users]
    /\ Goto(r, "assign")
    /\ UNCHANGED <<service, oldListed, userRole, hit>>

\* Mutant of AssignRole: the role is assigned by its name, not by its sid.
AssignRoleByName(r, u) ==
    /\ pc[r] = "assign" /\ u \in unassigned[r]
    /\ roleOf' = [roleOf EXCEPT ![u] = "service role (anonymous access)"]
    /\ unassigned' = [unassigned EXCEPT ![r] = @ \ {u}]
    /\ UNCHANGED <<webhook, roles, defaultRole, pc, oldListed, userRole, hit>>

\* All the users are assigned the role at the same time.
AssignRole(r, u) ==
    /\ pc[r] = "assign" /\ u \in unassigned[r]
    /\ roleOf' = [roleOf EXCEPT ![u] = userRole[r]]
    /\ unassigned' = [unassigned EXCEPT ![r] = @ \ {u}]
    /\ UNCHANGED <<webhook, roles, defaultRole, pc, oldListed, userRole, hit>>

\* Mutant of RemoveRole: it does not wait for the assignments.
RemoveRoleEarly(r) ==
    /\ pc[r] = "assign"
    /\ roles' = IF r \in oldListed THEN roles \ {ServiceUser} ELSE roles
    /\ Goto(r, IF r \in oldListed /\ ServiceUser \notin roles THEN "failed" ELSE "done")
    /\ UNCHANGED <<webhook, defaultRole, roleOf, oldListed, userRole, unassigned, hit>>

\* The role "service user" is deleted if it was listed.  That fails if another
\* run has deleted it since.
RemoveRole(r) ==
    /\ pc[r] = "assign" /\ unassigned[r] = {}
    /\ roles' = IF r \in oldListed THEN roles \ {ServiceUser} ELSE roles
    /\ Goto(r, IF r \in oldListed /\ ServiceUser \notin roles THEN "failed" ELSE "done")
    /\ UNCHANGED <<webhook, defaultRole, roleOf, oldListed, userRole, unassigned, hit>>

-----------------------------------------------------------------------------
(* Failures: a call fails, executed or not, or the script is interrupted,   *)
(* and the run ends.                                                        *)

Fail(r) ==
    /\ hit' = hit \cup {r}
    /\ Goto(r, "failed")
    /\ UNCHANGED <<oldListed, userRole, unassigned>>

\* What the call under way may have done to the service: of the assignments,
\* which are all under way, any may be done.
CallExecuted(r) ==
    \/ pc[r] = "webhook" /\ webhook' = TRUE /\ UNCHANGED <<roles, defaultRole, roleOf>>
    \/ /\ pc[r] = "create"
       /\ \E role \in Role \ roles : roles' = roles \cup {role}
       /\ UNCHANGED <<webhook, defaultRole, roleOf>>
    \/ pc[r] = "default" /\ defaultRole' = userRole[r] /\ UNCHANGED <<webhook, roles, roleOf>>
    \/ /\ pc[r] = "assign"
       /\ \E done \in SUBSET unassigned[r] :
            roleOf' = [u \in User |-> IF u \in done THEN userRole[r] ELSE roleOf[u]]
       /\ UNCHANGED <<webhook, roles, defaultRole>>
    \/ /\ pc[r] = "assign" /\ unassigned[r] = {} /\ r \in oldListed
       /\ roles' = roles \ {ServiceUser}
       /\ UNCHANGED <<webhook, defaultRole, roleOf>>

CallFault(r) ==
    /\ pc[r] # "idle" /\ ~Ended(r)
    /\ UNCHANGED service \/ CallExecuted(r)
    /\ Fail(r)

-----------------------------------------------------------------------------
Step(r) ==
    \/ Start(r) \/ RegisterWebhook(r) \/ ListRoles(r) \/ CreateRole(r) \/ SetDefault(r)
    \/ ListUsers(r) \/ RemoveRole(r)
    \/ \E u \in User : AssignRole(r, u)

Next ==
    \/ \E u \in User : CreateUser(u)
    \/ \E r \in Run : Step(r) \/ CallFault(r)

Spec == Init /\ [][Next]_vars

-----------------------------------------------------------------------------
(* Properties                                                              *)

\* The chat service and the runs hold what the script writes.
TypeOK ==
    /\ webhook \in BOOLEAN
    /\ roles \subseteq Role \cup {ServiceUser}
    /\ defaultRole \in Role \cup {ServiceUser}
    /\ roleOf \in [User -> Role \cup {ServiceUser, None}]
    /\ pc \in [Run -> {"idle", "webhook", "roles", "create", "default", "users", "assign",
                       "done", "failed"}]
    /\ oldListed \subseteq Run
    /\ userRole \in [Run -> Role \cup {None}]
    /\ unassigned \in [Run -> SUBSET User]
    /\ hit \subseteq Run

\* No user is left with a role that was deleted, and none is created with one,
\* also if he was created between any two calls of the script.
RolesExist == defaultRole \in roles /\ \A u \in Users : roleOf[u] \in roles

\* "Fix the default Twilio permissions" (README.md:81): after a run of which no
\* call failed the role "service user" is gone, nobody has it and nobody will be
\* given it, whatever an earlier run left behind when it failed and although
\* another run is under way; that this other one has deleted the role first may
\* end the run with an error, and does no harm.
PermissionsFixed ==
    \A r \in Run : Ended(r) /\ r \notin hit =>
        /\ webhook
        /\ ServiceUser \notin roles \cup {defaultRole}
        /\ \A u \in User : roleOf[u] # ServiceUser

\* Runs that overlap, fail anywhere and are repeated implement the migration of the
\* roles: no run takes back what another one did, creates a user it has listed
\* again, or retires the role "service user" while somebody has it.
Migration == INSTANCE RoleMigration WITH
    User <- User, Role <- Role, OldRole <- ServiceUser, None <- None,
    roles <- roles, defaultRole <- defaultRole, roleOf <- roleOf
ImplementsMigration == Migration!Spec

-----------------------------------------------------------------------------
(* The inductive invariant: how far a run has come.                         *)

\* A run assigns a role that exists, and has seen the role "service user" if
\* there still is one.
RunsKnow ==
    \A r \in Run :
      /\ pc[r] \in {"default", "users", "assign"} => userRole[r] \in roles
      /\ pc[r] \in {"create", "default", "users", "assign"} /\ ServiceUser \in roles =>
            r \in oldListed
      /\ pc[r] \in {"roles", "create", "default", "users", "assign", "done"} => webhook

\* Once a run has set the default, no user is given the role "service user", and
\* once it has listed the users, only those it has yet to change have it.
RunsProgress ==
    \A r \in Run :
      /\ pc[r] \in {"users", "assign", "done"} => defaultRole # ServiceUser
      /\ pc[r] = "assign" =>
            \A u \in User : roleOf[u] = ServiceUser => u \in unassigned[r]

\* The role "service user" is deleted when nobody has it any more.
OldUnused ==
    ServiceUser \notin roles =>
        defaultRole # ServiceUser /\ \A u \in User : roleOf[u] # ServiceUser

\* The users that a run has yet to change exist.
ListedExist == \A r \in Run : unassigned[r] \subseteq Users

IInv ==
    /\ TypeOK
    /\ RunsKnow
    /\ RunsProgress
    /\ OldUnused
    /\ RolesExist
    /\ PermissionsFixed
=============================================================================
