---------------------------- MODULE RoleMigration -----------------------------
(***************************************************************************)
(* What the configuration script promises for the roles of the chat        *)
(* service, whoever runs it, however often, and wherever it stops: users   *)
(* go from the old role to new ones that exist, and never back; the old    *)
(* role is retired once, when nobody has it or will be given it.  Users    *)
(* may join at any time.  ConfigureChat implements this specification with *)
(* overlapping runs that may fail at every call.                           *)
(***************************************************************************)
CONSTANTS
    User,           \* the chat users
    Role,           \* the new roles
    OldRole,        \* the role of a new chat service
    None            \* no role: a user who did not join

VARIABLES
    roles,          \* the roles there are
    defaultRole,    \* the role of whoever joins
    roleOf          \* roleOf[u]: the role of user u

vars == <<roles, defaultRole, roleOf>>

Init ==
    /\ roles = {OldRole}
    /\ defaultRole = OldRole
    /\ roleOf = [u \in User |-> None]

Join(u) ==
    /\ roleOf[u] = None
    /\ roleOf' = [roleOf EXCEPT ![u] = defaultRole]
    /\ UNCHANGED <<roles, defaultRole>>

Create(role) ==
    /\ roles' = roles \cup {role}
    /\ UNCHANGED <<defaultRole, roleOf>>

ChangeDefault(role) ==
    /\ role \in roles
    /\ defaultRole' = role
    /\ UNCHANGED <<roles, roleOf>>

\* Any number of users who joined are given the role.
Assign(role) ==
    /\ role \in roles
    /\ \E moved \in SUBSET {u \in User : roleOf[u] # None} :
         roleOf' = [u \in User |-> IF u \in moved THEN role ELSE roleOf[u]]
    /\ UNCHANGED <<roles, defaultRole>>

Retire ==
    /\ OldRole # defaultRole /\ \A u \in User : roleOf[u] # OldRole
    /\ roles' = roles \ {OldRole}
    /\ UNCHANGED <<defaultRole, roleOf>>

Next ==
    \/ \E u \in User : Join(u)
    \/ \E role \in Role : Create(role) \/ ChangeDefault(role) \/ Assign(role)
    \/ Retire

Spec == Init /\ [][Next]_vars
=============================================================================
