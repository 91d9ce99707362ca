------------------------- MODULE ConfigureChatProofs --------------------------
(***************************************************************************)
(* Theorems about ConfigureChat, for every number of runs of the script,   *)
(* every set of users, and users created at any time.  They rest on the    *)
(* order of the script's calls: once the default role is set, nobody gets  *)
(* the old one any more, so that those listed afterwards are all who have  *)
(* it, and the role is deleted when all of them have changed.              *)
(***************************************************************************)
EXTENDS ConfigureChat, TLAPS

LEMMA InitIInv == Init => IInv
  BY RolesAssumption DEF Init, IInv, TypeOK, RunsKnow, RunsProgress, OldUnused, RolesExist,
     PermissionsFixed, Users, Ended

-----------------------------------------------------------------------------
(* What the steps have in common                                           *)

\* A step of the script or of Twilio takes nothing back: the webhook stays, a
\* deleted role is not created again, and nobody is given the old role after it
\* ceased to be the default.
Forward ==
    /\ webhook => webhook'
    /\ roles \cap Role \subseteq roles'
    /\ ServiceUser \in roles' => ServiceUser \in roles
    /\ defaultRole' = ServiceUser => defaultRole = ServiceUser
    /\ \A u \in User :
         roleOf'[u] = ServiceUser => roleOf[u] = ServiceUser \/ defaultRole = ServiceUser

\* Run s takes no part in a step.
Aside(s) ==
    /\ pc'[s] = pc[s] /\ userRole'[s] = userRole[s] /\ unassigned'[s] = unassigned[s]
    /\ s \in oldListed => s \in oldListed'
    /\ s \in hit' <=> s \in hit

\* What IInv says of a single run.
RunHolds(r) ==
    /\ pc[r] \in {"default", "users", "assign"} => userRole[r] \in roles
    /\ pc[r] \in {"create", "default", "users", "assign"} /\ ServiceUser \in roles =>
          r \in oldListed
    /\ pc[r] \in {"roles", "create", "default", "users", "assign", "done"} => webhook
    /\ pc[r] \in {"users", "assign", "done"} => defaultRole # ServiceUser
    /\ pc[r] = "assign" => \A u \in User : roleOf[u] = ServiceUser => u \in unassigned[r]
    /\ Ended(r) /\ r \notin hit =>
         /\ webhook
         /\ ServiceUser \notin roles \cup {defaultRole}
         /\ \A u \in User : roleOf[u] # ServiceUser

LEMMA ByRun ==
    /\ IInv => \A r \in Run : RunHolds(r)
    /\ TypeOK' /\ OldUnused' /\ RolesExist' /\ (\A r \in Run : RunHolds(r)') => IInv'
  BY DEF IInv, RunsKnow, RunsProgress, PermissionsFixed, RunHolds, Ended

LEMMA AsideHolds ==
    ASSUME IInv, Forward, NEW s \in Run, Aside(s)
    PROVE  RunHolds(s)'
<1>1. RunHolds(s) /\ userRole[s] \in Role \cup {None}
  BY ByRun DEF IInv, TypeOK
<1>2. pc[s] \in {"default", "users", "assign"} => userRole[s] \in roles'
  BY <1>1, RolesAssumption DEF RunHolds, Forward, IInv, TypeOK
<1>3. pc[s] = "assign" => \A u \in User : roleOf'[u] = ServiceUser => u \in unassigned[s]
  BY <1>1 DEF RunHolds, Forward
<1>4. Ended(s) /\ s \notin hit =>
        /\ webhook' /\ ServiceUser \notin roles' /\ defaultRole' # ServiceUser
        /\ \A u \in User : roleOf'[u] # ServiceUser
  BY <1>1 DEF RunHolds, Forward
<1>5. pc[s] \in {"users", "assign", "done"} => defaultRole' # ServiceUser
  BY <1>1 DEF RunHolds, Forward
<1> QED BY <1>1, <1>2, <1>3, <1>4, <1>5 DEF RunHolds, Aside, Forward, Ended

\* Roles that nobody else has change only for new roles.
LEMMA RolesFrame ==
    ASSUME IInv, roles' = roles, TypeOK',
           defaultRole' \in roles, defaultRole' # ServiceUser \/ defaultRole' = defaultRole,
           \A u \in User : \/ roleOf'[u] = roleOf[u] \/ roleOf'[u] = defaultRole
                           \/ roleOf'[u] \in roles \cap Role
    PROVE  OldUnused' /\ RolesExist'
  BY RolesAssumption DEF IInv, OldUnused, RolesExist, Users, TypeOK

-----------------------------------------------------------------------------
(* The actions                                                             *)

LEMMA CreateUserIInv ==
    ASSUME IInv, NEW u \in User, CreateUser(u)
    PROVE  IInv'
<1>1. /\ roleOf' = [roleOf EXCEPT ![u] = defaultRole]
      /\ UNCHANGED <<webhook, roles, defaultRole, pc, oldListed, userRole, unassigned, hit>>
  BY DEF CreateUser, script
<1>2. TypeOK'
  BY <1>1 DEF IInv, TypeOK
<1>3. OldUnused' /\ RolesExist'
  BY <1>1, <1>2, RolesFrame DEF IInv, TypeOK, RolesExist
<1>4. Forward /\ \A r \in Run : Aside(r)
  BY <1>1 DEF Forward, Aside, IInv, TypeOK
<1> QED BY <1>2, <1>3, <1>4, AsideHolds, ByRun

\* Every step of run r: the others stand aside.
LEMMA ByStep ==
    ASSUME IInv, NEW r \in Run, TypeOK', OldUnused', RolesExist', RunHolds(r)', Forward,
           \A s \in Run \ {r} : Aside(s)
    PROVE  IInv'
  BY AsideHolds, ByRun

\* Steps that leave the roles and the users alone.
LEMMA ReadIInv ==
    ASSUME IInv, NEW r \in Run, TypeOK', RunHolds(r)', webhook => webhook',
           UNCHANGED <<roles, defaultRole, roleOf, hit>>, \A s \in Run \ {r} : Aside(s)
    PROVE  IInv'
<1>1. OldUnused' /\ RolesExist'
  BY DEF IInv, OldUnused, RolesExist, Users
<1>2. Forward
  BY DEF Forward
<1> QED BY <1>1, <1>2, ByStep

LEMMA StartIInv ==
    ASSUME IInv, NEW r \in Run, Start(r) \/ RegisterWebhook(r)
    PROVE  IInv'
<1>1. /\ pc' = [pc EXCEPT ![r] = IF pc[r] = "idle" THEN "webhook" ELSE "roles"]
      /\ pc[r] = "idle" \/ webhook' = TRUE
      /\ webhook' \in {webhook, TRUE} /\ (webhook => webhook')
      /\ UNCHANGED <<roles, defaultRole, roleOf, oldListed, userRole, unassigned, hit>>
  <2>1. CASE Start(r)
    BY <2>1 DEF Start, Goto, service
  <2>2. CASE RegisterWebhook(r)
    BY <2>2 DEF RegisterWebhook, Goto
  <2> QED BY <2>1, <2>2
<1>2. TypeOK'
  BY <1>1 DEF IInv, TypeOK
<1>3. (\A s \in Run \ {r} : Aside(s)) /\ RunHolds(r)'
  BY <1>1 DEF Aside, RunHolds, Ended, IInv, TypeOK
<1> QED BY <1>1, <1>2, <1>3, ReadIInv

LEMMA ListRolesIInv ==
    ASSUME IInv, NEW r \in Run, ListRoles(r)
    PROVE  IInv'
<1>1. /\ pc[r] = "roles" /\ UNCHANGED <<webhook, roles, defaultRole, roleOf, unassigned, hit>>
      /\ oldListed' = IF ServiceUser \in roles THEN oldListed \cup {r} ELSE oldListed
      /\ \/ /\ \E role \in roles \cap Role : userRole' = [userRole EXCEPT ![r] = role]
            /\ pc' = [pc EXCEPT ![r] = "default"]
         \/ pc' = [pc EXCEPT ![r] = "create"] /\ UNCHANGED userRole
  BY DEF ListRoles, Goto, service
<1>2. RunHolds(r)
  BY ByRun
<1>3. oldListed \subseteq oldListed' /\ oldListed' \subseteq oldListed \cup {r}
      /\ (ServiceUser \in roles => r \in oldListed')
  BY <1>1
<1>4. CASE /\ \E role \in roles \cap Role : userRole' = [userRole EXCEPT ![r] = role]
           /\ pc' = [pc EXCEPT ![r] = "default"]
  <2>1. PICK role \in roles \cap Role : userRole' = [userRole EXCEPT ![r] = role]
    BY <1>4
  <2>2. TypeOK'
    BY <1>1, <1>3, <1>4, <2>1 DEF IInv, TypeOK
  <2>3. \A s \in Run \ {r} : Aside(s)
    BY <1>1, <1>3, <1>4, <2>1 DEF Aside, IInv, TypeOK
  <2>4. RunHolds(r)'
    BY <1>1, <1>2, <1>3, <1>4, <2>1 DEF RunHolds, Ended, IInv, TypeOK
  <2> QED BY <1>1, <2>2, <2>3, <2>4, ReadIInv
<1>5. CASE pc' = [pc EXCEPT ![r] = "create"] /\ UNCHANGED userRole
  <2>1. TypeOK'
    BY <1>1, <1>3, <1>5 DEF IInv, TypeOK
  <2>2. \A s \in Run \ {r} : Aside(s)
    BY <1>1, <1>3, <1>5 DEF Aside, IInv, TypeOK
  <2>3. RunHolds(r)'
    BY <1>1, <1>2, <1>3, <1>5 DEF RunHolds, Ended, IInv, TypeOK
  <2> QED BY <1>1, <2>1, <2>2, <2>3, ReadIInv
<1> QED BY <1>1, <1>4, <1>5

LEMMA ListUsersIInv ==
    ASSUME IInv, NEW r \in Run, ListUsers(r)
    PROVE  IInv'
<1>1. /\ pc[r] = "users" /\ pc' = [pc EXCEPT ![r] = "assign"]
      /\ unassigned' = [unassigned EXCEPT ![r] = Users]
      /\ UNCHANGED <<webhook, roles, defaultRole, roleOf, oldListed, userRole, hit>>
  BY DEF ListUsers, Goto, service
<1>2. Users \subseteq User /\ \A u \in User : roleOf[u] = ServiceUser => u \in Users
  BY RolesAssumption DEF Users
<1>3. TypeOK'
  BY <1>1, <1>2 DEF IInv, TypeOK
<1>4. \A s \in Run \ {r} : Aside(s)
  BY <1>1 DEF Aside, IInv, TypeOK
<1>5. RunHolds(r)'
  <2>1. RunHolds(r)
    BY ByRun
  <2>2. unassigned'[r] = Users /\ pc'[r] = "assign"
    BY <1>1 DEF IInv, TypeOK
  <2> QED BY <1>1, <1>2, <2>1, <2>2 DEF RunHolds, Ended
<1> QED BY <1>1, <1>3, <1>4, <1>5, ReadIInv

LEMMA CreateRoleIInv ==
    ASSUME IInv, NEW r \in Run, CreateRole(r)
    PROVE  IInv'
<1>1. PICK role \in Role \ roles :
        roles' = roles \cup {role} /\ userRole' = [userRole EXCEPT ![r] = role]
  BY DEF CreateRole
<1>2. /\ pc[r] = "create" /\ pc' = [pc EXCEPT ![r] = "default"]
      /\ UNCHANGED <<webhook, defaultRole, roleOf, oldListed, unassigned, hit>>
  BY DEF CreateRole, Goto
<1>3. TypeOK'
  BY <1>1, <1>2 DEF IInv, TypeOK
<1>4. OldUnused' /\ RolesExist'
  BY <1>1, <1>2 DEF IInv, OldUnused, RolesExist, Users
<1>5. Forward /\ \A s \in Run \ {r} : Aside(s)
  BY <1>1, <1>2, RolesAssumption DEF Forward, Aside, IInv, TypeOK
<1>6. RunHolds(r)'
  <2>1. RunHolds(r)
    BY ByRun
  <2> QED BY <1>1, <1>2, <2>1, RolesAssumption DEF RunHolds, IInv, TypeOK, Ended
<1> QED BY <1>3, <1>4, <1>5, <1>6, ByStep

LEMMA SetDefaultIInv ==
    ASSUME IInv, NEW r \in Run, SetDefault(r)
    PROVE  IInv'
<1>1. /\ pc[r] = "default" /\ defaultRole' = userRole[r] /\ pc' = [pc EXCEPT ![r] = "users"]
      /\ UNCHANGED <<webhook, roles, roleOf, oldListed, userRole, unassigned, hit>>
  BY DEF SetDefault, Goto
<1>2. RunHolds(r)
  BY ByRun
<1>3. userRole[r] \in roles \cap Role /\ userRole[r] # ServiceUser
  BY <1>1, <1>2, RolesAssumption DEF RunHolds, IInv, TypeOK
<1>4. TypeOK'
  BY <1>1, <1>3 DEF IInv, TypeOK
<1>5. OldUnused' /\ RolesExist'
  BY <1>1, <1>3, <1>4, RolesFrame
<1>6. Forward /\ \A s \in Run \ {r} : Aside(s)
  BY <1>1, <1>3 DEF Forward, Aside, IInv, TypeOK
<1>7. RunHolds(r)'
  BY <1>1, <1>2, <1>3 DEF RunHolds, IInv, TypeOK, Ended
<1> QED BY <1>4, <1>5, <1>6, <1>7, ByStep

LEMMA AssignRoleIInv ==
    ASSUME IInv, NEW r \in Run, NEW u \in User, AssignRole(r, u)
    PROVE  IInv'
<1>1. /\ pc[r] = "assign" /\ roleOf' = [roleOf EXCEPT ![u] = userRole[r]]
      /\ unassigned' = [unassigned EXCEPT ![r] = unassigned[r] \ {u}]
      /\ UNCHANGED <<webhook, roles, defaultRole, pc, oldListed, userRole, hit>>
  BY DEF AssignRole
<1>2. RunHolds(r)
  BY ByRun
<1>3. userRole[r] \in roles \cap Role /\ userRole[r] # ServiceUser
  BY <1>1, <1>2, RolesAssumption DEF RunHolds, IInv, TypeOK
<1>4. TypeOK'
  BY <1>1, <1>3 DEF IInv, TypeOK
<1>5. OldUnused' /\ RolesExist'
  BY <1>1, <1>3, <1>4, RolesFrame DEF IInv, RolesExist, TypeOK
<1>6. Forward /\ \A s \in Run \ {r} : Aside(s)
  BY <1>1, <1>3 DEF Forward, Aside, IInv, TypeOK
<1>7. RunHolds(r)'
  BY <1>1, <1>2, <1>3 DEF RunHolds, IInv, TypeOK, Ended
<1> QED BY <1>4, <1>5, <1>6, <1>7, ByStep

\* When run r has changed all users it listed, nobody has the old role.
LEMMA Changed ==
    ASSUME IInv, NEW r \in Run, pc[r] = "assign", unassigned[r] = {}
    PROVE  /\ webhook /\ defaultRole # ServiceUser /\ \A u \in User : roleOf[u] # ServiceUser
           /\ ServiceUser \in roles => r \in oldListed
  BY ByRun DEF RunHolds

LEMMA RemoveRoleIInv ==
    ASSUME IInv, NEW r \in Run, RemoveRole(r)
    PROVE  IInv'
<1>1. /\ pc[r] = "assign" /\ unassigned[r] = {}
      /\ roles' = IF r \in oldListed THEN roles \ {ServiceUser} ELSE roles
      /\ pc' = [pc EXCEPT ![r] = IF r \in oldListed /\ ServiceUser \notin roles
                                 THEN "failed" ELSE "done"]
      /\ UNCHANGED <<webhook, defaultRole, roleOf, oldListed, userRole, unassigned, hit>>
  BY DEF RemoveRole, Goto
<1>2. /\ webhook /\ defaultRole # ServiceUser /\ \A u \in User : roleOf[u] # ServiceUser
      /\ ServiceUser \in roles => r \in oldListed
  BY <1>1, Changed
<1>3. TypeOK'
  BY <1>1 DEF IInv, TypeOK
<1>4. ServiceUser \notin roles' /\ roles' = roles \ {ServiceUser}
  BY <1>1, <1>2
<1>5. OldUnused' /\ RolesExist'
  BY <1>1, <1>2, <1>4 DEF IInv, OldUnused, RolesExist, Users
<1>6. Forward /\ \A s \in Run \ {r} : Aside(s)
  BY <1>1, <1>2, <1>4, RolesAssumption DEF Forward, Aside, IInv, TypeOK
<1>7. RunHolds(r)'
  BY <1>1, <1>2, <1>4 DEF RunHolds, IInv, TypeOK, Ended
<1> QED BY <1>3, <1>5, <1>6, <1>7, ByStep

LEMMA CallFaultIInv ==
    ASSUME IInv, NEW r \in Run, CallFault(r)
    PROVE  IInv'
<1>1. /\ pc' = [pc EXCEPT ![r] = "failed"] /\ hit' = hit \cup {r}
      /\ UNCHANGED <<oldListed, userRole, unassigned>>
      /\ UNCHANGED service \/ CallExecuted(r)
  BY DEF CallFault, Fail, Goto
<1>2. (\A s \in Run \ {r} : Aside(s)) /\ RunHolds(r)'
  BY <1>1 DEF Aside, RunHolds, IInv, TypeOK, Ended
<1>3. RunHolds(r)
  BY ByRun
<1>4. TypeOK' /\ OldUnused' /\ RolesExist' /\ Forward
  <2>1. CASE UNCHANGED service
    BY <1>1, <2>1 DEF service, Forward, IInv, TypeOK, OldUnused, RolesExist, Users
  <2>2. CASE /\ pc[r] = "webhook" /\ webhook' = TRUE
             /\ UNCHANGED <<roles, defaultRole, roleOf>>
    BY <1>1, <2>2 DEF Forward, IInv, TypeOK, OldUnused, RolesExist, Users
  <2>3. CASE /\ pc[r] = "create" /\ UNCHANGED <<webhook, defaultRole, roleOf>>
             /\ \E role \in Role \ roles : roles' = roles \cup {role}
    BY <1>1, <2>3, RolesAssumption DEF Forward, IInv, TypeOK, OldUnused, RolesExist, Users
  <2>4. CASE /\ pc[r] = "default" /\ defaultRole' = userRole[r]
             /\ UNCHANGED <<webhook, roles, roleOf>>
    <3>1. userRole[r] \in roles \cap Role /\ userRole[r] # ServiceUser
      BY <1>3, <2>4, RolesAssumption DEF RunHolds, IInv, TypeOK
    <3>2. TypeOK'
      BY <1>1, <2>4, <3>1 DEF IInv, TypeOK
    <3> QED BY <2>4, <3>1, <3>2, RolesFrame DEF Forward
  <2>5. CASE /\ pc[r] = "assign" /\ UNCHANGED <<webhook, roles, defaultRole>>
             /\ \E done \in SUBSET unassigned[r] :
                  roleOf' = [u \in User |-> IF u \in done THEN userRole[r] ELSE roleOf[u]]
    <3>1. userRole[r] \in roles \cap Role /\ userRole[r] # ServiceUser
      BY <1>3, <2>5, RolesAssumption DEF RunHolds, IInv, TypeOK
    <3>2. TypeOK' /\ \A u \in User : roleOf'[u] = roleOf[u] \/ roleOf'[u] = userRole[r]
      BY <1>1, <2>5, <3>1 DEF IInv, TypeOK
    <3>3. defaultRole \in roles
      BY DEF IInv, RolesExist
    <3> QED BY <2>5, <3>1, <3>2, <3>3, RolesFrame DEF Forward
  <2>6. CASE /\ pc[r] = "assign" /\ unassigned[r] = {} /\ r \in oldListed
             /\ roles' = roles \ {ServiceUser} /\ UNCHANGED <<webhook, defaultRole, roleOf>>
    BY <1>1, <2>6, Changed, RolesAssumption
    DEF Forward, IInv, TypeOK, OldUnused, RolesExist, Users
  <2> QED BY <1>1, <2>1, <2>2, <2>3, <2>4, <2>5, <2>6 DEF CallExecuted
<1> QED BY <1>2, <1>4, ByStep

-----------------------------------------------------------------------------
(* The theorems                                                            *)

LEMMA NextIInv == IInv /\ [Next]_vars => IInv'
<1> SUFFICES ASSUME IInv, [Next]_vars PROVE IInv'
  OBVIOUS
<1>1. CASE UNCHANGED vars
  BY <1>1 DEF vars, service, script, IInv, TypeOK, RunsKnow, RunsProgress, OldUnused,
     RolesExist, PermissionsFixed, Users, Ended
<1>2. CASE \E u \in User : CreateUser(u)
  BY <1>2, CreateUserIInv
<1>3. CASE \E r \in Run : Step(r)
  BY <1>3, StartIInv, ListRolesIInv, ListUsersIInv, CreateRoleIInv, SetDefaultIInv,
     AssignRoleIInv, RemoveRoleIInv DEF Step
<1>4. CASE \E r \in Run : CallFault(r)
  BY <1>4, CallFaultIInv
<1> QED BY <1>1, <1>2, <1>3, <1>4 DEF Next

\* The inductive invariant of the script.
THEOREM Invariance == Spec => []IInv
<1> QED BY InitIInv, NextIInv, PTL DEF Spec

\* The chat service and the runs of the script have their types.
THEOREM TypeCorrectness == Spec => []TypeOK
<1>1. IInv => TypeOK
  BY DEF IInv
<1> QED BY <1>1, Invariance, PTL

\* Whenever a run fails, and whenever users are created, every user has a role
\* of the chat service, and so will the next one.
THEOREM NoRoleDangles == Spec => []RolesExist
<1>1. IInv => RolesExist
  BY DEF IInv
<1> QED BY <1>1, Invariance, PTL

\* A run without a failed call fixes the permissions of all users for good.
THEOREM PermissionsStayFixed == Spec => []PermissionsFixed
<1>1. IInv => PermissionsFixed
  BY DEF IInv
<1> QED BY <1>1, Invariance, PTL
-----------------------------------------------------------------------------
(* The refinement                                                          *)

\* A role that a run assigns is a new one that exists.
LEMMA AssignedExists ==
    ASSUME IInv, NEW r \in Run, pc[r] \in {"default", "users", "assign"}
    PROVE  userRole[r] \in Role /\ userRole[r] \in roles
  BY ByRun, RolesAssumption DEF RunHolds, IInv, TypeOK

\* Each step of a run is a step of the migration, or of none of its variables.
LEMMA StepRefines ==
    ASSUME IInv, ListedExist, NEW r \in Run, Step(r)
    PROVE  [Migration!Next]_Migration!vars
<1> USE DEF Migration!vars
<1>1. CASE Start(r) \/ RegisterWebhook(r) \/ ListRoles(r) \/ ListUsers(r)
  BY <1>1 DEF Start, RegisterWebhook, ListRoles, ListUsers, service
<1>2. CASE CreateRole(r)
  BY <1>2 DEF CreateRole, Migration!Next, Migration!Create
<1>3. CASE SetDefault(r)
  <2>1. Migration!ChangeDefault(userRole[r])
    BY <1>3, AssignedExists DEF SetDefault, Migration!ChangeDefault
  <2> QED BY <1>3, <2>1, AssignedExists DEF SetDefault, Migration!Next
<1>4. CASE \E u \in User : AssignRole(r, u)
  <2>1. PICK u \in User : AssignRole(r, u)
    BY <1>4
  <2>2. u \in Users /\ userRole[r] \in Role /\ userRole[r] \in roles
    BY <2>1, AssignedExists DEF AssignRole, ListedExist
  <2>3. roleOf' = [v \in User |-> IF v \in {u} THEN userRole[r] ELSE roleOf[v]]
    BY <2>1 DEF AssignRole, IInv, TypeOK
  <2>4. Migration!Assign(userRole[r])
    BY <2>1, <2>2, <2>3 DEF AssignRole, Migration!Assign, Users
  <2> QED BY <2>2, <2>4 DEF Migration!Next
<1>5. CASE RemoveRole(r)
  <2>1. defaultRole # ServiceUser /\ \A u \in User : roleOf[u] # ServiceUser
    BY <1>5, Changed DEF RemoveRole
  <2> QED BY <1>5, <2>1 DEF RemoveRole, Migration!Next, Migration!Retire
<1> QED BY <1>1, <1>2, <1>3, <1>4, <1>5 DEF Step

\* So is a call that fails: it is one that was executed, of the assignments any.
LEMMA FaultRefines ==
    ASSUME IInv, ListedExist, NEW r \in Run, CallFault(r)
    PROVE  [Migration!Next]_Migration!vars
<1> USE DEF Migration!vars
<1>1. CASE UNCHANGED <<roles, defaultRole, roleOf>>
  BY <1>1
<1>2. CASE /\ UNCHANGED <<defaultRole, roleOf>>
           /\ \E role \in Role \ roles : roles' = roles \cup {role}
  BY <1>2 DEF Migration!Next, Migration!Create
<1>3. CASE pc[r] = "default" /\ defaultRole' = userRole[r] /\ UNCHANGED <<roles, roleOf>>
  <2>1. Migration!ChangeDefault(userRole[r])
    BY <1>3, AssignedExists DEF Migration!ChangeDefault
  <2> QED BY <1>3, <2>1, AssignedExists DEF Migration!Next
<1>4. CASE /\ pc[r] = "assign" /\ UNCHANGED <<roles, defaultRole>>
           /\ \E done \in SUBSET unassigned[r] :
                roleOf' = [u \in User |-> IF u \in done THEN userRole[r] ELSE roleOf[u]]
  <2>1. userRole[r] \in Role /\ userRole[r] \in roles
    BY <1>4, AssignedExists
  <2>2. unassigned[r] \subseteq {u \in User : roleOf[u] # None}
    BY DEF ListedExist, Users
  <2>3. Migration!Assign(userRole[r])
    BY <1>4, <2>1, <2>2 DEF Migration!Assign
  <2> QED BY <2>1, <2>3 DEF Migration!Next
<1>5. CASE /\ pc[r] = "assign" /\ unassigned[r] = {}
           /\ roles' = roles \ {ServiceUser} /\ UNCHANGED <<defaultRole, roleOf>>
  BY <1>5, Changed DEF Migration!Next, Migration!Retire
<1> QED BY <1>1, <1>2, <1>3, <1>4, <1>5 DEF CallFault, CallExecuted, service

LEMMA NextRefines ==
    ASSUME IInv, ListedExist, [Next]_vars
    PROVE  [Migration!Next]_Migration!vars
<1>1. CASE UNCHANGED vars
  BY <1>1 DEF vars, service, Migration!vars
<1>2. CASE \E u \in User : CreateUser(u)
  BY <1>2 DEF CreateUser, Users, Migration!Next, Migration!Join
<1> QED BY <1>1, <1>2, StepRefines, FaultRefines DEF Next

\* Nobody leaves, neither in the migration nor, hence, in the script.
LEMMA NextListedExist ==
    ASSUME IInv, ListedExist, [Next]_vars
    PROVE  ListedExist'
<1>1. Users \subseteq Users'
  <2>1. CASE \E u \in User : Migration!Join(u)
    BY <2>1, RolesAssumption DEF Migration!Join, Users, IInv, TypeOK
  <2>2. CASE \E role \in Role : Migration!Assign(role)
    BY <2>2, RolesAssumption DEF Migration!Assign, Users, IInv, TypeOK
  <2>3. CASE UNCHANGED roleOf
    BY <2>3 DEF Users
  <2> QED BY <2>1, <2>2, <2>3, NextRefines
          DEF Migration!Next, Migration!vars, Migration!Create, Migration!ChangeDefault,
              Migration!Retire
<1>2. \A r \in Run : unassigned'[r] \subseteq unassigned[r] \cup Users
  <2> USE DEF IInv, TypeOK
  <2>1. CASE UNCHANGED unassigned
    BY <2>1
  <2>2. CASE \E s \in Run : ListUsers(s)
    BY <2>2 DEF ListUsers
  <2>3. CASE \E s \in Run, u \in User : AssignRole(s, u)
    BY <2>3 DEF AssignRole
  <2> QED BY <2>1, <2>2, <2>3
          DEF Next, Step, vars, script, CreateUser, Start, RegisterWebhook, ListRoles,
              CreateRole, SetDefault, RemoveRole, CallFault, Fail
<1> QED BY <1>1, <1>2 DEF ListedExist

\* Overlapping, failing and repeated runs of the script implement RoleMigration:
\* users go forward to roles that exist and never back, and the old role is
\* retired when nobody has it or will be given it.
THEOREM MigrationRefinement == Spec => ImplementsMigration
<1>1. Init => Migration!Init /\ ListedExist
  BY DEF Init, Migration!Init, ListedExist
<1> QED BY <1>1, NextRefines, NextListedExist, Invariance, PTL
        DEF Spec, ImplementsMigration, Migration!Spec
=============================================================================
