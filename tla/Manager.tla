------------------------------ MODULE Manager -------------------------------
(***************************************************************************)
(* Users, roles and resources: the tables of the RBAC service (rbac/) and  *)
(* the handlers of the manager that fill them (manager/service.go,         *)
(* manager/role.go).  Every step is one SQL statement; nothing is in a     *)
(* transaction, and any statement may fail or its answer be lost.  A user  *)
(* is named by the email, which is unique and never deleted.               *)
(*                                                                         *)
(* The handlers of the manager are methods of one object per path, and     *)
(* roleUser decodes the request into that object: requests that overlap    *)
(* write the same fields.                                                  *)
(***************************************************************************)
EXTENDS Naturals

CONSTANTS Clients,    \* concurrent requests
          Users,      \* emails
          Names,      \* names of services, roles and resources
          Paths,      \* paths of services
          MaxRole,    \* bound on the ids of roles
          MaxResource, \* and of resources
          None

ASSUME ManagerAssumption ==
    /\ MaxRole \in Nat \ {0} /\ MaxResource \in Nat \ {0}
    /\ None \notin Names /\ None \notin Users

VARIABLES role, resource,           \* name of a row by id, None when there is no row
          roleUser, roleResource,   \* the two relations, pairs of ids
          service,                  \* table service of the manager by path
          ru,                       \* the object that serves /role/user/
          call                      \* the request a client has made

rows == <<role, resource>>
relations == <<roleUser, roleResource>>
vars == <<rows, relations, service, ru, call>>

RoleIDs == 1..MaxRole
ResourceIDs == 1..MaxResource

NoMember == [role |-> 0, user |-> None]
NoService == [user |-> None, role |-> 0, res |-> 0, cut |-> FALSE]

\* History: cut, a request removed the member, the grant or the resource of a
\* service; met, another request was in ru at the same time.
Idle == [op |-> "idle", at |-> "idle", user |-> None, name |-> None, role |-> 0, res |-> 0,
         cut |-> FALSE, met |-> FALSE]

Ops == {"idle", "service", "role", "dropRole", "dropResource", "join", "leave", "look"}
Steps == {"idle", "resource", "role", "user", "grant", "insert", "second", "id", "read", "send"}

TypeOK ==
    /\ role \in [RoleIDs -> Names \cup {None}]
    /\ resource \in [ResourceIDs -> Names \cup {None}]
    /\ roleUser \subseteq RoleIDs \X Users
    /\ roleResource \subseteq RoleIDs \X ResourceIDs
    /\ service \in [Paths -> [user : Users \cup {None}, role : 0..MaxRole, res : 0..MaxResource, cut : BOOLEAN]]
    /\ ru \in [role : 0..MaxRole, user : Users \cup {None}]
    /\ call \in [Clients -> [op : Ops, at : Steps, user : Users \cup {None}, name : Names \cup {None},
                             role : 0..MaxRole, res : 0..MaxResource,
                             cut : BOOLEAN, met : BOOLEAN]]

Init ==
    /\ role = [i \in RoleIDs |-> None]
    /\ resource = [i \in ResourceIDs |-> None]
    /\ roleUser = {} /\ roleResource = {}
    /\ service = [p \in Paths |-> NoService]
    /\ ru = NoMember
    /\ call = [c \in Clients |-> Idle]

At(c, op, step) == call[c].op \in op /\ call[c].at = step
Answer(c) == call' = [call EXCEPT ![c] = Idle]

-----------------------------------------------------------------------------
(* The statements of rbac/db.go.                                           *)

\* AUTO_INCREMENT: above the id of every row.  Before MySQL 8 it goes back to the
\* last row when the server restarts, and an id may be given again.
NewID(t, i) == i \in DOMAIN t /\ \A j \in DOMAIN t : j >= i => t[j] = None

\* add returns the id of the row with the same unique key, or that of a new row.
addID(t, n, i) ==
    IF \E j \in DOMAIN t : t[j] = n THEN i \in DOMAIN t /\ t[i] = n ELSE NewID(t, i)

addRole(n, i) ==
    /\ addID(role, n, i)
    /\ role' = [role EXCEPT ![i] = n]
    /\ UNCHANGED resource

addResource(n, i) ==
    /\ addID(resource, n, i)
    /\ resource' = [resource EXCEPT ![i] = n]
    /\ UNCHANGED role

\* Deletes members, grants and resources, with the services and requests it is cut for.
Marked(x, members, grants, gone) ==
    [x EXCEPT !.cut = \/ @ \/ x.res \in gone
                      \/ <<x.role, x.user>> \in members \/ <<x.role, x.res>> \in grants]

Delete(members, grants, gone, calls) ==
    /\ roleUser' = roleUser \ members
    /\ roleResource' = roleResource \ grants
    /\ service' = [p \in Paths |-> Marked(service[p], members, grants, gone)]
    /\ call' = [c \in Clients |-> IF calls[c].op = "service" THEN Marked(calls[c], members, grants, gone)
                                   ELSE calls[c]]

-----------------------------------------------------------------------------
(* service.POST of the manager, and rbacRole.POST.                         *)

ServicePOST(c, u, n) ==
    /\ At(c, {"idle"}, "idle")
    /\ call' = [call EXCEPT ![c] = [Idle EXCEPT !.op = "service", !.at = "resource", !.user = u, !.name = n]]
    /\ UNCHANGED <<rows, relations, service, ru>>

PostResource(c) ==
    /\ At(c, {"service"}, "resource")
    /\ \E i \in ResourceIDs :
          /\ addResource(call[c].name, i)
          /\ call' = [call EXCEPT ![c].res = i, ![c].at = "role"]
    /\ UNCHANGED <<relations, service, ru>>

\* role.POST: a role alone.
RolePOST(c, u, n) ==
    /\ At(c, {"idle"}, "idle")
    /\ call' = [call EXCEPT ![c] = [Idle EXCEPT !.op = "role", !.at = "role", !.user = u, !.name = n]]
    /\ UNCHANGED <<rows, relations, service, ru>>

\* UserAdd changes nothing that is modelled.
RoleAdd(c) ==
    /\ At(c, {"service", "role"}, "role")
    /\ \E i \in RoleIDs :
          /\ addRole(call[c].name, i)
          /\ call' = [call EXCEPT ![c].role = i, ![c].at = "user"]
    /\ UNCHANGED <<relations, service, ru>>

RoleUserAdd(c) ==
    /\ At(c, {"service", "role"}, "user")
    /\ roleUser' = roleUser \cup {<<call[c].role, call[c].user>>}
    /\ IF call[c].op = "service" THEN call' = [call EXCEPT ![c].at = "grant"] ELSE Answer(c)
    /\ UNCHANGED <<rows, roleResource, service, ru>>

\* Mutant of PostRoleResource: its error is not looked at.
PostRoleResourceMay(c) ==
    /\ At(c, {"service"}, "grant")
    /\ roleResource' \in {roleResource, roleResource \cup {<<call[c].role, call[c].res>>}}
    /\ call' = [call EXCEPT ![c].at = "insert"]
    /\ UNCHANGED <<rows, roleUser, service, ru>>

\* Mutant of PostRoleResource: role and resource are swapped.
PostRoleResourceSwapped(c) ==
    /\ At(c, {"service"}, "grant")
    /\ roleResource' = roleResource \cup {<<call[c].res, call[c].role>>}
    /\ call' = [call EXCEPT ![c].at = "insert"]
    /\ UNCHANGED <<rows, roleUser, service, ru>>

PostRoleResource(c) ==
    /\ At(c, {"service"}, "grant")
    /\ roleResource' = roleResource \cup {<<call[c].role, call[c].res>>}
    /\ call' = [call EXCEPT ![c].at = "insert"]
    /\ UNCHANGED <<rows, roleUser, service, ru>>

\* The path is unique: an insert with the path of another service is an error.
Insert(c, p) ==
    /\ At(c, {"service"}, "insert")
    /\ service' = IF service[p] # NoService THEN service
                  ELSE [service EXCEPT ![p] = [user |-> call[c].user, role |-> call[c].role,
                                               res |-> call[c].res, cut |-> call[c].cut]]
    /\ Answer(c)
    /\ UNCHANGED <<rows, relations, ru>>

\* Only the row of the service is deleted.
ServiceDELETE(p) ==
    /\ service' = [service EXCEPT ![p] = NoService]
    /\ UNCHANGED <<rows, relations, ru, call>>

-----------------------------------------------------------------------------
(* The other handlers of the RBAC service.                                 *)

\* rbacRole.DELETE by id, or by name when n is one: first the members ...
RoleDELETE(c, r, n) ==
    /\ At(c, {"idle"}, "idle")
    /\ n # None => role[r] = n
    /\ Delete({r} \X Users, {}, {},
              [call EXCEPT ![c] = [Idle EXCEPT !.op = "dropRole", !.at = "second", !.role = r, !.name = n]])
    /\ UNCHANGED <<rows, ru>>

\* ... then the row.  The resources of the role stay.
RoleDELETESecond(c) ==
    /\ At(c, {"dropRole"}, "second")
    /\ role' = [i \in RoleIDs |-> IF role[i] = call[c].name \/ (call[c].name = None /\ i = call[c].role)
                              THEN None ELSE role[i]]
    /\ Answer(c)
    /\ UNCHANGED <<resource, relations, service, ru>>

\* ResourceDelete: first the row, then the grants.
ResourceDELETE(c, s) ==
    /\ At(c, {"idle"}, "idle")
    /\ resource' = [resource EXCEPT ![s] = None]
    /\ Delete({}, {}, {s},
              [call EXCEPT ![c] = [Idle EXCEPT !.op = "dropResource", !.at = "second", !.res = s]])
    /\ UNCHANGED <<role, ru>>

ResourceDELETESecond(c) ==
    /\ At(c, {"dropResource"}, "second")
    /\ Delete({}, RoleIDs \X {call[c].res}, {}, [call EXCEPT ![c] = Idle])
    /\ UNCHANGED <<rows, ru>>

RoleResourcePOST(r, s) ==
    /\ roleResource' = roleResource \cup {<<r, s>>}
    /\ UNCHANGED <<rows, roleUser, service, ru, call>>

RoleResourceDELETE(r, s) ==
    /\ Delete({}, {<<r, s>>}, {}, call)
    /\ UNCHANGED <<rows, ru>>

\* The name of a role is unique.
RolePUT(r, n) ==
    /\ role[r] # None
    /\ \A i \in RoleIDs : role[i] # n
    /\ role' = [role EXCEPT ![r] = n]
    /\ UNCHANGED <<resource, relations, service, ru, call>>

-----------------------------------------------------------------------------
(* roleUser.POST, DELETE and GET of the manager.                           *)

RoleUserOps == {"join", "leave", "look"}
InObject(c) == call[c].at \in {"id", "read"}

\* The email left in ru is overwritten before anybody reads it, the role may not.
Leave(c) == ru' = IF \E d \in Clients \ {c} : InObject(d) THEN ru ELSE [ru EXCEPT !.user = None]

\* DecodeRequestValue sets the fields in their order: the email ...  Role 0: the
\* request has no role_id, like the DELETE of web/user.html.
RoleUserBegin(c, op, r, u) ==
    /\ At(c, {"idle"}, "idle")
    /\ op = "look" <=> u = None
    /\ LET others == {d \in Clients : InObject(d)}
       IN  call' = [d \in Clients |->
                      CASE d = c -> [Idle EXCEPT !.op = op, !.at = "id", !.role = r, !.user = u,
                                                 !.met = others # {}]
                        [] d \in others -> [call[d] EXCEPT !.met = TRUE]
                        [] OTHER -> call[d]]
    /\ ru' = [ru EXCEPT !.user = u]
    /\ UNCHANGED <<rows, relations, service>>

\* Mutant of DecodeRoleID: a field that has a value keeps it.
DecodeRoleIDOnce(c) ==
    /\ At(c, RoleUserOps, "id")
    /\ ru' = IF ru.role # 0 THEN ru ELSE [ru EXCEPT !.role = call[c].role]
    /\ call' = [call EXCEPT ![c].at = "read"]
    /\ UNCHANGED <<rows, relations, service>>

\* ... and role_id, a number, which is not set when the request leaves it out.
DecodeRoleID(c) ==
    /\ At(c, RoleUserOps, "id")
    /\ ru' = IF call[c].role = 0 THEN ru ELSE [ru EXCEPT !.role = call[c].role]
    /\ call' = [call EXCEPT ![c].at = "read"]
    /\ UNCHANGED <<rows, relations, service>>

\* The arguments of PostRoleUser and DeleteRoleUser.
ReadArguments(c) ==
    /\ At(c, {"join", "leave"}, "read")
    /\ call' = [call EXCEPT ![c].at = "send", ![c].role = ru.role, ![c].user = ru.user, ![c].met = FALSE]
    /\ Leave(c)
    /\ UNCHANGED <<rows, relations, service>>

\* A row of role_user with role 0 is in no query, and is left out.
Member(c) == {<<call[c].role, call[c].user>>} \cap (RoleIDs \X Users)

\* An insert without email is an error.
RoleUserPOST(c) ==
    /\ At(c, {"join"}, "send")
    /\ call[c].user # None
    /\ roleUser' = roleUser \cup Member(c)
    /\ Answer(c)
    /\ UNCHANGED <<rows, roleResource, service, ru>>

RoleUserDELETE(c) ==
    /\ At(c, {"leave"}, "send")
    /\ Delete(Member(c), {}, {}, [call EXCEPT ![c] = Idle])
    /\ UNCHANGED <<rows, ru>>

RoleUserGET(c) ==
    /\ At(c, {"look"}, "read")
    /\ Answer(c)
    /\ Leave(c)
    /\ UNCHANGED <<rows, relations, service>>

-----------------------------------------------------------------------------

\* A statement or a call fails: the handler answers with the error.
Fail(c) ==
    /\ call[c].op # "idle"
    /\ Answer(c)
    /\ Leave(c)
    /\ UNCHANGED <<rows, relations, service>>

ServiceStep(c) ==
    \/ \E u \in Users, n \in Names : ServicePOST(c, u, n) \/ RolePOST(c, u, n)
    \/ PostResource(c) \/ RoleAdd(c) \/ RoleUserAdd(c) \/ PostRoleResource(c)
    \/ \E p \in Paths : Insert(c, p)

\* Nobody looks whether the ids that a request names are those of rows.
RbacStep(c) ==
    \/ \E r \in RoleIDs, n \in Names \cup {None} : RoleDELETE(c, r, n)
    \/ RoleDELETESecond(c)
    \/ \E s \in ResourceIDs : ResourceDELETE(c, s)
    \/ ResourceDELETESecond(c)

RoleUserStep(c) ==
    \/ \E r \in 0..MaxRole, u \in Users \cup {None}, op \in RoleUserOps : RoleUserBegin(c, op, r, u)
    \/ DecodeRoleID(c) \/ ReadArguments(c)
    \/ RoleUserPOST(c) \/ RoleUserDELETE(c) \/ RoleUserGET(c)

Next ==
    \/ \E c \in Clients : ServiceStep(c) \/ RbacStep(c) \/ RoleUserStep(c) \/ Fail(c)
    \/ \E p \in Paths : ServiceDELETE(p)
    \/ \E r \in RoleIDs, s \in ResourceIDs : RoleResourcePOST(r, s) \/ RoleResourceDELETE(r, s)
    \/ \E r \in RoleIDs, n \in Names : RolePUT(r, n)

Spec == Init /\ [][Next]_vars

-----------------------------------------------------------------------------

(***************************************************************************)
(* A service never exists without the resource, the role and the grant     *)
(* that make it visible to the user who created it (userResource.GET lists *)
(* its resource), unless a request removed one of them: whatever requests  *)
(* fail between their statements or are repeated, whatever ids deletions   *)
(* leave behind or requests make up, and whoever creates a service of the  *)
(* same name at the same time.                                             *)
(***************************************************************************)
UserResourceGet(u) ==
    {s \in ResourceIDs : /\ resource[s] # None
                         /\ \E r \in RoleIDs : <<r, s>> \in roleResource /\ <<r, u>> \in roleUser}

ServicesAreOwned ==
    \A p \in Paths :
        service[p] = NoService \/ service[p].cut \/ service[p].res \in UserResourceGet(service[p].user)

(***************************************************************************)
(* The manager adds and removes the user that the request names, in the    *)
(* role that it names, unless another request was decoded into the same    *)
(* object before this one had read it: requests that follow each other are *)
(* never mixed up.  A request that names no role gets one of another.      *)
(***************************************************************************)
OwnArguments ==
    [][\A c \in Clients :
          call[c].at = "read" /\ call'[c].at = "send" /\ ~call[c].met =>
              /\ call'[c].user = call[c].user
              /\ call[c].role # 0 => call'[c].role = call[c].role]_vars

=============================================================================
