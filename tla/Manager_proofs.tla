--------------------------- MODULE Manager_proofs ---------------------------
(***************************************************************************)
(* The safety of Manager for every number of requests, users, names, paths *)
(* and rows.                                                               *)
(***************************************************************************)
EXTENDS Manager, TLAPS

\* The module is long: its leaves get more time than the provers have by default.
USE SMTT(15), ZenonT(15)

Emails == Users \cup {None}

ServiceRows == [user : Emails, role : 0..MaxRole, res : 0..MaxResource, cut : BOOLEAN]

Calls == [op : Ops, at : Steps, user : Emails, name : Names \cup {None},
          role : 0..MaxRole, res : 0..MaxResource, cut : BOOLEAN, met : BOOLEAN]

\* TypeOK with the names of this module.
Typed ==
    /\ role \in [RoleIDs -> Names \cup {None}]
    /\ resource \in [ResourceIDs -> Names \cup {None}]
    /\ roleUser \subseteq RoleIDs \X Users
    /\ roleResource \subseteq RoleIDs \X ResourceIDs
    /\ service \in [Paths -> ServiceRows]
    /\ ru \in [role : 0..MaxRole, user : Emails]
    /\ call \in [Clients -> Calls]

(***************************************************************************)
(* What a request knows at each of its steps.                              *)
(***************************************************************************)
Stage(c) ==
    /\ call[c].op \in {"service", "role"} => call[c].user \in Users /\ call[c].name \in Names
    /\ call[c].at \in {"user", "grant", "insert"} => call[c].role # 0
    /\ call[c].op = "service" /\ call[c].at \in {"role", "user", "grant", "insert"} => call[c].res # 0

(***************************************************************************)
(* The rows a service rests on, from the step that adds each of them until *)
(* somebody removes one.                                                   *)
(***************************************************************************)
Owned(c) ==
    call[c].op = "service" /\ ~call[c].cut =>
        /\ call[c].at \in {"role", "user", "grant", "insert"} => resource[call[c].res] # None
        /\ call[c].at \in {"grant", "insert"} => <<call[c].role, call[c].user>> \in roleUser
        /\ call[c].at = "insert" => <<call[c].role, call[c].res>> \in roleResource

Listed(p) ==
    \/ service[p] = NoService
    \/ /\ service[p].role # 0 /\ service[p].res # 0
       /\ service[p].cut \/ /\ resource[service[p].res] # None
                            /\ <<service[p].role, service[p].user>> \in roleUser
                            /\ <<service[p].role, service[p].res>> \in roleResource

(***************************************************************************)
(* A request that has met no other is alone in ru, which holds what the    *)
(* request has decoded.                                                    *)
(***************************************************************************)
Alone(c) ==
    InObject(c) /\ ~call[c].met =>
        /\ \A d \in Clients \ {c} : ~InObject(d)
        /\ ru.user = call[c].user
        /\ call[c].at = "read" /\ call[c].role # 0 => ru.role = call[c].role

IInv ==
    /\ Typed
    /\ \A c \in Clients : Stage(c) /\ Owned(c) /\ Alone(c)
    /\ \A p \in Paths : Listed(p)

-----------------------------------------------------------------------------

\* A handler has not begun.
LEMMA IdleType == Idle \in Calls /\ NoService \in ServiceRows
BY ManagerAssumption DEF Idle, Calls, Ops, Steps, Emails, NoService, ServiceRows

\* What a deletion does to a request.
LEMMA MarkedCall ==
    ASSUME NEW x \in Calls, NEW M, NEW G, NEW R
    PROVE  /\ Marked(x, M, G, R) \in Calls
           /\ Marked(x, M, G, R).op = x.op /\ Marked(x, M, G, R).at = x.at
           /\ Marked(x, M, G, R).user = x.user /\ Marked(x, M, G, R).role = x.role
           /\ Marked(x, M, G, R).res = x.res /\ Marked(x, M, G, R).name = x.name
           /\ Marked(x, M, G, R).met = x.met
           /\ Marked(x, M, G, R).cut <=>
                \/ x.cut \/ x.res \in R
                \/ <<x.role, x.user>> \in M \/ <<x.role, x.res>> \in G
BY DEF Marked, Calls

\* ... and to a service.
LEMMA MarkedService ==
    ASSUME NEW x \in ServiceRows, NEW M, NEW G, NEW R
    PROVE  /\ Marked(x, M, G, R) \in ServiceRows
           /\ Marked(x, M, G, R).user = x.user /\ Marked(x, M, G, R).role = x.role
           /\ Marked(x, M, G, R).res = x.res
           /\ Marked(x, M, G, R).cut <=>
                \/ x.cut \/ x.res \in R
                \/ <<x.role, x.user>> \in M \/ <<x.role, x.res>> \in G
BY DEF Marked, ServiceRows

\* Typed is TypeOK.
LEMMA TypedIsTypeOK == Typed <=> TypeOK
BY DEF Typed, TypeOK, Calls, ServiceRows, Emails

\* The fields of a request that has moved on to the step t.
Moves(c, t) ==
    /\ call' \in [Clients -> Calls]
    /\ \A d \in Clients \ {c} : call'[d] = call[d]
    /\ call'[c].at = t
    /\ call'[c].op = call[c].op /\ call'[c].name = call[c].name
    /\ call'[c].cut = call[c].cut

\* ... and its arguments are the same.
Argues(c) ==
    /\ call'[c].user = call[c].user
    /\ call'[c].role = call[c].role
    /\ call'[c].res = call[c].res
    /\ call'[c].met = call[c].met

\* The fields of a request that has begun at the step t.
Begins(c, op, t, u, n, r, s) ==
    /\ call' \in [Clients -> Calls]
    /\ \A d \in Clients \ {c} : call'[d] = call[d]
    /\ call'[c].op = op /\ call'[c].at = t
    /\ call'[c].user = u /\ call'[c].name = n
    /\ call'[c].role = r /\ call'[c].res = s
    /\ ~call'[c].cut /\ ~call'[c].met

\* A request that is answered.
LEMMA Answered ==
    ASSUME Typed, NEW c \in Clients, Answer(c)
    PROVE  Begins(c, "idle", "idle", None, None, 0, 0)
BY IdleType DEF Answer, Idle, Begins, Typed

\* A request that begins at the manager.
LEMMA Begun ==
    ASSUME Typed, NEW c \in Clients
    PROVE  \A u \in Users, n \in Names :
              /\ ServicePOST(c, u, n) => Begins(c, "service", "resource", u, n, 0, 0)
              /\ RolePOST(c, u, n) => Begins(c, "role", "role", u, n, 0, 0)
<1>1. ASSUME NEW u \in Users, NEW n \in Names, ServicePOST(c, u, n)
      PROVE  Begins(c, "service", "resource", u, n, 0, 0)
  <2>1. [Idle EXCEPT !.op = "service", !.at = "resource", !.user = u, !.name = n] \in Calls
    BY IdleType DEF Calls, Ops, Steps, Emails
  <2> QED
    BY <1>1, <2>1 DEF ServicePOST, Idle, Begins, Typed
<1>2. ASSUME NEW u \in Users, NEW n \in Names, RolePOST(c, u, n)
      PROVE  Begins(c, "role", "role", u, n, 0, 0)
  <2>1. [Idle EXCEPT !.op = "role", !.at = "role", !.user = u, !.name = n] \in Calls
    BY IdleType DEF Calls, Ops, Steps, Emails
  <2> QED
    BY <1>2, <2>1 DEF RolePOST, Idle, Begins, Typed
<1> QED
  BY <1>1, <1>2

\* A request that moves on with the arguments it has.
LEMMA Moved ==
    ASSUME Typed, NEW c \in Clients
    PROVE  /\ PostRoleResource(c) => Moves(c, "insert") /\ Argues(c)
           /\ DecodeRoleID(c) => Moves(c, "read") /\ Argues(c)
           /\ RoleUserAdd(c) /\ call[c].op = "service" => Moves(c, "grant") /\ Argues(c)
<1>1. ASSUME NEW t \in Steps, call' = [call EXCEPT ![c].at = t]
      PROVE  Moves(c, t) /\ Argues(c)
  <2>1. [call[c] EXCEPT !.at = t] \in Calls
    BY DEF Calls, Typed
  <2>2. call' \in [Clients -> Calls]
    BY <1>1, <2>1 DEF Typed
  <2>3. call[c] \in Calls /\ call'[c] = [call[c] EXCEPT !.at = t]
    BY <1>1 DEF Typed
  <2>4. \A d \in Clients \ {c} : call'[d] = call[d]
    BY <1>1 DEF Typed
  <2> QED
    BY <2>2, <2>3, <2>4 DEF Moves, Argues, Calls
<1>2. {"insert", "read", "grant"} \subseteq Steps
  BY DEF Steps
<1> QED
  BY <1>1, <1>2 DEF PostRoleResource, DecodeRoleID, RoleUserAdd

\* A request takes the number that add returned.
LEMMA Added ==
    ASSUME Typed, NEW c \in Clients
    PROVE  /\ PostResource(c) => \E i \in ResourceIDs :
                /\ addResource(call[c].name, i)
                /\ Moves(c, "role")
                /\ call'[c].user = call[c].user /\ call'[c].role = call[c].role
                /\ call'[c].res = i
           /\ RoleAdd(c) => \E i \in RoleIDs :
                /\ addRole(call[c].name, i)
                /\ Moves(c, "user")
                /\ call'[c].user = call[c].user /\ call'[c].res = call[c].res
                /\ call'[c].role = i
<1> USE DEF RoleIDs, ResourceIDs
<1>1. ASSUME PostResource(c), NEW i \in ResourceIDs, addResource(call[c].name, i),
             call' = [call EXCEPT ![c].res = i, ![c].at = "role"]
      PROVE  /\ Moves(c, "role")
             /\ call'[c].user = call[c].user /\ call'[c].role = call[c].role
             /\ call'[c].res = i
  <2>0. call[c] \in Calls /\ i \in 0..MaxResource
    BY ManagerAssumption DEF Typed
  <2>1. [call[c] EXCEPT !.res = i, !.at = "role"] \in Calls
    BY <2>0 DEF Calls, Steps
  <2>2. call' \in [Clients -> Calls]
    BY <1>1, <2>1 DEF Typed
  <2>3. call[c] \in Calls /\ call'[c] = [call[c] EXCEPT !.res = i, !.at = "role"]
    BY <1>1 DEF Typed
  <2>4. \A d \in Clients \ {c} : call'[d] = call[d]
    BY <1>1 DEF Typed
  <2> QED
    BY <2>2, <2>3, <2>4 DEF Moves, Calls
<1>2. ASSUME RoleAdd(c), NEW i \in RoleIDs, addRole(call[c].name, i),
             call' = [call EXCEPT ![c].role = i, ![c].at = "user"]
      PROVE  /\ Moves(c, "user")
             /\ call'[c].user = call[c].user /\ call'[c].res = call[c].res
             /\ call'[c].role = i
  <2>0. call[c] \in Calls /\ i \in 0..MaxRole
    BY ManagerAssumption DEF Typed
  <2>1. [call[c] EXCEPT !.role = i, !.at = "user"] \in Calls
    BY <2>0 DEF Calls, Steps
  <2>2. call' \in [Clients -> Calls]
    BY <1>2, <2>1 DEF Typed
  <2>3. call[c] \in Calls /\ call'[c] = [call[c] EXCEPT !.role = i, !.at = "user"]
    BY <1>2 DEF Typed
  <2>4. \A d \in Clients \ {c} : call'[d] = call[d]
    BY <1>2 DEF Typed
  <2> QED
    BY <2>2, <2>3, <2>4 DEF Moves, Calls
<1> QED
  BY <1>1, <1>2 DEF PostResource, RoleAdd

\* A request takes what it finds in ru.
LEMMA Read ==
    ASSUME Typed, NEW c \in Clients, ReadArguments(c)
    PROVE  /\ Moves(c, "send")
           /\ call'[c].user = ru.user /\ call'[c].role = ru.role /\ call'[c].res = call[c].res
<1> DEFINE q == [call[c] EXCEPT !.at = "send", !.role = ru.role, !.user = ru.user, !.met = FALSE]
<1>1. call' = [call EXCEPT ![c] = q]
  BY DEF ReadArguments
<1>2. q \in Calls
  <2>1. call[c] \in Calls /\ ru.role \in 0..MaxRole /\ ru.user \in Emails
    BY DEF Typed
  <2>2. "send" \in Steps
    BY DEF Steps
  <2> QED
    BY <2>1, <2>2 DEF Calls
<1>3. call' \in [Clients -> Calls] /\ call'[c] = q /\ \A d \in Clients \ {c} : call'[d] = call[d]
  BY <1>1, <1>2 DEF Typed
<1>4. call[c] \in Calls
  BY DEF Typed
<1> QED
  BY <1>3, <1>4 DEF Moves, Calls

\* What RoleUserBegin does to the requests.
Enters(c, op, r, u) ==
    /\ call' \in [Clients -> Calls]
    /\ call'[c].op = op /\ call'[c].at = "id" /\ call'[c].user = u
    /\ call'[c].role = r /\ call'[c].res = 0 /\ ~call'[c].cut
    /\ call'[c].met <=> \E d \in Clients : InObject(d)
    /\ \A d \in Clients \ {c} :
         /\ ~InObject(d) => call'[d] = call[d]
         /\ InObject(d) => call'[d].met
         /\ call'[d].op = call[d].op /\ call'[d].at = call[d].at /\ call'[d].name = call[d].name
         /\ call'[d].user = call[d].user /\ call'[d].role = call[d].role
         /\ call'[d].res = call[d].res /\ call'[d].cut = call[d].cut

\* A request that enters ru, and those it meets there.
LEMMA Entered ==
    ASSUME Typed, NEW c \in Clients, NEW op \in RoleUserOps, NEW r \in 0..MaxRole, NEW u \in Emails,
           RoleUserBegin(c, op, r, u)
    PROVE  Enters(c, op, r, u)
<1> DEFINE b == {d \in Clients : InObject(d)} # {}
           q == [Idle EXCEPT !.op = op, !.at = "id", !.role = r, !.user = u, !.met = b]
<1>1. call' = [d \in Clients |-> CASE d = c -> q
                                  [] d \in {e \in Clients : InObject(e)} -> [call[d] EXCEPT !.met = TRUE]
                                  [] OTHER -> call[d]]
  BY DEF RoleUserBegin
<1>2. b \in BOOLEAN /\ (b <=> \E d \in Clients : InObject(d))
  OBVIOUS
<1> HIDE DEF b
<1>4. q \in Calls
  BY <1>2, IdleType DEF Calls, Ops, Steps, RoleUserOps
<1>5. /\ q.op = op /\ q.at = "id" /\ q.user = u /\ q.role = r /\ q.res = 0 /\ ~q.cut
      /\ q.met = b
  BY DEF Idle
<1> HIDE DEF q
<1>6. call'[c] = q
  <2>1. ~InObject(c)
    BY DEF RoleUserBegin, At, InObject
  <2> QED
    BY <1>1, <2>1
<1>7. \A d \in Clients \ {c} : call'[d] = IF InObject(d) THEN [call[d] EXCEPT !.met = TRUE] ELSE call[d]
  <2> SUFFICES ASSUME NEW d \in Clients, d # c
               PROVE  call'[d] = IF InObject(d) THEN [call[d] EXCEPT !.met = TRUE] ELSE call[d]
    OBVIOUS
  <2>1. CASE InObject(d)
    BY <1>1, <2>1
  <2>2. CASE ~InObject(d)
    BY <1>1, <2>2
  <2> QED
    BY <2>1, <2>2
<1>8. ASSUME NEW d \in Clients \ {c}
      PROVE  /\ call'[d] \in Calls
             /\ ~InObject(d) => call'[d] = call[d]
             /\ InObject(d) => call'[d].met
             /\ call'[d].op = call[d].op /\ call'[d].at = call[d].at /\ call'[d].name = call[d].name
             /\ call'[d].user = call[d].user /\ call'[d].role = call[d].role
             /\ call'[d].res = call[d].res /\ call'[d].cut = call[d].cut
  <2>1. call[d] \in Calls
    BY DEF Typed
  <2>2. CASE InObject(d)
    BY <1>7, <2>1, <2>2 DEF Calls
  <2>3. CASE ~InObject(d)
    BY <1>7, <2>1, <2>3
  <2> QED
    BY <2>2, <2>3
<1>9. call' \in [Clients -> Calls]
  <2>1. call' = [d \in Clients |-> call'[d]]
    BY <1>1
  <2>2. \A d \in Clients : call'[d] \in Calls
    BY <1>4, <1>6, <1>8
  <2> QED
    BY <2>1, <2>2
<1> QED
  BY <1>2, <1>5, <1>6, <1>8, <1>9 DEF Enters

\* What a deletion of the pairs M and G and of the resources R does to the requests f and to the services.
Cuts(M, G, R, f) ==
    /\ call' \in [Clients -> Calls]
    /\ service' \in [Paths -> ServiceRows]
    /\ \A d \in Clients :
         /\ call'[d].op = f[d].op /\ call'[d].at = f[d].at /\ call'[d].name = f[d].name
         /\ call'[d].user = f[d].user /\ call'[d].role = f[d].role /\ call'[d].res = f[d].res
         /\ call'[d].met = f[d].met
         /\ f[d].op = "service" =>
              (call'[d].cut <=> \/ f[d].cut \/ f[d].res \in R
                                \/ <<f[d].role, f[d].user>> \in M \/ <<f[d].role, f[d].res>> \in G)

\* A deletion changes nothing in a request or a service but cut.
LEMMA Cut ==
    ASSUME Typed, NEW M, NEW G, NEW R, NEW f \in [Clients -> Calls], Delete(M, G, R, f)
    PROVE  Cuts(M, G, R, f)
<1>1. service' \in [Paths -> ServiceRows]
  BY MarkedService DEF Delete, Typed
<1>2. call' \in [Clients -> Calls]
  BY MarkedCall DEF Delete
<1>3. ASSUME NEW d \in Clients
      PROVE  /\ call'[d].op = f[d].op /\ call'[d].at = f[d].at /\ call'[d].name = f[d].name
             /\ call'[d].user = f[d].user /\ call'[d].role = f[d].role /\ call'[d].res = f[d].res
             /\ call'[d].met = f[d].met
             /\ f[d].op = "service" =>
                  (call'[d].cut <=> \/ f[d].cut \/ f[d].res \in R
                                    \/ <<f[d].role, f[d].user>> \in M \/ <<f[d].role, f[d].res>> \in G)
  BY <1>3, MarkedCall DEF Delete
<1> QED
  BY <1>1, <1>2, <1>3 DEF Cuts

\* A service loses a row only to a deletion that cuts it.
LEMMA CutListed ==
    ASSUME IInv, NEW M, NEW G, NEW R, NEW f, Delete(M, G, R, f), <<0, None>> \notin M, <<0, 0>> \notin G,
           0 \notin R, \A s \in ResourceIDs \ R : resource'[s] = resource[s]
    PROVE  \A p \in Paths : Listed(p)'
<1> SUFFICES ASSUME NEW p \in Paths PROVE Listed(p)'
  OBVIOUS
<1>1. service[p] \in ServiceRows /\ service'[p] = Marked(service[p], M, G, R) /\ Listed(p)
  BY DEF Delete, IInv, Typed
<1>2. CASE service[p] = NoService
  <2> DEFINE x == Marked(NoService, M, G, R)
  <2>1. NoService.role = 0 /\ NoService.user = None /\ NoService.res = 0 /\ ~NoService.cut
    BY DEF NoService
  <2>2. x \in ServiceRows /\ x.role = 0 /\ x.user = None /\ x.res = 0 /\ ~x.cut
    BY <2>1, IdleType, MarkedService
  <2>3. x = NoService
    <3> HIDE DEF x
    <3>1. x.cut = FALSE
      BY <2>2 DEF ServiceRows
    <3> QED
      BY <2>2, <3>1 DEF ServiceRows, NoService
  <2> QED
    BY <1>1, <1>2, <2>3 DEF Listed
<1>3. CASE service[p] # NoService
  <2>1. service[p].res # 0 => service[p].res \in ResourceIDs
    BY <1>1, ManagerAssumption DEF ServiceRows, ResourceIDs
  <2> QED
    BY <1>1, <1>3, <2>1, MarkedService DEF Listed, Delete
<1> QED
  BY <1>2, <1>3

\* The steps of service.POST and of role.POST.
LEMMA ServiceInv ==
    ASSUME IInv, NEW c \in Clients, ServiceStep(c)
    PROVE  IInv'
<1> USE ManagerAssumption DEF IInv, rows, relations, RoleIDs, ResourceIDs
<1>1. ASSUME NEW u \in Users, NEW n \in Names, ServicePOST(c, u, n)
      PROVE  IInv'
  <2>1. Begins(c, "service", "resource", u, n, 0, 0)
    BY <1>1, Begun
  <2>2. Typed'
    BY <1>1, <2>1 DEF ServicePOST, Begins, Typed
  <2>3. \A d \in Clients : Stage(d)' /\ Owned(d)' /\ Alone(d)'
    BY <1>1, <2>1 DEF ServicePOST, Begins, Stage, Owned, Alone, InObject
  <2> QED
    BY <1>1, <2>2, <2>3 DEF ServicePOST, Listed
<1>2. ASSUME NEW u \in Users, NEW n \in Names, RolePOST(c, u, n)
      PROVE  IInv'
  <2>1. Begins(c, "role", "role", u, n, 0, 0)
    BY <1>2, Begun
  <2>2. Typed'
    BY <1>2, <2>1 DEF RolePOST, Begins, Typed
  <2>3. \A d \in Clients : Stage(d)' /\ Owned(d)' /\ Alone(d)'
    BY <1>2, <2>1 DEF RolePOST, Begins, Stage, Owned, Alone, InObject
  <2> QED
    BY <1>2, <2>2, <2>3 DEF RolePOST, Listed
<1>3. ASSUME PostResource(c)
      PROVE  IInv'
  <2>1. PICK i \in ResourceIDs :
           /\ addResource(call[c].name, i)
           /\ Moves(c, "role")
           /\ call'[c].user = call[c].user /\ call'[c].role = call[c].role
           /\ call'[c].res = i
    BY <1>3, Added
  <2>2. Typed'
    BY <1>3, <2>1 DEF PostResource, At, Stage, addResource, Moves, Typed
  <2>3. i # 0 /\ resource'[i] # None /\ \A s \in ResourceIDs : resource[s] # None => resource'[s] # None
    BY <1>3, <2>1 DEF PostResource, At, Stage, addResource, Typed
  <2>4. \A d \in Clients : call[d].res # 0 => call[d].res \in ResourceIDs
    BY DEF Typed, Calls
  <2>5. \A d \in Clients : Stage(d)'
    BY <1>3, <2>1, <2>3 DEF PostResource, At, Moves, Stage
  <2>6. \A d \in Clients : Owned(d)'
    BY <1>3, <2>1, <2>3, <2>4 DEF PostResource, At, Moves, Stage, Owned
  <2>7. \A d \in Clients : Alone(d)'
    BY <1>3, <2>1 DEF PostResource, At, Moves, Alone, InObject
  <2>8. \A p \in Paths : Listed(p)'
    <3>1. \A p \in Paths : service[p].res # 0 => service[p].res \in ResourceIDs
      BY DEF Typed, ServiceRows
    <3> QED
      BY <1>3, <2>3, <3>1 DEF PostResource, Listed
  <2> QED
    BY <2>2, <2>5, <2>6, <2>7, <2>8
<1>4. ASSUME RoleAdd(c)
      PROVE  IInv'
  <2>1. PICK i \in RoleIDs :
           /\ addRole(call[c].name, i)
           /\ Moves(c, "user")
           /\ call'[c].user = call[c].user /\ call'[c].res = call[c].res
           /\ call'[c].role = i
    BY <1>4, Added
  <2>2. Typed'
    BY <1>4, <2>1 DEF RoleAdd, At, Stage, addRole, Moves, Typed
  <2>3. i # 0 /\ resource' = resource
    BY <2>1 DEF addRole
  <2>4. \A d \in Clients : Stage(d)'
    BY <1>4, <2>1, <2>3 DEF RoleAdd, At, Moves, Stage
  <2>5. \A d \in Clients : Owned(d)'
    <3>1. /\ call[c].at = "role" /\ call'[c].at = "user" /\ call'[c].op = call[c].op
          /\ call'[c].cut = call[c].cut /\ call'[c].res = call[c].res
          /\ roleUser' = roleUser /\ roleResource' = roleResource
      BY <1>4, <2>1 DEF RoleAdd, At, Moves
    <3>2. \A d \in Clients \ {c} : call'[d] = call[d]
      BY <2>1 DEF Moves
    <3>3. Owned(c)'
      BY <2>3, <3>1 DEF Owned
    <3>4. \A d \in Clients \ {c} : Owned(d)'
      BY <2>3, <3>1, <3>2 DEF Owned
    <3> QED
      BY <3>3, <3>4
  <2>6. \A d \in Clients : Alone(d)'
    BY <1>4, <2>1 DEF RoleAdd, At, Moves, Alone, InObject
  <2> QED
    BY <1>4, <2>2, <2>3, <2>4, <2>5, <2>6 DEF RoleAdd, Listed
<1>5. ASSUME RoleUserAdd(c)
      PROVE  IInv'
  <2>1. call[c].role \in RoleIDs /\ call[c].user \in Users
    BY <1>5 DEF RoleUserAdd, At, Stage, Typed, Calls
  <2>2. roleUser' \subseteq RoleIDs \X Users
    BY <1>5, <2>1 DEF RoleUserAdd, Typed
  <2>3. CASE call[c].op = "service"
    <3>1. Moves(c, "grant") /\ Argues(c)
      BY <1>5, <2>3, Moved
    <3>2. Typed'
      BY <1>5, <2>2, <3>1 DEF RoleUserAdd, Moves, Argues, Typed
    <3>3. \A d \in Clients : Stage(d)' /\ Owned(d)' /\ Alone(d)'
      BY <1>5, <3>1 DEF RoleUserAdd, At, Moves, Argues, Stage, Owned, Alone, InObject
    <3> QED
      BY <1>5, <3>1, <3>2, <3>3 DEF RoleUserAdd, Moves, Argues, Listed
  <2>4. CASE call[c].op # "service"
    <3>1. Begins(c, "idle", "idle", None, None, 0, 0)
      BY <1>5, <2>4, Answered DEF RoleUserAdd
    <3>2. Typed'
      BY <1>5, <2>2, <3>1 DEF RoleUserAdd, Begins, Typed
    <3>3. \A d \in Clients : Stage(d)' /\ Owned(d)' /\ Alone(d)'
      BY <1>5, <3>1 DEF RoleUserAdd, Begins, Stage, Owned, Alone, InObject
    <3> QED
      BY <1>5, <3>2, <3>3 DEF RoleUserAdd, Listed
  <2> QED
    BY <2>3, <2>4
<1>6. ASSUME PostRoleResource(c)
      PROVE  IInv'
  <2>1. Moves(c, "insert") /\ Argues(c)
    BY <1>6, Moved
  <2>2. call[c].role \in RoleIDs /\ call[c].res \in ResourceIDs
    BY <1>6 DEF PostRoleResource, At, Stage, Typed, Calls
  <2>3. Typed'
    BY <1>6, <2>1, <2>2 DEF PostRoleResource, Moves, Argues, Typed
  <2>4. \A d \in Clients : Stage(d)' /\ Owned(d)' /\ Alone(d)'
    BY <1>6, <2>1 DEF PostRoleResource, At, Moves, Argues, Stage, Owned, Alone, InObject
  <2> QED
    BY <1>6, <2>1, <2>3, <2>4 DEF PostRoleResource, Moves, Argues, Listed
<1>7. ASSUME NEW p \in Paths, Insert(c, p)
      PROVE  IInv'
  <2>1. Begins(c, "idle", "idle", None, None, 0, 0)
    BY <1>7, Answered DEF Insert
  <2> DEFINE x == [user |-> call[c].user, role |-> call[c].role, res |-> call[c].res, cut |-> call[c].cut]
  <2>2. x \in ServiceRows
    BY DEF Typed, Calls, ServiceRows
  <2>3. Typed'
    BY <1>7, <2>1, <2>2 DEF Insert, Begins, Typed
  <2>4. \A d \in Clients : Stage(d)' /\ Owned(d)' /\ Alone(d)'
    BY <1>7, <2>1 DEF Insert, Begins, Stage, Owned, Alone, InObject
  <2>5. \A q \in Paths : Listed(q)'
    BY <1>7 DEF Insert, At, Stage, Owned, Listed, Typed
  <2> QED
    BY <2>3, <2>4, <2>5
<1> QED
  BY <1>1, <1>2, <1>3, <1>4, <1>5, <1>6, <1>7 DEF ServiceStep

\* A request that is answered, or has begun to delete.
Settled(x) ==
    x.op \in {"idle", "dropRole", "dropResource"} /\ x.at \in {"idle", "second"}

\* What the deletions have in common.
LEMMA CutInv ==
    ASSUME IInv, NEW M, NEW G, NEW R, NEW f \in [Clients -> Calls], Delete(M, G, R, f),
           UNCHANGED <<role, ru>>, <<0, None>> \notin M, <<0, 0>> \notin G, 0 \notin R,
           resource' \in [ResourceIDs -> Names \cup {None}],
           \A s \in ResourceIDs \ R : resource'[s] = resource[s],
           \A d \in Clients : f[d] = call[d] \/ Settled(f[d])
    PROVE  IInv'
<1> USE ManagerAssumption DEF IInv, RoleIDs, ResourceIDs
<1>1. Cuts(M, G, R, f)
  BY Cut
<1>2. /\ roleUser' = roleUser \ M /\ roleResource' = roleResource \ G
      /\ ru' = ru /\ role' = role
  BY DEF Delete
<1>3. Typed'
  BY <1>1, <1>2 DEF Cuts, Typed
<1>4. \A d \in Clients : call[d].res # 0 => call[d].res \in ResourceIDs
  BY DEF Typed, Calls
<1>5. ASSUME NEW d \in Clients
      PROVE  Stage(d)' /\ Owned(d)' /\ Alone(d)'
  <2>1. CASE f[d] = call[d]
    <3>1. /\ call'[d].op = call[d].op /\ call'[d].at = call[d].at /\ call'[d].name = call[d].name
          /\ call'[d].user = call[d].user /\ call'[d].role = call[d].role
          /\ call'[d].res = call[d].res /\ call'[d].met = call[d].met
          /\ call[d].op = "service" /\ ~call'[d].cut =>
               /\ ~call[d].cut /\ call[d].res \notin R
               /\ <<call[d].role, call[d].user>> \notin M /\ <<call[d].role, call[d].res>> \notin G
      BY <1>1, <2>1 DEF Cuts
    <3>2. Stage(d) /\ Owned(d) /\ Alone(d)
      OBVIOUS
    <3>3. Stage(d)'
      BY <1>2, <3>1, <3>2 DEF Stage
    <3>4. Owned(d)'
      BY <1>2, <1>4, <3>1, <3>2 DEF Stage, Owned
    <3>5. \A e \in Clients : InObject(e)' => InObject(e)
      BY <1>1 DEF Cuts, InObject, Settled
    <3>6. Alone(d)'
      BY <1>2, <3>1, <3>2, <3>5 DEF Alone, InObject
    <3> QED
      BY <3>3, <3>4, <3>6
  <2>2. CASE f[d] # call[d]
    <3>1. call'[d].op \in {"idle", "dropRole", "dropResource"} /\ call'[d].at \in {"idle", "second"}
      BY <1>1, <2>2 DEF Cuts, Settled
    <3> QED
      BY <3>1 DEF Stage, Owned, Alone, InObject
  <2> QED
    BY <2>1, <2>2
<1>6. \A p \in Paths : Listed(p)'
  BY CutListed
<1> QED
  BY <1>3, <1>5, <1>6

\* The steps of the deletions of roles and of resources.
LEMMA RbacInv ==
    ASSUME IInv, NEW c \in Clients, RbacStep(c)
    PROVE  IInv'
<1> USE ManagerAssumption DEF IInv, RoleIDs, ResourceIDs
<1>1. ASSUME NEW r \in RoleIDs, NEW n \in Names \cup {None}, RoleDELETE(c, r, n)
      PROVE  IInv'
  <2> DEFINE q == [Idle EXCEPT !.op = "dropRole", !.at = "second", !.role = r, !.name = n]
             f == [call EXCEPT ![c] = q]
             M == {r} \X Users
  <2>0. r \in 0..MaxRole
    OBVIOUS
  <2>1. q \in Calls
    BY <2>0, IdleType DEF Calls, Ops, Steps
  <2>2. q.op = "dropRole" /\ q.at = "second"
    BY DEF Idle
  <2>3. Delete(M, {}, {}, f) /\ role' = role /\ resource' = resource /\ ru' = ru
    BY <1>1 DEF RoleDELETE, rows
  <2>4. <<0, None>> \notin M
    OBVIOUS
  <2> HIDE DEF q, M
  <2>5. f \in [Clients -> Calls] /\ \A d \in Clients : f[d] = call[d] \/ Settled(f[d])
    BY <2>1, <2>2 DEF Typed, Settled
  <2>6. resource' \in [ResourceIDs -> Names \cup {None}]
    BY <2>3 DEF Typed
  <2> HIDE DEF f
  <2> QED
    BY <2>3, <2>4, <2>5, <2>6, CutInv
<1>2. ASSUME RoleDELETESecond(c)
      PROVE  IInv'
  <2>1. Begins(c, "idle", "idle", None, None, 0, 0)
    BY <1>2, Answered DEF RoleDELETESecond
  <2>2. /\ role' \in [RoleIDs -> Names \cup {None}] /\ resource' = resource
        /\ roleUser' = roleUser /\ roleResource' = roleResource /\ service' = service /\ ru' = ru
    BY <1>2 DEF RoleDELETESecond, Typed, relations
  <2>3. Typed'
    BY <2>1, <2>2 DEF Begins, Typed
  <2>4. \A d \in Clients : Stage(d)' /\ Owned(d)' /\ Alone(d)'
    BY <2>1, <2>2 DEF Begins, Stage, Owned, Alone, InObject
  <2> QED
    BY <2>2, <2>3, <2>4 DEF Listed
<1>3. ASSUME NEW s \in ResourceIDs, ResourceDELETE(c, s)
      PROVE  IInv'
  <2> DEFINE q == [Idle EXCEPT !.op = "dropResource", !.at = "second", !.res = s]
             f == [call EXCEPT ![c] = q]
             R == {s}
  <2>0. s \in 0..MaxResource
    OBVIOUS
  <2>1. q \in Calls
    BY <2>0, IdleType DEF Calls, Ops, Steps
  <2>2. q.op = "dropResource" /\ q.at = "second"
    BY DEF Idle
  <2>3. Delete({}, {}, R, f) /\ UNCHANGED <<role, ru>>
    BY <1>3 DEF ResourceDELETE
  <2>4. /\ resource' \in [ResourceIDs -> Names \cup {None}] /\ 0 \notin R
        /\ \A i \in ResourceIDs \ R : resource'[i] = resource[i]
    BY <1>3 DEF ResourceDELETE, Typed
  <2> HIDE DEF q, R
  <2>5. f \in [Clients -> Calls] /\ \A d \in Clients : f[d] = call[d] \/ Settled(f[d])
    BY <2>1, <2>2 DEF Typed, Settled
  <2> HIDE DEF f
  <2> QED
    BY <2>3, <2>4, <2>5, CutInv
<1>4. ASSUME ResourceDELETESecond(c)
      PROVE  IInv'
  <2> DEFINE f == [call EXCEPT ![c] = Idle]
             G == RoleIDs \X {call[c].res}
  <2>1. Delete({}, G, {}, f) /\ role' = role /\ resource' = resource /\ ru' = ru
    BY <1>4 DEF ResourceDELETESecond, rows
  <2>2. <<0, 0>> \notin G
    OBVIOUS
  <2>3. Idle.op = "idle" /\ Idle.at = "idle"
    BY DEF Idle
  <2> HIDE DEF G
  <2>4. f \in [Clients -> Calls] /\ \A d \in Clients : f[d] = call[d] \/ Settled(f[d])
    BY <2>3, IdleType DEF Typed, Settled
  <2>5. resource' \in [ResourceIDs -> Names \cup {None}]
    BY <2>1 DEF Typed
  <2> HIDE DEF f
  <2> QED
    BY <2>1, <2>2, <2>4, <2>5, CutInv
<1> QED
  BY <1>1, <1>2, <1>3, <1>4 DEF RbacStep

\* An answered request that was in ru leaves it to the others.
LEMMA LeaveInv ==
    ASSUME IInv, NEW c \in Clients, Answer(c), Leave(c), UNCHANGED <<rows, relations, service>>
    PROVE  IInv'
<1> USE ManagerAssumption DEF IInv
<1>1. Begins(c, "idle", "idle", None, None, 0, 0)
  BY Answered
<1>2. /\ role' = role /\ resource' = resource
      /\ roleUser' = roleUser /\ roleResource' = roleResource /\ service' = service
  BY DEF rows, relations
<1>3. /\ ru' \in [role : 0..MaxRole, user : Emails]
      /\ (\E d \in Clients \ {c} : InObject(d)) => ru' = ru
  BY DEF Leave, Typed, Emails
<1>4. Typed'
  BY <1>1, <1>2, <1>3 DEF Begins, Typed
<1>5. \A d \in Clients : Stage(d)'
  BY <1>1, <1>3 DEF Begins, Stage, InObject
<1>6. \A d \in Clients : Owned(d)'
  BY <1>1, <1>2 DEF Begins, Owned
<1>7. \A d \in Clients : Alone(d)'
  BY <1>1, <1>3 DEF Begins, Alone, InObject
<1> QED
  BY <1>2, <1>4, <1>5, <1>6, <1>7 DEF Listed

\* The steps of the handlers that decode into ru.
LEMMA RoleUserInv ==
    ASSUME IInv, NEW c \in Clients, RoleUserStep(c)
    PROVE  IInv'
<1> USE ManagerAssumption DEF IInv
<1>1. ASSUME NEW r \in 0..MaxRole, NEW u \in Emails, NEW op \in RoleUserOps, RoleUserBegin(c, op, r, u)
      PROVE  IInv'
  <2>1. Enters(c, op, r, u)
    BY <1>1, Entered
  <2>2. /\ role' = role /\ resource' = resource
        /\ roleUser' = roleUser /\ roleResource' = roleResource /\ service' = service
    BY <1>1 DEF RoleUserBegin, rows, relations
  <2>3. ru' \in [role : 0..MaxRole, user : Emails] /\ ru'.role = ru.role /\ ru'.user = u
    BY <1>1 DEF RoleUserBegin, Typed
  <2>4. Typed'
    BY <2>1, <2>2, <2>3 DEF Enters, Typed
  <2>5. call'[c].at = "id" /\ call'[c].op \notin {"service", "role"}
    BY <2>1 DEF Enters, RoleUserOps
  <2>6. \A d \in Clients : Stage(d)'
    BY <2>1, <2>2, <2>5 DEF Enters, Stage
  <2>7. \A d \in Clients : Owned(d)'
    BY <2>1, <2>2, <2>5 DEF Enters, Owned
  <2>8. \A d \in Clients : Alone(d)'
    BY <2>1, <2>3 DEF Enters, Alone, InObject
  <2> QED
    BY <2>2, <2>4, <2>6, <2>7, <2>8 DEF Listed
<1>2. ASSUME DecodeRoleID(c)
      PROVE  IInv'
  <2>1. Moves(c, "read") /\ Argues(c)
    BY <1>2, Moved
  <2>2. /\ role' = role /\ resource' = resource
        /\ roleUser' = roleUser /\ roleResource' = roleResource /\ service' = service
        /\ call[c].op \in RoleUserOps /\ call[c].at = "id"
    BY <1>2 DEF DecodeRoleID, At, rows, relations
  <2>3. /\ ru' \in [role : 0..MaxRole, user : Emails]
        /\ ru'.role \in {ru.role, call[c].role} /\ ru'.user = ru.user
        /\ call[c].role # 0 => ru'.role = call[c].role
    BY <1>2 DEF DecodeRoleID, Typed, Calls
  <2>4. Typed'
    BY <2>1, <2>2, <2>3 DEF Moves, Typed
  <2>5. \A d \in Clients : Stage(d)' /\ Owned(d)'
    BY <2>1, <2>2, <2>3 DEF Moves, Argues, Stage, Owned, RoleUserOps
  <2>6. \A d \in Clients : Alone(d)'
    BY <2>1, <2>2, <2>3 DEF Moves, Argues, Alone, InObject
  <2> QED
    BY <2>2, <2>4, <2>5, <2>6 DEF Listed
<1>3. ASSUME ReadArguments(c)
      PROVE  IInv'
  <2>1. /\ Moves(c, "send")
        /\ call'[c].user = ru.user /\ call'[c].role = ru.role /\ call'[c].res = call[c].res
    BY <1>3, Read
  <2>2. /\ role' = role /\ resource' = resource
        /\ roleUser' = roleUser /\ roleResource' = roleResource /\ service' = service
        /\ call[c].op \in {"join", "leave"} /\ call[c].at = "read"
    BY <1>3 DEF ReadArguments, At, rows, relations
  <2>3. /\ ru' \in [role : 0..MaxRole, user : Emails]
        /\ (\E d \in Clients \ {c} : InObject(d)) => ru' = ru
    BY <1>3 DEF ReadArguments, Leave, Typed, Emails
  <2>4. Typed'
    BY <2>1, <2>2, <2>3 DEF Moves, Typed
  <2>5. \A d \in Clients : Stage(d)'
    BY <2>1, <2>2 DEF Moves, Stage
  <2>6. \A d \in Clients : Owned(d)'
    BY <2>1, <2>2 DEF Moves, Owned
  <2>7. \A d \in Clients : Alone(d)'
    BY <2>1, <2>3 DEF Moves, Alone, InObject
  <2> QED
    BY <2>2, <2>4, <2>5, <2>6, <2>7 DEF Listed
<1>4. ASSUME RoleUserPOST(c)
      PROVE  IInv'
  <2>1. Begins(c, "idle", "idle", None, None, 0, 0)
    BY <1>4, Answered DEF RoleUserPOST
  <2>2. Member(c) \subseteq RoleIDs \X Users
    BY DEF Member
  <2>3. /\ role' = role /\ resource' = resource
        /\ roleUser' = roleUser \cup Member(c) /\ roleResource' = roleResource
        /\ service' = service /\ ru' = ru
    BY <1>4 DEF RoleUserPOST, rows
  <2>4. Typed'
    BY <2>1, <2>2, <2>3 DEF Begins, Typed
  <2>5. \A d \in Clients : Stage(d)' /\ Owned(d)'
    BY <2>1, <2>3 DEF Begins, Stage, Owned
  <2>6. \A d \in Clients : Alone(d)'
    BY <2>1, <2>3 DEF Begins, Alone, InObject
  <2> QED
    BY <2>3, <2>4, <2>5, <2>6 DEF Listed
<1>5. ASSUME RoleUserDELETE(c)
      PROVE  IInv'
  <2> DEFINE f == [call EXCEPT ![c] = Idle]
             M == Member(c)
  <2>1. Delete(M, {}, {}, f) /\ role' = role /\ resource' = resource /\ ru' = ru
    BY <1>5 DEF RoleUserDELETE, rows
  <2>2. <<0, None>> \notin M
    BY DEF Member, RoleIDs
  <2>3. Idle.op = "idle" /\ Idle.at = "idle"
    BY DEF Idle
  <2> HIDE DEF M
  <2>4. f \in [Clients -> Calls] /\ \A d \in Clients : f[d] = call[d] \/ Settled(f[d])
    BY <2>3, IdleType DEF Typed, Settled
  <2>5. resource' \in [ResourceIDs -> Names \cup {None}]
    BY <2>1 DEF Typed
  <2> HIDE DEF f
  <2> QED
    BY <2>1, <2>2, <2>4, <2>5, CutInv
<1>6. ASSUME RoleUserGET(c)
      PROVE  IInv'
  BY <1>6, LeaveInv DEF RoleUserGET
<1> QED
  BY <1>1, <1>2, <1>3, <1>4, <1>5, <1>6 DEF RoleUserStep, Emails

\* The handlers of one statement.
LEMMA StatementInv ==
    ASSUME IInv
    PROVE  /\ \A p \in Paths : ServiceDELETE(p) => IInv'
           /\ \A r \in RoleIDs, s \in ResourceIDs :
                RoleResourcePOST(r, s) \/ RoleResourceDELETE(r, s) => IInv'
           /\ \A r \in RoleIDs, n \in Names : RolePUT(r, n) => IInv'
<1> USE ManagerAssumption DEF IInv, rows, relations
<1>1. ASSUME NEW p \in Paths, ServiceDELETE(p)
      PROVE  IInv'
  <2>1. Typed' /\ \A q \in Paths : Listed(q)'
    BY <1>1, IdleType DEF ServiceDELETE, Typed, Listed
  <2> QED
    BY <1>1, <2>1 DEF ServiceDELETE, Stage, Owned, Alone, InObject
<1>2. ASSUME NEW r \in RoleIDs, NEW s \in ResourceIDs, RoleResourcePOST(r, s)
      PROVE  IInv'
  <2>1. Typed' /\ \A q \in Paths : Listed(q)'
    BY <1>2 DEF RoleResourcePOST, Typed, Listed
  <2> QED
    BY <1>2, <2>1 DEF RoleResourcePOST, Stage, Owned, Alone, InObject
<1>3. ASSUME NEW r \in RoleIDs, NEW s \in ResourceIDs, RoleResourceDELETE(r, s)
      PROVE  IInv'
  <2> DEFINE G == {<<r, s>>}
  <2>1. Delete({}, G, {}, call) /\ role' = role /\ resource' = resource /\ ru' = ru
    BY <1>3 DEF RoleResourceDELETE
  <2>2. <<0, 0>> \notin G /\ resource' \in [ResourceIDs -> Names \cup {None}]
    BY <2>1 DEF RoleIDs, Typed
  <2>3. call \in [Clients -> Calls] /\ \A d \in Clients : call[d] = call[d] \/ Settled(call[d])
    BY DEF Typed
  <2> HIDE DEF G
  <2> QED
    BY <2>1, <2>2, <2>3, CutInv
<1>4. ASSUME NEW r \in RoleIDs, NEW n \in Names, RolePUT(r, n)
      PROVE  IInv'
  <2>1. Typed' /\ \A q \in Paths : Listed(q)'
    BY <1>4 DEF RolePUT, Typed, Listed
  <2> QED
    BY <1>4, <2>1 DEF RolePUT, Stage, Owned, Alone, InObject
<1> QED
  BY <1>1, <1>2, <1>3, <1>4

\* The tables are empty and nobody has called.
LEMMA InitInv == Init => IInv
<1> SUFFICES ASSUME Init PROVE IInv
  OBVIOUS
<1> USE ManagerAssumption DEF Init
<1>1. \A c \in Clients : call[c] = Idle
  OBVIOUS
<1>2. /\ Idle.op = "idle" /\ Idle.at = "idle" /\ Idle.role = 0 /\ Idle.res = 0
      /\ NoMember.role = 0
  BY DEF Idle, NoMember
<1>3. Typed
  BY IdleType DEF Typed, NoMember, Emails
<1>4. \A c \in Clients : Stage(c) /\ Owned(c) /\ Alone(c)
  BY <1>1, <1>2 DEF Stage, Owned, Alone, InObject
<1> QED
  BY <1>1, <1>2, <1>3, <1>4 DEF IInv, Listed

\* Every step of Next keeps the invariant.
LEMMA StepInv == IInv /\ [Next]_vars => IInv'
<1> SUFFICES ASSUME IInv, [Next]_vars PROVE IInv'
  OBVIOUS
<1>1. ASSUME NEW c \in Clients, Fail(c)
      PROVE  IInv'
  BY <1>1, LeaveInv DEF Fail
<1>2. CASE UNCHANGED vars
  BY <1>2 DEF vars, rows, relations, IInv, Typed, Stage, Owned, Alone, InObject, Listed
<1> QED
  BY <1>1, <1>2, ServiceInv, RbacInv, RoleUserInv, StatementInv DEF Next

\* A request that is alone in ru reads there what it has decoded.
LEMMA ArgumentsStep ==
    ASSUME IInv, [Next]_vars
    PROVE  \A c \in Clients :
              call[c].at = "read" /\ call'[c].at = "send" /\ ~call[c].met =>
                  /\ call'[c].user = call[c].user
                  /\ call[c].role # 0 => call'[c].role = call[c].role
<1> USE DEF IInv
<1> DEFINE Quiet == \A d \in Clients : call'[d].at = "send" => call[d].at = "send"
<1>1. ASSUME NEW c \in Clients, NEW op, NEW t, NEW u, NEW n, NEW r, NEW s, t # "send",
             Begins(c, op, t, u, n, r, s)
      PROVE  Quiet
  BY <1>1 DEF Begins
<1>2. ASSUME NEW c \in Clients, NEW t, t # "send", Moves(c, t)
      PROVE  Quiet
  BY <1>2 DEF Moves
<1>3. ASSUME NEW c \in Clients, Answer(c)
      PROVE  Quiet
  BY <1>1, <1>3, Answered
<1>4. ASSUME NEW M, NEW G, NEW R, NEW f \in [Clients -> Calls], Delete(M, G, R, f),
             \A d \in Clients : f[d].at = "send" => call[d].at = "send"
      PROVE  Quiet
  BY <1>4, Cut DEF Cuts
<1>5. ASSUME call' = call
      PROVE  Quiet
  BY <1>5
<1> HIDE DEF Quiet
<1>6. ASSUME NEW c \in Clients, ServiceStep(c)
      PROVE  Quiet
  <2>1. ASSUME NEW u \in Users, NEW n \in Names, ServicePOST(c, u, n) \/ RolePOST(c, u, n)
        PROVE  Quiet
    BY <1>1, <2>1, Begun
  <2>2. ASSUME PostResource(c) \/ RoleAdd(c) \/ PostRoleResource(c)
        PROVE  Quiet
    BY <1>2, <2>2, Added, Moved
  <2>3. ASSUME RoleUserAdd(c)
        PROVE  Quiet
    <3>1. CASE call[c].op = "service"
      BY <1>2, <2>3, <3>1, Moved
    <3>2. CASE call[c].op # "service"
      BY <1>3, <2>3, <3>2 DEF RoleUserAdd
    <3> QED
      BY <3>1, <3>2
  <2> QED
    BY <1>3, <1>6, <2>1, <2>2, <2>3 DEF ServiceStep, Insert
<1>7. ASSUME NEW c \in Clients, RbacStep(c)
      PROVE  Quiet
  <2>1. ASSUME NEW r \in RoleIDs, NEW n \in Names \cup {None}, RoleDELETE(c, r, n)
        PROVE  Quiet
    <3> DEFINE q == [Idle EXCEPT !.op = "dropRole", !.at = "second", !.role = r, !.name = n]
               f == [call EXCEPT ![c] = q]
    <3>0. r \in 0..MaxRole
      BY ManagerAssumption DEF RoleIDs
    <3>1. q \in Calls /\ q.at = "second"
      BY <3>0, IdleType DEF Calls, Ops, Steps, Idle
    <3>2. Delete({r} \X Users, {}, {}, f)
      BY <2>1 DEF RoleDELETE
    <3> HIDE DEF q
    <3>3. f \in [Clients -> Calls] /\ \A d \in Clients : f[d].at = "send" => call[d].at = "send"
      BY <3>1 DEF Typed
    <3> QED
      BY <1>4, <3>2, <3>3
  <2>2. ASSUME NEW s \in ResourceIDs, ResourceDELETE(c, s)
        PROVE  Quiet
    <3> DEFINE q == [Idle EXCEPT !.op = "dropResource", !.at = "second", !.res = s]
               f == [call EXCEPT ![c] = q]
    <3>0. s \in 0..MaxResource
      BY ManagerAssumption DEF ResourceIDs
    <3>1. q \in Calls /\ q.at = "second"
      BY <3>0, IdleType DEF Calls, Ops, Steps, Idle
    <3>2. Delete({}, {}, {s}, f)
      BY <2>2 DEF ResourceDELETE
    <3> HIDE DEF q
    <3>3. f \in [Clients -> Calls] /\ \A d \in Clients : f[d].at = "send" => call[d].at = "send"
      BY <3>1 DEF Typed
    <3> QED
      BY <1>4, <3>2, <3>3
  <2>3. ASSUME ResourceDELETESecond(c)
        PROVE  Quiet
    <3> DEFINE f == [call EXCEPT ![c] = Idle]
    <3>1. f \in [Clients -> Calls] /\ \A d \in Clients : f[d].at = "send" => call[d].at = "send"
      BY IdleType DEF Typed, Idle
    <3>2. Delete({}, RoleIDs \X {call[c].res}, {}, f)
      BY <2>3 DEF ResourceDELETESecond
    <3> QED
      BY <1>4, <3>1, <3>2
  <2> QED
    BY <1>3, <1>7, <2>1, <2>2, <2>3 DEF RbacStep, RoleDELETESecond
<1>8. ASSUME NEW c \in Clients, RoleUserStep(c), ~ReadArguments(c)
      PROVE  Quiet
  <2>1. ASSUME NEW r \in 0..MaxRole, NEW u \in Emails, NEW op \in RoleUserOps, RoleUserBegin(c, op, r, u)
        PROVE  Quiet
    BY <2>1, Entered DEF Enters, Quiet
  <2>2. ASSUME RoleUserDELETE(c)
        PROVE  Quiet
    <3> DEFINE f == [call EXCEPT ![c] = Idle]
    <3>1. f \in [Clients -> Calls] /\ \A d \in Clients : f[d].at = "send" => call[d].at = "send"
      BY IdleType DEF Typed, Idle
    <3>2. Delete(Member(c), {}, {}, f)
      BY <2>2 DEF RoleUserDELETE
    <3> QED
      BY <1>4, <3>1, <3>2
  <2>3. ASSUME DecodeRoleID(c)
        PROVE  Quiet
    BY <1>2, <2>3, Moved
  <2> QED
    BY <1>3, <1>8, <2>1, <2>2, <2>3 DEF RoleUserStep, RoleUserPOST, RoleUserGET, Emails
<1>9. ASSUME NEW r \in RoleIDs, NEW s \in ResourceIDs, RoleResourceDELETE(r, s)
      PROVE  Quiet
  BY <1>4, <1>9 DEF RoleResourceDELETE, Typed
<1>10. Quiet \/ \E c \in Clients : ReadArguments(c)
  BY <1>3, <1>5, <1>6, <1>7, <1>8, <1>9
     DEF Next, vars, Fail, ServiceDELETE, RoleResourcePOST, RolePUT
<1>11. ASSUME NEW c \in Clients, ReadArguments(c)
       PROVE  /\ \A d \in Clients \ {c} : call'[d] = call[d]
              /\ ~call[c].met =>
                    /\ call'[c].user = call[c].user
                    /\ call[c].role # 0 => call'[c].role = call[c].role
  BY <1>11, Read DEF Moves, Alone, InObject, ReadArguments, At
<1> QED
  BY <1>10, <1>11 DEF Quiet

(***************************************************************************)
(* The inductive invariant holds.                                          *)
(***************************************************************************)
THEOREM ManagerInv == Spec => []IInv
BY InitInv, StepInv, PTL DEF Spec

(***************************************************************************)
(* The tables, the object and the requests keep their types.               *)
(***************************************************************************)
THEOREM ManagerTyped == Spec => []TypeOK
<1>1. IInv => TypeOK
  BY TypedIsTypeOK DEF IInv
<1> QED
  BY <1>1, ManagerInv, PTL

(***************************************************************************)
(* No service exists without the resource, the role and the grant of the   *)
(* user who created it, unless somebody removed one of them.               *)
(***************************************************************************)
THEOREM ServicesSafe == Spec => []ServicesAreOwned
<1>1. ASSUME IInv, NEW p \in Paths, service[p] # NoService, ~service[p].cut
      PROVE  service[p].res \in UserResourceGet(service[p].user)
  <2>1. /\ resource[service[p].res] # None
        /\ <<service[p].role, service[p].user>> \in roleUser
        /\ <<service[p].role, service[p].res>> \in roleResource
    BY <1>1 DEF IInv, Listed
  <2>2. service[p].role \in RoleIDs /\ service[p].res \in ResourceIDs
    BY <1>1, <2>1 DEF IInv, Typed
  <2> QED
    BY <2>1, <2>2 DEF UserResourceGet
<1>2. IInv => ServicesAreOwned
  BY <1>1 DEF ServicesAreOwned
<1> QED
  BY <1>2, ManagerInv, PTL

(***************************************************************************)
(* Only requests that overlap in the object of /role/user/ are mixed up.   *)
(***************************************************************************)
THEOREM ArgumentsSafe == Spec => OwnArguments
<1>1. Spec => [][IInv /\ [Next]_vars]_vars
  BY ManagerInv, PTL DEF Spec
<1> QED
  BY <1>1, ArgumentsStep, PTL DEF OwnArguments

=============================================================================
