----------------------------- MODULE Interfaces -----------------------------
(***************************************************************************)
(* The interfaces the manager keeps in its database, the variables that    *)
(* describe them and the applications they are granted to                  *)
(* (manager/interface.go, variable.go, relation.go, db.go).  A statement   *)
(* of SQL is one step; no handler uses a transaction.  A report, a call of *)
(* interfaceRegister.POST, brings the document of a version of a program.  *)
(* Its handler goes on when the caller has given up.                       *)
(***************************************************************************)
EXTENDS Naturals

CONSTANTS Reports,      \* handlers of interfaceRegister.POST
          Paths,        \* service, path and method: the unique key of interface
          Versions,     \* versions of a program, positive
          Doc,          \* the fields in the document of a version
          Bodies,       \* what a request may have as Version and State
          Apps,         \* applications
          MaxID,        \* bound on the rows ever inserted into interface
          MaxRows,      \* bound on equal rows of variable
          Absent        \* no row

Fields == UNION {Doc[v] : v \in Versions}

ASSUME VersionsAssumption == Versions \subseteq Nat \ {0}
ASSUME DocAssumption == DOMAIN Doc = Versions
ASSUME BodiesAssumption == Bodies \subseteq Versions \X {0, 1}
ASSUME MaxIDAssumption == MaxID \in Nat
ASSUME AbsentAssumption == Absent \notin Paths \cup [path : Paths, version : Versions \cup {0}, state : {0, 1}]

VARIABLES iface,    \* table interface
          next,     \* its AUTO_INCREMENT
          variable, \* table variable: how many rows an interface has of a field
          relation, \* table relation: granted interfaces of an application
          moved,    \* history: relations that relation.PUT has written
          withdrawn, \* history: interfaces whose state a report was the last to write, as 0
          granting, \* relation.POST between reading the state and inserting
          pc,       \* where a report is
          path, version, state,     \* what it reports
          id, todo,                 \* its interface, the fields left
          clean     \* history: no other statement has touched its interface since it wrote it

reportVars == <<pc, path, version, state, id, todo>>
grantVars == <<relation, moved, granting>>
vars == <<iface, next, variable, grantVars, withdrawn, reportVars, clean>>

IDs == 1..MaxID
Rows == [path : Paths, version : Versions \cup {0}, state : {0, 1}]
\* A row of variable is a field as a version describes it, 0 as a user does.
Descriptions == Fields \X (Versions \cup {0})

NoRows == [d \in Descriptions |-> 0]
Described(fs, v) == [d \in Descriptions |-> IF d[1] \in fs /\ d[2] = v THEN 1 ELSE 0]

TypeOK ==
    /\ iface \in [IDs -> Rows \cup {Absent}]
    /\ next \in 1..(MaxID + 1)
    /\ variable \in [IDs -> [Descriptions -> Nat]]
    /\ relation \subseteq Apps \X IDs
    /\ moved \subseteq relation
    /\ withdrawn \subseteq IDs
    /\ granting \in [Apps -> IDs \cup {0}]
    /\ pc \in [Reports -> {"idle", "insert", "query", "update", "clear", "variables", "done"}]
    /\ path \in [Reports -> Paths \cup {Absent}]
    /\ version \in [Reports -> Versions \cup {0}]
    /\ state \in [Reports -> {0, 1}]
    /\ id \in [Reports -> IDs \cup {0}]
    /\ todo \in [Reports -> SUBSET Fields]
    /\ clean \in [Reports -> BOOLEAN]

Exists(i) == iface[i] # Absent
Taken(p) == \E i \in IDs : Exists(i) /\ iface[i].path = p

Init ==
    /\ iface = [i \in IDs |-> Absent]
    /\ next = 1
    /\ variable = [i \in IDs |-> NoRows]
    /\ relation = {} /\ moved = {} /\ withdrawn = {}
    /\ granting = [a \in Apps |-> 0]
    /\ pc = [r \in Reports |-> "idle"]
    /\ path = [r \in Reports |-> Absent]
    /\ version = [r \in Reports |-> 0]
    /\ state = [r \in Reports |-> 0]
    /\ id = [r \in Reports |-> 0]
    /\ todo = [r \in Reports |-> {}]
    /\ clean = [r \in Reports |-> FALSE]

\* Reports of interface i no longer know what is in the tables, except r.
Touched(i, r) == [q \in Reports |-> clean[q] /\ (id[q] # i \/ q = r)]

-----------------------------------------------------------------------------

\* A request with a service in the field ServiceID.  State is 1 unless the body
\* has one.
Call(r, p, b) ==
    /\ pc[r] \in {"idle", "done"}
    /\ pc' = [pc EXCEPT ![r] = "insert"]
    /\ path' = [path EXCEPT ![r] = p]
    /\ version' = [version EXCEPT ![r] = b[1]]
    /\ state' = [state EXCEPT ![r] = b[2]]
    /\ id' = [id EXCEPT ![r] = 0]
    /\ todo' = [todo EXCEPT ![r] = {}]
    /\ clean' = [clean EXCEPT ![r] = FALSE]
    /\ UNCHANGED <<iface, next, variable, grantVars, withdrawn>>

\* A statement or the query of the service fails, or the manager dies.
Fail(r) ==
    /\ pc[r] \notin {"idle", "done"}
    /\ pc' = [pc EXCEPT ![r] = "idle"]
    /\ path' = [path EXCEPT ![r] = Absent]
    /\ version' = [version EXCEPT ![r] = 0]
    /\ state' = [state EXCEPT ![r] = 0]
    /\ id' = [id EXCEPT ![r] = 0]
    /\ todo' = [todo EXCEPT ![r] = {}]
    /\ clean' = [clean EXCEPT ![r] = FALSE]
    /\ UNCHANGED <<iface, next, variable, grantVars, withdrawn>>

\* The row that r writes.
Reported(r) == [path |-> path[r], version |-> version[r], state |-> state[r]]

\* AUTO_INCREMENT; next <= MaxID is a bound of the model.
NewID(i) == i \in IDs /\ i = next

\* The insert succeeds: an interface with a new id and no variables.
Insert(r, i) ==
    /\ pc[r] = "insert"
    /\ ~Taken(path[r])
    /\ NewID(i)
    /\ iface' = [iface EXCEPT ![i] = Reported(r)]
    /\ next' = next + 1
    /\ pc' = [pc EXCEPT ![r] = "variables"]
    /\ id' = [id EXCEPT ![r] = i]
    /\ todo' = [todo EXCEPT ![r] = Doc[version[r]]]
    /\ clean' = [Touched(i, r) EXCEPT ![r] = TRUE]
    /\ UNCHANGED <<variable, grantVars, withdrawn, path, version, state>>

\* Error 1062: the path is there already.
InsertDuplicate(r) ==
    /\ pc[r] = "insert"
    /\ Taken(path[r])
    /\ pc' = [pc EXCEPT ![r] = "query"]
    /\ UNCHANGED <<iface, next, variable, grantVars, withdrawn, path, version, state, id, todo, clean>>

\* Mutant of Query: the id is the table's next one, not that of the row.
QueryNext(r, i) ==
    /\ pc[r] = "query"
    /\ Exists(i) /\ iface[i].path = path[r]
    /\ pc' = [pc EXCEPT ![r] = "update"]
    /\ id' = [id EXCEPT ![r] = next]
    /\ UNCHANGED <<iface, next, variable, grantVars, withdrawn, path, version, state, todo, clean>>

\* The row may be gone by now (Fail).
Query(r, i) ==
    /\ pc[r] = "query"
    /\ Exists(i) /\ iface[i].path = path[r]
    /\ pc' = [pc EXCEPT ![r] = "update"]
    /\ id' = [id EXCEPT ![r] = i]
    /\ UNCHANGED <<iface, next, variable, grantVars, withdrawn, path, version, state, todo, clean>>

\* Update where id: it changes no row, without an error, when the row is gone,
\* and fails when another row has got the path (Fail).
Update(r) ==
    LET i == id[r] IN
    /\ pc[r] = "update"
    /\ \A j \in IDs \ {i} : Exists(j) => ~(Exists(i) /\ iface[j].path = path[r])
    /\ iface' = IF Exists(i) THEN [iface EXCEPT ![i] = Reported(r)] ELSE iface
    /\ withdrawn' = IF Exists(i) /\ state[r] = 0 THEN withdrawn \cup {i} ELSE withdrawn \ {i}
    /\ pc' = [pc EXCEPT ![r] = "clear"]
    /\ clean' = [Touched(i, r) EXCEPT ![r] = Exists(i)]
    /\ UNCHANGED <<next, variable, grantVars, path, version, state, id, todo>>

\* Mutant of Clear: only what this version describes is deleted.
ClearOwn(r) ==
    /\ pc[r] = "clear"
    /\ variable' = [variable EXCEPT ![id[r]] =
                      [d \in Descriptions |-> IF d[2] = version[r] THEN 0 ELSE @[d]]]
    /\ pc' = [pc EXCEPT ![r] = "variables"]
    /\ todo' = [todo EXCEPT ![r] = Doc[version[r]]]
    /\ clean' = Touched(id[r], r)
    /\ UNCHANGED <<iface, next, grantVars, withdrawn, path, version, state, id>>

\* delete from variable where interface_id=?
Clear(r) ==
    /\ pc[r] = "clear"
    /\ variable' = [variable EXCEPT ![id[r]] = NoRows]
    /\ pc' = [pc EXCEPT ![r] = "variables"]
    /\ todo' = [todo EXCEPT ![r] = Doc[version[r]]]
    /\ clean' = Touched(id[r], r)
    /\ UNCHANGED <<iface, next, grantVars, withdrawn, path, version, state, id>>

\* addVariable inserts one field; the order is that of a Go map.
AddVariable(r, f) ==
    /\ pc[r] = "variables"
    /\ f \in todo[r]
    /\ variable' = [variable EXCEPT ![id[r]][<<f, version[r]>>] = @ + 1]
    /\ todo' = [todo EXCEPT ![r] = @ \ {f}]
    /\ clean' = Touched(id[r], r)
    /\ UNCHANGED <<iface, next, grantVars, withdrawn, pc, path, version, state, id>>

\* SendResponseData
Reply(r) ==
    /\ pc[r] = "variables"
    /\ todo[r] = {}
    /\ pc' = [pc EXCEPT ![r] = "done"]
    /\ UNCHANGED <<iface, next, variable, grantVars, withdrawn, path, version, state, id, todo, clean>>

-----------------------------------------------------------------------------
\* What users do in the pages of the manager.

\* interfaceAction.POST: not published.
InterfacePOST(p, i) ==
    /\ ~Taken(p)
    /\ NewID(i)
    /\ iface' = [iface EXCEPT ![i] = [path |-> p, version |-> 0, state |-> 0]]
    /\ next' = next + 1
    /\ clean' = [q \in Reports |-> clean[q] /\ id[q] # i]
    /\ UNCHANGED <<variable, grantVars, withdrawn, reportVars>>

\* Mutant of InterfacePUT: the update writes the whole row, as a new one.
InterfacePUTAll(i, p) ==
    /\ Exists(i)
    /\ \A j \in IDs \ {i} : Exists(j) => iface[j].path # p
    /\ iface' = [iface EXCEPT ![i] = [path |-> p, version |-> @.version, state |-> 0]]
    /\ clean' = [q \in Reports |-> clean[q] /\ id[q] # i]
    /\ UNCHANGED <<next, variable, grantVars, withdrawn, reportVars>>

\* updateInterface writes the path and the method, neither version nor state.
InterfacePUT(i, p) ==
    /\ Exists(i)
    /\ \A j \in IDs \ {i} : Exists(j) => iface[j].path # p
    /\ iface' = [iface EXCEPT ![i].path = p]
    /\ clean' = [q \in Reports |-> clean[q] /\ id[q] # i]
    /\ UNCHANGED <<next, variable, grantVars, withdrawn, reportVars>>

\* interfaceAction.DELETE: the variables and relations stay.
InterfaceDELETE(i) ==
    /\ Exists(i)
    /\ iface' = [iface EXCEPT ![i] = Absent]
    /\ withdrawn' = withdrawn \ {i}
    /\ clean' = [q \in Reports |-> clean[q] /\ id[q] # i]
    /\ UNCHANGED <<next, variable, grantVars, reportVars>>

\* interfaceDeploy.PUT
DeployInterface(i) ==
    /\ Exists(i)
    /\ iface' = [iface EXCEPT ![i].state = 1]
    /\ withdrawn' = withdrawn \ {i}
    /\ UNCHANGED <<next, variable, grantVars, reportVars, clean>>

\* variable.POST, DELETE and PUT: a row of a field is added, removed, rewritten.
\* The page sends the id of an interface it has shown (i < next); the handler
\* does not look whether it is still there.
VariablePOST(i, f) ==
    /\ i < next
    /\ variable[i][<<f, 0>>] < MaxRows
    /\ variable' = [variable EXCEPT ![i][<<f, 0>>] = @ + 1]
    /\ clean' = [q \in Reports |-> clean[q] /\ id[q] # i]
    /\ UNCHANGED <<iface, next, grantVars, withdrawn, reportVars>>

VariableDELETE(i, d) ==
    /\ variable[i][d] > 0
    /\ variable' = [variable EXCEPT ![i][d] = @ - 1]
    /\ clean' = [q \in Reports |-> clean[q] /\ id[q] # i]
    /\ UNCHANGED <<iface, next, grantVars, withdrawn, reportVars>>

VariablePUT(i, d, f) ==
    /\ variable[i][d] > 0
    /\ variable[i][<<f, 0>>] < MaxRows
    /\ d # <<f, 0>>
    /\ variable' = [variable EXCEPT ![i][d] = @ - 1, ![i][<<f, 0>>] = @ + 1]
    /\ clean' = [q \in Reports |-> clean[q] /\ id[q] # i]
    /\ UNCHANGED <<iface, next, grantVars, withdrawn, reportVars>>

\* relation.POST: getInterfaceState ...
GrantBegin(a, i) ==
    /\ granting[a] = 0
    /\ Exists(i) /\ iface[i].state = 1
    /\ granting' = [granting EXCEPT ![a] = i]
    /\ UNCHANGED <<iface, next, variable, relation, moved, withdrawn, reportVars, clean>>

\* ... then add, which fails when the relation is there already.
GrantAdd(a) ==
    /\ granting[a] # 0
    /\ relation' = relation \cup {<<a, granting[a]>>}
    /\ granting' = [granting EXCEPT ![a] = 0]
    /\ UNCHANGED <<iface, next, variable, moved, withdrawn, reportVars, clean>>

\* The connection or the insert fails.
GrantFail(a) ==
    /\ granting[a] # 0
    /\ granting' = [granting EXCEPT ![a] = 0]
    /\ UNCHANGED <<iface, next, variable, relation, moved, withdrawn, reportVars, clean>>

\* relation.PUT does not look at the interface.
RelationPUT(x, y) ==
    /\ x \in relation
    /\ y \notin relation
    /\ relation' = (relation \ {x}) \cup {y}
    /\ moved' = (moved \ {x}) \cup {y}
    /\ UNCHANGED <<iface, next, variable, granting, withdrawn, reportVars, clean>>

RelationDELETE(x) ==
    /\ x \in relation
    /\ relation' = relation \ {x}
    /\ moved' = moved \ {x}
    /\ UNCHANGED <<iface, next, variable, granting, withdrawn, reportVars, clean>>

-----------------------------------------------------------------------------

Register(r) ==
    \/ Fail(r)
    \/ \E i \in IDs : Insert(r, i)
    \/ InsertDuplicate(r)
    \/ \E i \in IDs : Query(r, i)
    \/ Update(r)
    \/ Clear(r)
    \/ \E f \in Fields : AddVariable(r, f)
    \/ Reply(r)

Edit ==
    \E i \in IDs :
        \/ \E p \in Paths : InterfacePOST(p, i)
        \/ \E p \in Paths : InterfacePUT(i, p)
        \/ InterfaceDELETE(i)
        \/ DeployInterface(i)
        \/ \E f \in Fields : VariablePOST(i, f)
        \/ \E d \in Descriptions : VariableDELETE(i, d)
        \/ \E d \in Descriptions, f \in Fields : VariablePUT(i, d, f)

Grant ==
    \/ \E a \in Apps, i \in IDs : GrantBegin(a, i)
    \/ \E a \in Apps : GrantAdd(a)
    \/ \E a \in Apps : GrantFail(a)
    \/ \E x \in relation, y \in Apps \X IDs : RelationPUT(x, y)
    \/ \E x \in relation : RelationDELETE(x)

Next ==
    \/ \E r \in Reports, p \in Paths, b \in Bodies : Call(r, p, b)
    \/ \E r \in Reports : Register(r)
    \/ Edit
    \/ Grant

Spec == Init /\ [][Next]_vars

-----------------------------------------------------------------------------

(***************************************************************************)
(* A report that is answered without an error has taken effect when no     *)
(* other statement has touched its interface since the report wrote the    *)
(* row: the interface has its version, is published if the report says so, *)
(* and the variables are exactly the fields of its document, once each,    *)
(* whatever overlapping or failed reports and edits had left there before. *)
(***************************************************************************)
ReportTakesEffect ==
    \A r \in Reports :
        pc[r] = "done" /\ clean[r] =>
            /\ Exists(id[r])
            /\ iface[id[r]].version = version[r]
            /\ state[r] = 1 => iface[id[r]].state = 1
            /\ variable[id[r]] = Described(Doc[version[r]], version[r])

(***************************************************************************)
(* A relation made by relation.POST is to a published interface, to one    *)
(* that is gone, or to one that a report has unpublished: neither an edit, *)
(* nor a row that replaces a deleted one between the reading of the state  *)
(* and the insert or later, leaves an application with an interface that   *)
(* was never published ("接口未发布，不可以授权应用", relation.go:155).      *)
(***************************************************************************)
GrantsArePublished ==
    \A x \in relation \ moved :
        Exists(x[2]) => iface[x[2]].state = 1 \/ x[2] \in withdrawn

=============================================================================
