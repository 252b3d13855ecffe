------------------------- MODULE Interfaces_proofs --------------------------
(***************************************************************************)
(* The safety of Interfaces for every number of reports, paths, versions,  *)
(* fields, applications and rows.                                          *)
(***************************************************************************)
EXTENDS Interfaces, TLAPS

\* The module is long: its leaves get more time than the provers have by default.
USE SMTT(15), ZenonT(15)

(***************************************************************************)
(* How far a clean report has come with its interface.                     *)
(***************************************************************************)
Progress(r) ==
    /\ pc[r] \in {"update", "clear", "variables", "done"} => id[r] \in IDs
    /\ pc[r] # "idle" => version[r] \in Versions /\ path[r] \in Paths
    /\ clean[r] =>
         /\ pc[r] \in {"clear", "variables", "done"}
         /\ Exists(id[r])
         /\ iface[id[r]].version = version[r]
         /\ state[r] = 1 => iface[id[r]].state = 1
    /\ clean[r] /\ pc[r] = "variables" =>
         /\ todo[r] \subseteq Doc[version[r]]
         /\ variable[id[r]] = Described(Doc[version[r]] \ todo[r], version[r])
    /\ clean[r] /\ pc[r] = "done" =>
         variable[id[r]] = Described(Doc[version[r]], version[r])

(***************************************************************************)
(* Nothing refers to a number that AUTO_INCREMENT has not given out.       *)
(***************************************************************************)
Unused ==
    \A i \in IDs : i >= next =>
        /\ iface[i] = Absent
        /\ variable[i] = NoRows
        /\ \A a \in Apps : granting[a] # i /\ (<<a, i>> \in relation => <<a, i>> \in moved)
        /\ \A r \in Reports : id[r] # i

Granted ==
    \A a \in Apps :
        granting[a] # 0 /\ Exists(granting[a]) =>
            iface[granting[a]].state = 1 \/ granting[a] \in withdrawn

IInv ==
    /\ TypeOK
    /\ \A r \in Reports : Progress(r)
    /\ Unused
    /\ Granted
    /\ GrantsArePublished

-----------------------------------------------------------------------------

\* The values that the statements write are rows of the table interface.
LEMMA RowType ==
    /\ Absent \notin Rows
    /\ \A p \in Paths, v \in Versions \cup {0}, s \in {0, 1} :
         [path |-> p, version |-> v, state |-> s] \in Rows
BY AbsentAssumption DEF Rows

\* What InterfacePUT and DeployInterface make of a row.
LEMMA RowEdit ==
    \A w \in Rows : /\ \A p \in Paths : [w EXCEPT !.path = p] \in Rows
                    /\ [w EXCEPT !.state = 1] \in Rows
BY DEF Rows

\* What they leave alone.
LEMMA RowKeeps ==
    \A w \in Rows : /\ \A p \in Paths : /\ [w EXCEPT !.path = p].version = w.version
                                        /\ [w EXCEPT !.path = p].state = w.state
                    /\ [w EXCEPT !.state = 1].version = w.version
                    /\ [w EXCEPT !.state = 1].state = 1
BY DEF Rows

\* The fields of a document, and the rows of variable.
LEMMA FieldType ==
    /\ \A v \in Versions : Doc[v] \subseteq Fields
    /\ \A f \in Fields, v \in Versions \cup {0} : <<f, v>> \in Descriptions
    /\ NoRows \in [Descriptions -> Nat]
BY DEF Fields, Descriptions, NoRows

\* Every statement keeps the tables and the handlers typed.
LEMMA TypeStep == IInv /\ [Next]_vars => TypeOK'
<1> SUFFICES ASSUME IInv, [Next]_vars PROVE TypeOK'
  OBVIOUS
<1> USE DEF IInv
<1>1. ASSUME NEW r \in Reports, NEW p \in Paths, NEW b \in Bodies, Call(r, p, b)
      PROVE  TypeOK'
  BY <1>1, BodiesAssumption DEF Call, TypeOK, reportVars, grantVars
<1>2. ASSUME NEW r \in Reports, Fail(r)
      PROVE  TypeOK'
  BY <1>2 DEF Fail, TypeOK, reportVars, grantVars
<1>3. ASSUME NEW r \in Reports, NEW i \in IDs, Insert(r, i)
      PROVE  TypeOK'
  <2>1. version[r] \in Versions /\ path[r] \in Paths
    BY <1>3 DEF Insert, Progress
  <2>2. iface' \in [IDs -> Rows \cup {Absent}]
    BY <1>3, <2>1, RowType DEF Insert, Reported, TypeOK
  <2>3. next' \in 1..(MaxID + 1)
    BY <1>3, MaxIDAssumption DEF Insert, NewID, TypeOK, IDs
  <2>4. todo' \in [Reports -> SUBSET Fields]
    BY <1>3, <2>1, FieldType DEF Insert, TypeOK
  <2>5. clean' \in [Reports -> BOOLEAN]
    BY <1>3 DEF Insert, Touched, TypeOK
  <2> QED
    BY <1>3, <2>2, <2>3, <2>4, <2>5 DEF Insert, TypeOK, grantVars
<1>4. ASSUME NEW r \in Reports, InsertDuplicate(r)
      PROVE  TypeOK'
  BY <1>4 DEF InsertDuplicate, TypeOK, reportVars, grantVars
<1>5. ASSUME NEW r \in Reports, NEW i \in IDs, Query(r, i)
      PROVE  TypeOK'
  BY <1>5 DEF Query, TypeOK, reportVars, grantVars
<1>6. ASSUME NEW r \in Reports, Update(r)
      PROVE  TypeOK'
  <2>1. version[r] \in Versions /\ path[r] \in Paths /\ id[r] \in IDs
    BY <1>6 DEF Update, Progress
  <2>2. iface' \in [IDs -> Rows \cup {Absent}]
    BY <1>6, <2>1, RowType DEF Update, Reported, TypeOK
  <2>3. clean' \in [Reports -> BOOLEAN]
    BY <1>6 DEF Update, Touched, Exists, TypeOK
  <2> QED
    BY <1>6, <2>2, <2>3 DEF Update, TypeOK, grantVars
<1>7. ASSUME NEW r \in Reports, Clear(r)
      PROVE  TypeOK'
  <2>1. version[r] \in Versions /\ id[r] \in IDs
    BY <1>7 DEF Clear, Progress
  <2>2. variable' \in [IDs -> [Descriptions -> Nat]]
    BY <1>7, <2>1, FieldType DEF Clear, TypeOK
  <2>3. todo' \in [Reports -> SUBSET Fields]
    BY <1>7, <2>1, FieldType DEF Clear, TypeOK
  <2>4. clean' \in [Reports -> BOOLEAN]
    BY <1>7 DEF Clear, Touched, TypeOK
  <2> QED
    BY <1>7, <2>2, <2>3, <2>4 DEF Clear, TypeOK, grantVars
<1>8. ASSUME NEW r \in Reports, NEW f \in Fields, AddVariable(r, f)
      PROVE  TypeOK'
  <2>1. <<f, version[r]>> \in Descriptions /\ id[r] \in IDs
    BY <1>8, FieldType DEF AddVariable, Progress
  <2>2. variable' \in [IDs -> [Descriptions -> Nat]]
    BY <1>8, <2>1 DEF AddVariable, TypeOK
  <2>3. clean' \in [Reports -> BOOLEAN]
    BY <1>8 DEF AddVariable, Touched, TypeOK
  <2> QED
    BY <1>8, <2>2, <2>3 DEF AddVariable, TypeOK, grantVars
<1>9. ASSUME NEW r \in Reports, Reply(r)
      PROVE  TypeOK'
  BY <1>9 DEF Reply, TypeOK, reportVars, grantVars
<1>10. ASSUME NEW p \in Paths, NEW i \in IDs, InterfacePOST(p, i)
      PROVE  TypeOK'
  <2>1. iface' \in [IDs -> Rows \cup {Absent}]
    BY <1>10, RowType DEF InterfacePOST, TypeOK
  <2>2. next' \in 1..(MaxID + 1)
    BY <1>10, MaxIDAssumption DEF InterfacePOST, NewID, TypeOK, IDs
  <2> QED
    BY <1>10, <2>1, <2>2 DEF InterfacePOST, TypeOK, reportVars, grantVars
<1>11. ASSUME NEW i \in IDs, NEW p \in Paths, InterfacePUT(i, p)
      PROVE  TypeOK'
  <2>1. iface[i] \in Rows
    BY <1>11 DEF InterfacePUT, Exists, TypeOK
  <2>2. iface' \in [IDs -> Rows \cup {Absent}]
    BY <1>11, <2>1, RowEdit DEF InterfacePUT, TypeOK
  <2> QED
    BY <1>11, <2>2 DEF InterfacePUT, TypeOK, reportVars, grantVars
<1>12. ASSUME NEW i \in IDs, InterfaceDELETE(i)
      PROVE  TypeOK'
  BY <1>12 DEF InterfaceDELETE, TypeOK, reportVars, grantVars
<1>13. ASSUME NEW i \in IDs, DeployInterface(i)
      PROVE  TypeOK'
  <2>1. iface[i] \in Rows
    BY <1>13 DEF DeployInterface, Exists, TypeOK
  <2>2. iface' \in [IDs -> Rows \cup {Absent}]
    BY <1>13, <2>1, RowEdit DEF DeployInterface, TypeOK
  <2> QED
    BY <1>13, <2>2 DEF DeployInterface, TypeOK, reportVars, grantVars
<1>14. ASSUME NEW i \in IDs, NEW f \in Fields, VariablePOST(i, f)
      PROVE  TypeOK'
  <2>1. variable' \in [IDs -> [Descriptions -> Nat]]
    BY <1>14, FieldType DEF VariablePOST, TypeOK
  <2> QED
    BY <1>14, <2>1 DEF VariablePOST, TypeOK, reportVars, grantVars
<1>15. ASSUME NEW i \in IDs, NEW e \in Descriptions, VariableDELETE(i, e)
      PROVE  TypeOK'
  <2>1. variable' \in [IDs -> [Descriptions -> Nat]]
    BY <1>15 DEF VariableDELETE, TypeOK
  <2> QED
    BY <1>15, <2>1 DEF VariableDELETE, TypeOK, reportVars, grantVars
<1>16. ASSUME NEW i \in IDs, NEW e \in Descriptions, NEW f \in Fields, VariablePUT(i, e, f)
      PROVE  TypeOK'
  <2>1. variable' \in [IDs -> [Descriptions -> Nat]]
    <3>1. /\ variable \in [IDs -> [Descriptions -> Nat]] /\ <<f, 0>> \in Descriptions
          /\ variable[i][e] > 0 /\ e # <<f, 0>>
          /\ variable' = [variable EXCEPT ![i][e] = @ - 1, ![i][<<f, 0>>] = @ + 1]
      BY <1>16, FieldType DEF VariablePUT, TypeOK
    <3> DEFINE row == [variable[i] EXCEPT ![e] = @ - 1, ![<<f, 0>>] = @ + 1]
    <3>2. row \in [Descriptions -> Nat]
      BY <3>1
    <3>3. variable' = [variable EXCEPT ![i] = row]
      BY <3>1
    <3> QED
      BY <3>1, <3>2, <3>3
  <2> QED
    BY <1>16, <2>1 DEF VariablePUT, TypeOK, reportVars, grantVars
<1>17. ASSUME NEW a \in Apps, NEW i \in IDs, GrantBegin(a, i)
      PROVE  TypeOK'
  BY <1>17 DEF GrantBegin, TypeOK, reportVars, grantVars
<1>18. ASSUME NEW a \in Apps, GrantAdd(a)
      PROVE  TypeOK'
  BY <1>18 DEF GrantAdd, TypeOK, reportVars, grantVars
<1>19. ASSUME NEW a \in Apps, GrantFail(a)
      PROVE  TypeOK'
  BY <1>19 DEF GrantFail, TypeOK, reportVars, grantVars
<1>20. ASSUME NEW x \in relation, NEW y \in Apps \X IDs, RelationPUT(x, y)
      PROVE  TypeOK'
  BY <1>20 DEF RelationPUT, TypeOK, reportVars, grantVars
<1>21. ASSUME NEW x \in relation, RelationDELETE(x)
      PROVE  TypeOK'
  BY <1>21 DEF RelationDELETE, TypeOK, reportVars, grantVars
<1>22. ASSUME UNCHANGED vars
      PROVE  TypeOK'
  BY <1>22 DEF TypeOK, vars, reportVars, grantVars
<1> QED
  BY <1>1, <1>2, <1>3, <1>4, <1>5, <1>6, <1>7, <1>8, <1>9, <1>10, <1>11, <1>12, <1>13, <1>14, <1>15, <1>16, <1>17, <1>18, <1>19, <1>20, <1>21, <1>22
  DEF Next, Register, Edit, Grant, vars, reportVars, grantVars

\* A number is referred to only after AUTO_INCREMENT has given it out.
LEMMA UnusedStep == IInv /\ [Next]_vars => Unused'
<1> SUFFICES ASSUME IInv, [Next]_vars PROVE Unused'
  OBVIOUS
<1> USE DEF IInv
<1>1. ASSUME NEW r \in Reports, NEW p \in Paths, NEW b \in Bodies, Call(r, p, b)
      PROVE  Unused'
  BY <1>1, MaxIDAssumption DEF Call, TypeOK, Unused, IDs, reportVars, grantVars
<1>2. ASSUME NEW r \in Reports, Fail(r)
      PROVE  Unused'
  BY <1>2, MaxIDAssumption DEF Fail, TypeOK, Unused, IDs, reportVars, grantVars
<1>3. ASSUME NEW r \in Reports, NEW i \in IDs, Insert(r, i)
      PROVE  Unused'
  BY <1>3, MaxIDAssumption DEF Insert, TypeOK, Unused, IDs, reportVars, grantVars, NewID
<1>4. ASSUME NEW r \in Reports, NEW i \in IDs, Query(r, i)
      PROVE  Unused'
  BY <1>4, MaxIDAssumption DEF Query, TypeOK, Unused, IDs, reportVars, grantVars, Exists
<1>5. ASSUME NEW r \in Reports, Update(r)
      PROVE  Unused'
  BY <1>5, MaxIDAssumption DEF Update, TypeOK, Unused, IDs, reportVars, grantVars, Exists, Progress
<1>6. ASSUME NEW r \in Reports, Clear(r)
      PROVE  Unused'
  BY <1>6, MaxIDAssumption DEF Clear, TypeOK, Unused, IDs, reportVars, grantVars, Progress
<1>7. ASSUME NEW r \in Reports, NEW f \in Fields, AddVariable(r, f)
      PROVE  Unused'
  BY <1>7, MaxIDAssumption DEF AddVariable, TypeOK, Unused, IDs, reportVars, grantVars, Progress
<1>8. ASSUME NEW p \in Paths, NEW i \in IDs, InterfacePOST(p, i)
      PROVE  Unused'
  BY <1>8, MaxIDAssumption DEF InterfacePOST, TypeOK, Unused, IDs, reportVars, grantVars, NewID
<1>9. ASSUME NEW i \in IDs, NEW p \in Paths, InterfacePUT(i, p)
      PROVE  Unused'
  BY <1>9, MaxIDAssumption DEF InterfacePUT, TypeOK, Unused, IDs, reportVars, grantVars, Exists
<1>10. ASSUME NEW i \in IDs, InterfaceDELETE(i)
      PROVE  Unused'
  BY <1>10, MaxIDAssumption DEF InterfaceDELETE, TypeOK, Unused, IDs, reportVars, grantVars
<1>11. ASSUME NEW i \in IDs, DeployInterface(i)
      PROVE  Unused'
  BY <1>11, MaxIDAssumption DEF DeployInterface, TypeOK, Unused, IDs, reportVars, grantVars, Exists
<1>12. ASSUME NEW i \in IDs, NEW f \in Fields, VariablePOST(i, f)
      PROVE  Unused'
  BY <1>12, MaxIDAssumption DEF VariablePOST, TypeOK, Unused, IDs, reportVars, grantVars
<1>13. ASSUME NEW i \in IDs, NEW e \in Descriptions, VariableDELETE(i, e)
      PROVE  Unused'
  BY <1>13, MaxIDAssumption DEF VariableDELETE, TypeOK, Unused, IDs, reportVars, grantVars, NoRows
<1>14. ASSUME NEW i \in IDs, NEW e \in Descriptions, NEW f \in Fields, VariablePUT(i, e, f)
      PROVE  Unused'
  BY <1>14, MaxIDAssumption DEF VariablePUT, TypeOK, Unused, IDs, reportVars, grantVars, NoRows
<1>15. ASSUME NEW a \in Apps, NEW i \in IDs, GrantBegin(a, i)
      PROVE  Unused'
  BY <1>15, MaxIDAssumption DEF GrantBegin, TypeOK, Unused, IDs, reportVars, grantVars, Exists
<1>16. ASSUME NEW a \in Apps, GrantAdd(a)
      PROVE  Unused'
  BY <1>16, MaxIDAssumption DEF GrantAdd, TypeOK, Unused, IDs, reportVars, grantVars
<1>17. ASSUME NEW a \in Apps, GrantFail(a)
      PROVE  Unused'
  BY <1>17, MaxIDAssumption DEF GrantFail, TypeOK, Unused, IDs, reportVars, grantVars
<1>18. ASSUME NEW x \in relation, NEW y \in Apps \X IDs, RelationPUT(x, y)
      PROVE  Unused'
  BY <1>18, MaxIDAssumption DEF RelationPUT, TypeOK, Unused, IDs, reportVars, grantVars
<1>19. ASSUME NEW x \in relation, RelationDELETE(x)
      PROVE  Unused'
  BY <1>19, MaxIDAssumption DEF RelationDELETE, TypeOK, Unused, IDs, reportVars, grantVars
<1>20. ASSUME UNCHANGED <<iface, next, variable, relation, moved, granting, id>>
      PROVE  Unused'
  BY <1>20 DEF Unused
<1> QED
  BY <1>1, <1>2, <1>3, <1>4, <1>5, <1>6, <1>7, <1>8, <1>9, <1>10, <1>11, <1>12, <1>13, <1>14, <1>15, <1>16, <1>17, <1>18, <1>19, <1>20
  DEF Next, Register, Edit, Grant, vars, reportVars, grantVars, InsertDuplicate, Reply

\* The state that relation.POST has read holds until it inserts the relation.
LEMMA GrantedStep == IInv /\ [Next]_vars => Granted'
<1> SUFFICES ASSUME IInv, [Next]_vars PROVE Granted'
  OBVIOUS
<1> USE DEF IInv
<1>1. ASSUME NEW r \in Reports, NEW i \in IDs, Insert(r, i)
      PROVE  Granted'
  <2>0. i >= next
    BY <1>1, MaxIDAssumption DEF Insert, NewID, TypeOK, IDs
  <2>1. \A b \in Apps : granting[b] # i
    BY <2>0 DEF Unused
  <2>2. \A j \in IDs \ {i} : iface'[j] = iface[j]
    BY <1>1 DEF Insert, TypeOK
  <2>3. granting' = granting /\ withdrawn' = withdrawn
    BY <1>1 DEF Insert, grantVars
  <2>4. \A b \in Apps : granting[b] # 0 => granting[b] \in IDs \ {i}
    BY <2>1 DEF TypeOK
  <2> QED
    BY <2>2, <2>3, <2>4 DEF Granted, Exists
<1>2. ASSUME NEW r \in Reports, Update(r)
      PROVE  Granted'
  <2>1. id[r] \in IDs /\ granting' = granting /\ iface \in [IDs -> Rows \cup {Absent}]
    BY <1>2 DEF Update, Progress, TypeOK, grantVars
  <2>2. \A j \in IDs \ {id[r]} : iface'[j] = iface[j] /\ (j \in withdrawn' <=> j \in withdrawn)
    BY <1>2, <2>1 DEF Update
  <2>3. iface'[id[r]] # Absent => Exists(id[r]) /\ (iface'[id[r]].state = 1 \/ id[r] \in withdrawn')
    BY <1>2, <2>1 DEF Update, Exists, Reported, TypeOK
  <2> SUFFICES ASSUME NEW a \in Apps, granting[a] # 0, iface'[granting[a]] # Absent
               PROVE  iface'[granting[a]].state = 1 \/ granting[a] \in withdrawn'
    BY <2>1 DEF Granted, Exists
  <2>4. granting[a] \in IDs
    BY DEF TypeOK
  <2>5. CASE granting[a] = id[r]
    BY <2>3, <2>5 DEF Exists
  <2>6. CASE granting[a] # id[r]
    BY <2>2, <2>4, <2>6 DEF Granted, Exists
  <2> QED
    BY <2>5, <2>6
<1>3. ASSUME NEW p \in Paths, NEW i \in IDs, InterfacePOST(p, i)
      PROVE  Granted'
  <2>0. i >= next
    BY <1>3, MaxIDAssumption DEF InterfacePOST, NewID, TypeOK, IDs
  <2>1. \A b \in Apps : granting[b] # i
    BY <2>0 DEF Unused
  <2>2. \A j \in IDs \ {i} : iface'[j] = iface[j]
    BY <1>3 DEF InterfacePOST, TypeOK
  <2>3. granting' = granting /\ withdrawn' = withdrawn
    BY <1>3 DEF InterfacePOST, grantVars
  <2>4. \A b \in Apps : granting[b] # 0 => granting[b] \in IDs \ {i}
    BY <2>1 DEF TypeOK
  <2> QED
    BY <2>2, <2>3, <2>4 DEF Granted, Exists
<1>4. ASSUME NEW i \in IDs, NEW p \in Paths, InterfacePUT(i, p)
      PROVE  Granted'
  BY <1>4, RowKeeps DEF InterfacePUT, TypeOK, Granted, Exists, reportVars, grantVars
<1>5. ASSUME NEW i \in IDs, InterfaceDELETE(i)
      PROVE  Granted'
  BY <1>5 DEF InterfaceDELETE, TypeOK, Granted, Exists, reportVars, grantVars
<1>6. ASSUME NEW i \in IDs, DeployInterface(i)
      PROVE  Granted'
  BY <1>6, RowKeeps DEF DeployInterface, TypeOK, Granted, Exists, reportVars, grantVars
<1>7. ASSUME NEW a \in Apps, NEW i \in IDs, GrantBegin(a, i)
      PROVE  Granted'
  BY <1>7 DEF GrantBegin, TypeOK, Granted, Exists, reportVars, grantVars
<1>8. ASSUME NEW a \in Apps, GrantAdd(a)
      PROVE  Granted'
  BY <1>8 DEF GrantAdd, TypeOK, Granted, Exists, reportVars, grantVars
<1>9. ASSUME NEW a \in Apps, GrantFail(a)
      PROVE  Granted'
  BY <1>9 DEF GrantFail, TypeOK, Granted, Exists, reportVars, grantVars
<1>10. ASSUME UNCHANGED <<iface, granting, withdrawn>>
      PROVE  Granted'
  BY <1>10 DEF Granted, Exists
<1> QED
  BY <1>1, <1>2, <1>3, <1>4, <1>5, <1>6, <1>7, <1>8, <1>9, <1>10
  DEF Next, Register, Edit, Grant, vars, reportVars, grantVars, Call, Fail, InsertDuplicate, Query, Clear, AddVariable, Reply, VariablePOST, VariableDELETE, VariablePUT, RelationPUT, RelationDELETE

\* Relations made by relation.POST stay with published interfaces.
LEMMA PublishedStep == IInv /\ [Next]_vars => GrantsArePublished'
<1> SUFFICES ASSUME IInv, [Next]_vars PROVE GrantsArePublished'
  OBVIOUS
<1> USE DEF IInv
<1>1. ASSUME NEW r \in Reports, NEW i \in IDs, Insert(r, i)
      PROVE  GrantsArePublished'
  <2>0. i >= next
    BY <1>1, MaxIDAssumption DEF Insert, NewID, TypeOK, IDs
  <2>1. \A x \in relation \ moved : x[2] \in IDs \ {i}
    BY <2>0 DEF Unused, TypeOK
  <2>2. \A j \in IDs \ {i} : iface'[j] = iface[j]
    BY <1>1 DEF Insert, TypeOK
  <2>3. UNCHANGED <<relation, moved, withdrawn>>
    BY <1>1 DEF Insert, grantVars
  <2> QED
    BY <2>1, <2>2, <2>3 DEF GrantsArePublished, Exists
<1>2. ASSUME NEW r \in Reports, Update(r)
      PROVE  GrantsArePublished'
  <2>1. id[r] \in IDs /\ UNCHANGED <<relation, moved>> /\ iface \in [IDs -> Rows \cup {Absent}]
    BY <1>2 DEF Update, Progress, TypeOK, grantVars
  <2>2. \A j \in IDs \ {id[r]} : iface'[j] = iface[j] /\ (j \in withdrawn' <=> j \in withdrawn)
    BY <1>2, <2>1 DEF Update
  <2>3. iface'[id[r]] # Absent => Exists(id[r]) /\ (iface'[id[r]].state = 1 \/ id[r] \in withdrawn')
    BY <1>2, <2>1 DEF Update, Exists, Reported, TypeOK
  <2>4. \A x \in relation : x[2] \in IDs
    BY DEF TypeOK
  <2> SUFFICES ASSUME NEW x \in relation \ moved, iface'[x[2]] # Absent
               PROVE  iface'[x[2]].state = 1 \/ x[2] \in withdrawn'
    BY <2>1 DEF GrantsArePublished, Exists
  <2>5. CASE x[2] = id[r]
    BY <2>3, <2>5 DEF Exists
  <2>6. CASE x[2] # id[r]
    BY <2>2, <2>4, <2>6 DEF GrantsArePublished, Exists
  <2> QED
    BY <2>5, <2>6
<1>3. ASSUME NEW p \in Paths, NEW i \in IDs, InterfacePOST(p, i)
      PROVE  GrantsArePublished'
  <2>0. i >= next
    BY <1>3, MaxIDAssumption DEF InterfacePOST, NewID, TypeOK, IDs
  <2>1. \A x \in relation \ moved : x[2] \in IDs \ {i}
    BY <2>0 DEF Unused, TypeOK
  <2>2. \A j \in IDs \ {i} : iface'[j] = iface[j]
    BY <1>3 DEF InterfacePOST, TypeOK
  <2>3. UNCHANGED <<relation, moved, withdrawn>>
    BY <1>3 DEF InterfacePOST, grantVars
  <2> QED
    BY <2>1, <2>2, <2>3 DEF GrantsArePublished, Exists
<1>4. ASSUME NEW i \in IDs, NEW p \in Paths, InterfacePUT(i, p)
      PROVE  GrantsArePublished'
  BY <1>4, RowKeeps DEF InterfacePUT, TypeOK, GrantsArePublished, Exists, reportVars, grantVars
<1>5. ASSUME NEW i \in IDs, InterfaceDELETE(i)
      PROVE  GrantsArePublished'
  BY <1>5 DEF InterfaceDELETE, TypeOK, GrantsArePublished, Exists, reportVars, grantVars
<1>6. ASSUME NEW i \in IDs, DeployInterface(i)
      PROVE  GrantsArePublished'
  BY <1>6, RowKeeps DEF DeployInterface, TypeOK, GrantsArePublished, Exists, reportVars, grantVars
<1>7. ASSUME NEW a \in Apps, GrantAdd(a)
      PROVE  GrantsArePublished'
  BY <1>7 DEF GrantAdd, TypeOK, GrantsArePublished, Exists, reportVars, grantVars, Granted
<1>8. ASSUME NEW x \in relation, NEW y \in Apps \X IDs, RelationPUT(x, y)
      PROVE  GrantsArePublished'
  BY <1>8 DEF RelationPUT, TypeOK, GrantsArePublished, Exists, reportVars, grantVars
<1>9. ASSUME NEW x \in relation, RelationDELETE(x)
      PROVE  GrantsArePublished'
  BY <1>9 DEF RelationDELETE, TypeOK, GrantsArePublished, Exists, reportVars, grantVars
<1>10. ASSUME UNCHANGED <<iface, relation, moved, withdrawn>>
      PROVE  GrantsArePublished'
  BY <1>10 DEF GrantsArePublished, Exists
<1> QED
  BY <1>1, <1>2, <1>3, <1>4, <1>5, <1>6, <1>7, <1>8, <1>9, <1>10
  DEF Next, Register, Edit, Grant, vars, reportVars, grantVars, Call, Fail, InsertDuplicate, Query, Clear, AddVariable, Reply, VariablePOST, VariableDELETE, VariablePUT, GrantBegin, GrantFail

\* What a clean report knows of its interface survives the steps of all others.
LEMMA ProgressStep == IInv /\ [Next]_vars => \A q \in Reports : Progress(q)'
<1> SUFFICES ASSUME IInv, [Next]_vars, NEW q \in Reports PROVE Progress(q)'
  OBVIOUS
<1> USE DEF IInv
<1>1. ASSUME NEW r \in Reports, NEW p \in Paths, NEW b \in Bodies, Call(r, p, b)
      PROVE  Progress(q)'
  BY <1>1, BodiesAssumption DEF Call, TypeOK, Progress, Exists, reportVars, grantVars
<1>2. ASSUME NEW r \in Reports, Fail(r)
      PROVE  Progress(q)'
  BY <1>2 DEF Fail, TypeOK, Progress, Exists, reportVars, grantVars
<1>3. ASSUME NEW r \in Reports, NEW i \in IDs, Insert(r, i)
      PROVE  Progress(q)'
  <2>1. CASE q = r
    <3>0. i >= next
      BY <1>3, MaxIDAssumption DEF Insert, NewID, TypeOK, IDs
    <3>1. version[r] \in Versions /\ path[r] \in Paths /\ variable[i] = NoRows
      BY <1>3, <3>0 DEF Insert, Progress, Unused
    <3>2. iface'[i] = [path |-> path[r], version |-> version[r], state |-> state[r]] /\ iface'[i] # Absent
      <4>1. state[r] \in {0, 1} /\ iface' = [iface EXCEPT ![i] = Reported(r)] /\ iface \in [IDs -> Rows \cup {Absent}]
        BY <1>3 DEF Insert, TypeOK
      <4>2. Reported(r) \in Rows
        BY <3>1, <4>1, RowType DEF Reported
      <4> QED
        BY <4>1, <4>2, RowType DEF Reported
    <3>3. Described(Doc[version[r]] \ Doc[version[r]], version[r]) = NoRows
      BY DEF Described, NoRows
    <3> QED
      BY <1>3, <2>1, <3>1, <3>2, <3>3 DEF Insert, TypeOK, Progress, Exists
  <2>2. CASE q # r
    BY <1>3, <2>2 DEF Insert, TypeOK, Progress, Exists, Touched, grantVars
  <2> QED
    BY <2>1, <2>2
<1>4. ASSUME NEW r \in Reports, InsertDuplicate(r)
      PROVE  Progress(q)'
  BY <1>4 DEF InsertDuplicate, TypeOK, Progress, Exists, reportVars, grantVars
<1>5. ASSUME NEW r \in Reports, NEW i \in IDs, Query(r, i)
      PROVE  Progress(q)'
  BY <1>5 DEF Query, TypeOK, Progress, Exists, reportVars, grantVars
<1>6. ASSUME NEW r \in Reports, Update(r)
      PROVE  Progress(q)'
  <2>1. CASE q = r
    <3>1. version[r] \in Versions /\ path[r] \in Paths /\ id[r] \in IDs
      BY <1>6 DEF Update, Progress
    <3>2. Exists(id[r]) => /\ iface'[id[r]] # Absent
                           /\ iface'[id[r]].version = version[r]
                           /\ iface'[id[r]].state = state[r]
      <4> DEFINE row == [path |-> path[r], version |-> version[r], state |-> state[r]]
      <4>0. state[r] \in {0, 1}
        BY DEF TypeOK
      <4>1. row # Absent /\ row.version = version[r] /\ row.state = state[r]
        BY <3>1, <4>0, RowType
      <4>2. Exists(id[r]) => iface'[id[r]] = row
        BY <1>6, <3>1 DEF Update, Reported, TypeOK
      <4> QED
        BY <4>1, <4>2
    <3>3. clean'[r] = Exists(id[r]) /\ pc'[r] = "clear"
      BY <1>6 DEF Update, Touched, TypeOK
    <3> QED
      BY <1>6, <2>1, <3>1, <3>2, <3>3 DEF Update, Progress, Exists
  <2>2. CASE q # r
    BY <1>6, <2>2 DEF Update, TypeOK, Progress, Exists, Touched, grantVars
  <2> QED
    BY <2>1, <2>2
<1>7. ASSUME NEW r \in Reports, Clear(r)
      PROVE  Progress(q)'
  <2>1. CASE q = r
    <3>1. version[r] \in Versions /\ id[r] \in IDs
      BY <1>7 DEF Clear, Progress
    <3>2. Described(Doc[version[r]] \ Doc[version[r]], version[r]) = NoRows
      BY DEF Described, NoRows
    <3> QED
      BY <1>7, <2>1, <3>1, <3>2 DEF Clear, TypeOK, Progress, Exists, Touched
  <2>2. CASE q # r
    BY <1>7, <2>2 DEF Clear, TypeOK, Progress, Exists, Touched, grantVars
  <2> QED
    BY <2>1, <2>2
<1>8. ASSUME NEW r \in Reports, NEW f \in Fields, AddVariable(r, f)
      PROVE  Progress(q)'
  <2>1. CASE q = r
    <3>1. id[r] \in IDs /\ version[r] \in Versions /\ <<f, version[r]>> \in Descriptions
      BY <1>8, FieldType DEF AddVariable, Progress
    <3>2. ASSUME clean[r]
          PROVE  variable'[id[r]] = Described(Doc[version[r]] \ (todo[r] \ {f}), version[r])
      <4>1. /\ f \in todo[r] /\ todo[r] \subseteq Doc[version[r]]
            /\ variable[id[r]] = Described(Doc[version[r]] \ todo[r], version[r])
        BY <1>8, <3>2 DEF AddVariable, Progress
      <4> DEFINE g == variable[id[r]]
                 h == variable'[id[r]]
      <4>2. /\ h \in [Descriptions -> Nat]
            /\ h[<<f, version[r]>>] = g[<<f, version[r]>>] + 1
            /\ \A d \in Descriptions \ {<<f, version[r]>>} : h[d] = g[d]
        BY <1>8, <3>1 DEF AddVariable, TypeOK
      <4> HIDE DEF g, h, IInv
      <4>3. g = Described(Doc[version[r]] \ todo[r], version[r])
        BY <4>1 DEF g
      <4>4. ASSUME NEW d \in Descriptions
            PROVE  h[d] = Described(Doc[version[r]] \ (todo[r] \ {f}), version[r])[d]
        <5>1. CASE d = <<f, version[r]>>
          BY <4>1, <4>2, <4>3, <5>1 DEF Described
        <5>2. CASE d # <<f, version[r]>>
          <6>1. d[1] # f \/ d[2] # version[r]
            BY <5>2 DEF Descriptions
          <6> QED
            BY <4>2, <4>3, <5>2, <6>1 DEF Described
        <5> QED
          BY <5>1, <5>2
      <4> QED
        BY <4>2, <4>4 DEF h, Described
    <3> QED
      BY <1>8, <2>1, <3>1, <3>2 DEF AddVariable, TypeOK, Progress, Exists, Touched
  <2>2. CASE q # r
    BY <1>8, <2>2 DEF AddVariable, TypeOK, Progress, Exists, Touched, grantVars
  <2> QED
    BY <2>1, <2>2
<1>9. ASSUME NEW r \in Reports, Reply(r)
      PROVE  Progress(q)'
  <2>1. Doc[version[r]] \ todo[r] = Doc[version[r]]
    BY <1>9 DEF Reply
  <2>2. CASE q = r
    BY <1>9, <2>1, <2>2 DEF Reply, TypeOK, Progress, Exists
  <2>3. CASE q # r
    BY <1>9, <2>3 DEF Reply, TypeOK, Progress, Exists
  <2> QED
    BY <2>2, <2>3
<1>10. ASSUME NEW p \in Paths, NEW i \in IDs, InterfacePOST(p, i)
      PROVE  Progress(q)'
  BY <1>10 DEF InterfacePOST, TypeOK, Progress, Exists, reportVars, grantVars
<1>11. ASSUME NEW i \in IDs, NEW p \in Paths, InterfacePUT(i, p)
      PROVE  Progress(q)'
  BY <1>11 DEF InterfacePUT, TypeOK, Progress, Exists, reportVars, grantVars
<1>12. ASSUME NEW i \in IDs, InterfaceDELETE(i)
      PROVE  Progress(q)'
  BY <1>12 DEF InterfaceDELETE, TypeOK, Progress, Exists, reportVars, grantVars
<1>13. ASSUME NEW i \in IDs, DeployInterface(i)
      PROVE  Progress(q)'
  <2>1. /\ iface[i] \in Rows /\ iface'[i] \in Rows /\ iface'[i].version = iface[i].version
        /\ iface'[i].state = 1
    BY <1>13, RowEdit, RowKeeps DEF DeployInterface, Exists, TypeOK
  <2>2. \A j \in IDs \ {i} : iface'[j] = iface[j]
    BY <1>13 DEF DeployInterface, TypeOK
  <2>3. ASSUME Exists(id[q]), id[q] \in IDs
        PROVE  /\ Exists(id[q])' /\ iface'[id[q]].version = iface[id[q]].version
               /\ iface[id[q]].state = 1 => iface'[id[q]].state = 1
    BY <1>13, <2>1, <2>2, <2>3, RowType DEF DeployInterface, Exists, reportVars
  <2>4. UNCHANGED <<variable, reportVars, clean>>
    BY <1>13 DEF DeployInterface
  <2> QED
    BY <2>3, <2>4 DEF Progress, reportVars
<1>14. ASSUME NEW i \in IDs, NEW f \in Fields, VariablePOST(i, f)
      PROVE  Progress(q)'
  BY <1>14 DEF VariablePOST, TypeOK, Progress, Exists, reportVars, grantVars
<1>15. ASSUME NEW i \in IDs, NEW e \in Descriptions, VariableDELETE(i, e)
      PROVE  Progress(q)'
  BY <1>15 DEF VariableDELETE, TypeOK, Progress, Exists, reportVars, grantVars
<1>16. ASSUME NEW i \in IDs, NEW e \in Descriptions, NEW f \in Fields, VariablePUT(i, e, f)
      PROVE  Progress(q)'
  BY <1>16 DEF VariablePUT, TypeOK, Progress, Exists, reportVars, grantVars
<1>17. ASSUME UNCHANGED <<iface, variable, reportVars, clean>>
      PROVE  Progress(q)'
  BY <1>17 DEF Progress, Exists, reportVars
<1> QED
  BY <1>1, <1>2, <1>3, <1>4, <1>5, <1>6, <1>7, <1>8, <1>9, <1>10, <1>11, <1>12, <1>13, <1>14, <1>15, <1>16, <1>17
  DEF Next, Register, Edit, Grant, vars, reportVars, grantVars, GrantBegin, GrantAdd, GrantFail, RelationPUT, RelationDELETE

-----------------------------------------------------------------------------

(***************************************************************************)
(* IInv holds of the empty tables.                                         *)
(***************************************************************************)
LEMMA IInvInit == Init => IInv
<1> SUFFICES ASSUME Init PROVE IInv
  OBVIOUS
<1>1. TypeOK
  BY MaxIDAssumption, FieldType DEF Init, TypeOK, IDs
<1>2. \A r \in Reports : Progress(r)
  BY DEF Init, Progress
<1>3. Unused
  BY MaxIDAssumption DEF Init, Unused, IDs
<1>4. Granted /\ GrantsArePublished
  BY DEF Init, Granted, GrantsArePublished
<1> QED
  BY <1>1, <1>2, <1>3, <1>4 DEF IInv

(***************************************************************************)
(* IInv is inductive: no statement of any handler breaks it.               *)
(***************************************************************************)
LEMMA IInvStep == IInv /\ [Next]_vars => IInv'
BY TypeStep, ProgressStep, UnusedStep, GrantedStep, PublishedStep DEF IInv

\* What is checked of Interfaces follows.
LEMMA IInvIsSafe == IInv => TypeOK /\ ReportTakesEffect /\ GrantsArePublished
BY DEF IInv, Progress, ReportTakesEffect

(***************************************************************************)
(* For any number of reports, paths, versions and interfaces, a report     *)
(* that nobody interferes with has its effect when interfaceRegister.POST  *)
(* answers.                                                                *)
(***************************************************************************)
THEOREM InterfacesSafe == Spec => []ReportTakesEffect
BY IInvIsSafe, IInvInit, IInvStep, PTL DEF Spec

(***************************************************************************)
(* A relation of relation.POST is to a published interface, to one that is *)
(* gone, or to one that a report has unpublished.                          *)
(***************************************************************************)
THEOREM InterfacesGrantsSafe == Spec => []GrantsArePublished
BY IInvIsSafe, IInvInit, IInvStep, PTL DEF Spec

(***************************************************************************)
(* The rows of the manager and what the handlers hold of them keep their   *)
(* types, for any number of reports and rows.                              *)
(***************************************************************************)
THEOREM InterfacesTyped == Spec => []TypeOK
BY IInvIsSafe, IInvInit, IInvStep, PTL DEF Spec

=============================================================================
