--------------------------- MODULE Requests_proofs --------------------------
(***************************************************************************)
(* What concurrent requests share.  First the working directory of the     *)
(* distributor, for any number of deployments (Task), projects and nodes;  *)
(* then the statistics and identifiers of the repeater, for every set of   *)
(* entries, every finite set of requests and every number of calls.        *)
(***************************************************************************)
EXTENDS Gateway, Task, FiniteSetTheorems, TLAPS

\* The module is long: its leaves get more time than the provers have by default.
USE SMTT(15), ZenonT(15)

(***************************************************************************)
(* The deployments.  What the state of a task records needs the place      *)
(* where it is (Progress).  That tasks which do not overlap leave each     *)
(* other alone needs the directory the process is in at every place, and   *)
(* whose files are in each directory (Serial): a task changes back to the  *)
(* directory it found, if it can.                                          *)
(***************************************************************************)

\* Where a task is before its build has ended.
Building == {"idle", "begin", "getwd", "chdir", "command", "wait"}

\* Where a task is while it installs.
Uploading == {"script", "tar", "exec"}

\* What a task has built, recorded and installed, by the place where it is.
Progress ==
    \A t \in Tasks :
       /\ place[t] = "idle" => phase[t] = "compile"
       /\ place[t] \in Uploading => phase[t] = "install" /\ installed[t] < Nodes
       /\ place[t] \in Building => installed[t] = 0
       /\ phase[t] = "install" => compiled[t] /\ column[t] # stateComplieFailed
       /\ phase[t] = "compile" =>
             /\ sent[t] = Nobody /\ installed[t] = 0
             /\ place[t] # "done" => column[t] \in {0, stateCompileBegin}
             /\ place[t] = "done" =>
                   column[t] \in {0, stateCompileBegin, stateComplieFailed}
             /\ place[t] \in Building => ~compiled[t] /\ ~err[t]
             /\ place[t] = "done" => ~compiled[t]
             /\ place[t] \in {"end", "record"} => (compiled[t] <=> ~err[t])

\* Where the process is, for a task at each place.
InPlace(t) ==
    /\ place[t] \in {"begin", "getwd", "chdir", "record"} /\ ~stuck => cwd = Home
    /\ place[t] \in {"command", "wait"} \cup Uploading => cwd = t
    /\ place[t] \in {"chdir", "command", "wait", "end"} \cup Uploading /\ ~stuck =>
          oldPath[t] \in {Home, Nowhere}
    /\ place[t] = "wait" => dir[t] = t

\* What is in the directory of a task, and what it has sent, is its own.
OwnFiles ==
    \A t \in Tasks :
       /\ sent[t] \in {t, Nobody}
       /\ \A n \in Names : bin[<<t, n>>] \in {t, Nobody} /\ tar[<<t, n>>] \in {t, Nobody}

\* Tasks one after another.
Serial ==
    ~overlap =>
       /\ \A t, u \in Tasks : Running(t) /\ Running(u) => t = u
       /\ ~stuck /\ (\A t \in Tasks : ~Running(t)) => cwd = Home
       /\ \A t \in Tasks : InPlace(t)
       /\ OwnFiles

DeployInv == TaskTypeOK /\ Progress /\ Serial

USE TaskAssumption DEF stateCompileBegin, stateComplieSuccess,
        stateComplieFailed, stateInstallBegin, stateInstallSuccess,
        stateInstallFailed

\* A task finds the files of its project in every directory.
LEMMA FileIsFile == \A t \in Tasks, d \in Dirs : File(t, d) \in Dirs \X Names
BY DEF File, Names

\* The distributor starts in its own directory, without tasks.
LEMMA DeployInit == TaskInit => DeployInv
<1> SUFFICES ASSUME TaskInit PROVE DeployInv
  OBVIOUS
<1>1. TaskTypeOK
  <2>1. 0 \in 0..Nodes /\ 0 \in 0..6 /\ Home \in Dirs
    BY DEF Dirs
  <2> QED
    BY <2>1, Zenon DEF TaskInit, TaskTypeOK
<1>2. Progress
  BY DEF TaskInit, Progress, Building, Uploading
<1>3. Serial
  <2>1. \A t \in Tasks : place[t] = "idle" /\ sent[t] = Nobody
    BY DEF TaskInit
  <2>2. cwd = Home /\ \A f \in Dirs \X Names : bin[f] = Nobody /\ tar[f] = Nobody
    BY DEF TaskInit
  <2>3. \A t \in Tasks : InPlace(t) /\ ~Running(t)
    BY <2>1 DEF InPlace, Uploading, Running
  <2>4. OwnFiles
    BY <2>1, <2>2 DEF OwnFiles, Dirs
  <2> QED
    BY <2>2, <2>3, <2>4 DEF Serial
<1> QED
  BY <1>1, <1>2, <1>3 DEF DeployInv

\* The types: install.sh runs on another node only while there is one.
LEMMA DeployTypeStep == DeployInv /\ [TaskNext]_allTaskVars => TaskTypeOK'
<1> SUFFICES ASSUME DeployInv, [TaskNext]_allTaskVars PROVE TaskTypeOK'
  OBVIOUS
<1> USE DEF DeployInv, Proceed, taskVars, TaskTypeOK
<1>1. ASSUME NEW t \in Tasks, POST(t) PROVE TaskTypeOK'
  BY <1>1 DEF POST
<1>2. ASSUME NEW t \in Tasks, Begin(t) PROVE TaskTypeOK'
  BY <1>2 DEF Begin, updateState
<1>3. ASSUME NEW t \in Tasks, Getwd(t) PROVE TaskTypeOK'
  BY <1>3 DEF Getwd
<1>4. ASSUME NEW t \in Tasks, Chdir(t) PROVE TaskTypeOK'
  BY <1>4 DEF Chdir, Dirs
<1>5. ASSUME NEW t \in Tasks, ChdirFail(t) PROVE TaskTypeOK'
  BY <1>5 DEF ChdirFail
<1>6. ASSUME NEW t \in Tasks, Command(t) PROVE TaskTypeOK'
  BY <1>6 DEF Command
<1>7. ASSUME NEW t \in Tasks, Built(t) PROVE TaskTypeOK'
  BY <1>7, FileIsFile DEF Built
<1>8. ASSUME NEW t \in Tasks, BuildFail(t) PROVE TaskTypeOK'
  BY <1>8 DEF BuildFail
<1>9. ASSUME NEW t \in Tasks, Packed(t) PROVE TaskTypeOK'
  BY <1>9, FileIsFile DEF Packed
<1>10. ASSUME NEW t \in Tasks, UploadScript(t) PROVE TaskTypeOK'
  BY <1>10 DEF UploadScript
<1>11. ASSUME NEW t \in Tasks, UploadTar(t) PROVE TaskTypeOK'
  BY <1>11, FileIsFile DEF UploadTar
<1>12. ASSUME NEW t \in Tasks, ExecPipe(t) PROVE TaskTypeOK'
  BY <1>12 DEF ExecPipe, Progress, Uploading
<1>13. ASSUME NEW t \in Tasks, InstallFail(t) PROVE TaskTypeOK'
  BY <1>13 DEF InstallFail
<1>14. ASSUME NEW t \in Tasks, End(t) PROVE TaskTypeOK'
  BY <1>14 DEF End
<1>15. ASSUME NEW t \in Tasks, EndFail(t) PROVE TaskTypeOK'
  BY <1>15 DEF EndFail
<1>16. ASSUME NEW t \in Tasks, RecordCompile(t) PROVE TaskTypeOK'
  BY <1>16 DEF RecordCompile, updateState
<1>17. ASSUME NEW t \in Tasks, RecordInstall(t) PROVE TaskTypeOK'
  BY <1>17 DEF RecordInstall, updateState
<1>18. CASE UNCHANGED allTaskVars
  BY <1>18 DEF allTaskVars
<1> QED
  BY <1>1, <1>2, <1>3, <1>4, <1>5, <1>6, <1>7, <1>8, <1>9, <1>10, <1>11, <1>12, <1>13,
    <1>14, <1>15, <1>16, <1>17, <1>18, Zenon DEF TaskNext

\* One step of one task; the others stay where they are.
LEMMA ProgressStep == DeployInv /\ [TaskNext]_allTaskVars => Progress'
<1> SUFFICES ASSUME DeployInv, [TaskNext]_allTaskVars PROVE Progress'
  OBVIOUS
<1> USE DEF DeployInv, Proceed, taskVars, TaskTypeOK, Progress, Uploading, Building
<1>1. ASSUME NEW t \in Tasks, POST(t) PROVE Progress'
  BY <1>1 DEF POST
<1>2. ASSUME NEW t \in Tasks, Begin(t) PROVE Progress'
  BY <1>2 DEF Begin, updateState
<1>3. ASSUME NEW t \in Tasks, Getwd(t) PROVE Progress'
  BY <1>3 DEF Getwd
<1>4. ASSUME NEW t \in Tasks, Chdir(t) PROVE Progress'
  BY <1>4 DEF Chdir
<1>5. ASSUME NEW t \in Tasks, ChdirFail(t) PROVE Progress'
  BY <1>5 DEF ChdirFail
<1>6. ASSUME NEW t \in Tasks, Command(t) PROVE Progress'
  BY <1>6 DEF Command
<1>7. ASSUME NEW t \in Tasks, Built(t) PROVE Progress'
  <2>1. /\ place'[t] = "end" /\ compiled'[t] = TRUE /\ phase[t] = "compile" /\ place[t] = "wait"
        /\ \A u \in Tasks \ {t} : place'[u] = place[u] /\ compiled'[u] = compiled[u]
        /\ UNCHANGED <<phase, sent, installed, column, err>>
    BY <1>7 DEF Built
  <2>2. err[t] = FALSE
    BY <2>1
  <2> QED
    BY <2>1, <2>2
<1>8. ASSUME NEW t \in Tasks, BuildFail(t) PROVE Progress'
  BY <1>8 DEF BuildFail
<1>9. ASSUME NEW t \in Tasks, Packed(t) PROVE Progress'
  BY <1>9 DEF Packed
<1>10. ASSUME NEW t \in Tasks, UploadScript(t) PROVE Progress'
  BY <1>10 DEF UploadScript
<1>11. ASSUME NEW t \in Tasks, UploadTar(t) PROVE Progress'
  BY <1>11 DEF UploadTar
<1>12. ASSUME NEW t \in Tasks, ExecPipe(t) PROVE Progress'
  BY <1>12 DEF ExecPipe
<1>13. ASSUME NEW t \in Tasks, InstallFail(t) PROVE Progress'
  BY <1>13 DEF InstallFail
<1>14. ASSUME NEW t \in Tasks, End(t) PROVE Progress'
  BY <1>14 DEF End
<1>15. ASSUME NEW t \in Tasks, EndFail(t) PROVE Progress'
  BY <1>15 DEF EndFail
<1>16. ASSUME NEW t \in Tasks, RecordCompile(t) PROVE Progress'
  BY <1>16 DEF RecordCompile, updateState
<1>17. ASSUME NEW t \in Tasks, RecordInstall(t) PROVE Progress'
  BY <1>17 DEF RecordInstall, updateState
<1>18. CASE UNCHANGED allTaskVars
  BY <1>18 DEF allTaskVars
<1> QED
  BY <1>1, <1>2, <1>3, <1>4, <1>5, <1>6, <1>7, <1>8, <1>9, <1>10, <1>11, <1>12, <1>13,
    <1>14, <1>15, <1>16, <1>17, <1>18, Zenon DEF TaskNext

\* When tasks do not overlap, a step of the one that runs is all that happens.
LEMMA Alone ==
  ASSUME DeployInv, NEW t \in Tasks, Running(t), overlap' = overlap,
         \A u \in Tasks \ {t} : place'[u] = place[u],
         ~overlap => /\ place'[t] \in {"idle", "done"} /\ ~stuck' => cwd' = Home
                     /\ InPlace(t)'
                     /\ OwnFiles'
  PROVE  Serial'
<1> SUFFICES ASSUME ~overlap
             PROVE  /\ \A u, v \in Tasks : Running(u)' /\ Running(v)' => u = v
                    /\ ~stuck' /\ (\A u \in Tasks : ~Running(u)') => cwd' = Home
                    /\ \A u \in Tasks : InPlace(u)'
                    /\ OwnFiles'
  BY DEF Serial
<1>1. \A u \in Tasks \ {t} : place[u] \in {"idle", "done"}
  BY DEF DeployInv, Serial, Running
<1>2. \A u \in Tasks \ {t} : place'[u] \in {"idle", "done"} /\ ~Running(u)'
  BY <1>1 DEF Running
<1>3. \A u \in Tasks \ {t} : InPlace(u)'
  BY <1>2 DEF InPlace, Uploading
<1> QED
  BY <1>2, <1>3 DEF Running

\* One task goes on, the others stay.
LEMMA Moves ==
  ASSUME DeployInv, NEW t \in Tasks, NEW l, Proceed(t, l)
  PROVE  place'[t] = l /\ \A u \in Tasks \ {t} : place'[u] = place[u]
BY DEF DeployInv, TaskTypeOK, Proceed

\* Unless two tasks overlap, nobody moves the task that runs to another directory.
LEMMA SerialStep == DeployInv /\ [TaskNext]_allTaskVars => Serial'
<1> SUFFICES ASSUME DeployInv, [TaskNext]_allTaskVars PROVE Serial'
  OBVIOUS
<1>0. ~overlap => /\ \A t \in Tasks : InPlace(t)
                  /\ OwnFiles
  BY DEF DeployInv, Serial
<1>1. ASSUME NEW t \in Tasks, POST(t) PROVE Serial'
  <2> SUFFICES ASSUME ~overlap' PROVE Serial'
    BY DEF Serial
  <2>1. ~overlap /\ (\A u \in Tasks : ~Running(u)) /\ (~stuck => cwd = Home)
    BY <1>1, Zenon DEF POST, DeployInv, TaskTypeOK, Serial
  <2>2. /\ place'[t] = "begin" /\ \A u \in Tasks \ {t} : place'[u] = place[u]
        /\ UNCHANGED <<cwd, phase, oldPath, dir, sent, bin, tar, stuck>>
    BY <1>1, Moves DEF POST, taskVars
  <2>3. \A u \in Tasks \ {t} : place'[u] \in {"idle", "done"}
    BY <2>1, <2>2 DEF Running
  <2>4. \A u \in Tasks : InPlace(u)'
    BY <2>1, <2>2, <2>3 DEF InPlace, Uploading
  <2>5. OwnFiles'
    BY <1>0, <2>1, <2>2 DEF OwnFiles
  <2> QED
    BY <2>1, <2>2, <2>3, <2>4, <2>5 DEF Serial, Running
<1>2. ASSUME NEW t \in Tasks, Begin(t) PROVE Serial'
  <2>1. /\ place'[t] = "getwd" /\ \A u \in Tasks \ {t} : place'[u] = place[u]
        /\ Running(t) /\ overlap' = overlap
    BY <1>2, Moves DEF Begin, Running
  <2>2. ~overlap => OwnFiles'
    BY <1>0, <1>2 DEF Begin, taskVars, OwnFiles
  <2>3. ~overlap => InPlace(t)' /\ (place'[t] = "done" /\ ~stuck' => cwd' = Home)
    BY <1>0, <1>2, <2>1 DEF Begin, taskVars, InPlace, Uploading
  <2> QED
    BY <2>1, <2>2, <2>3, Alone
<1>3. ASSUME NEW t \in Tasks, Getwd(t) PROVE Serial'
  <2>1. /\ place'[t] = "chdir" /\ \A u \in Tasks \ {t} : place'[u] = place[u]
        /\ Running(t) /\ overlap' = overlap
    BY <1>3, Moves DEF Getwd, Running
  <2>2. ~overlap => OwnFiles'
    BY <1>0, <1>3 DEF Getwd, taskVars, OwnFiles
  <2>3. ~overlap => InPlace(t)' /\ (place'[t] = "done" /\ ~stuck' => cwd' = Home)
    BY <1>0, <1>3, <2>1 DEF Getwd, taskVars, InPlace, Uploading, DeployInv, TaskTypeOK
  <2> QED
    BY <2>1, <2>2, <2>3, Alone
<1>4. ASSUME NEW t \in Tasks, Chdir(t) PROVE Serial'
  <2>1. /\ place'[t] = "command" /\ \A u \in Tasks \ {t} : place'[u] = place[u]
        /\ Running(t) /\ overlap' = overlap
    BY <1>4, Moves DEF Chdir, Running
  <2>2. ~overlap => OwnFiles'
    BY <1>0, <1>4 DEF Chdir, taskVars, OwnFiles
  <2>3. ~overlap => InPlace(t)' /\ (place'[t] = "done" /\ ~stuck' => cwd' = Home)
    BY <1>0, <1>4, <2>1 DEF Chdir, taskVars, InPlace, Uploading
  <2> QED
    BY <2>1, <2>2, <2>3, Alone
<1>5. ASSUME NEW t \in Tasks, ChdirFail(t) PROVE Serial'
  <2>1. /\ place'[t] = "record" /\ \A u \in Tasks \ {t} : place'[u] = place[u]
        /\ Running(t) /\ overlap' = overlap
    BY <1>5, Moves DEF ChdirFail, Running
  <2>2. ~overlap => OwnFiles'
    BY <1>0, <1>5 DEF ChdirFail, taskVars, OwnFiles
  <2>3. ~overlap => InPlace(t)' /\ (place'[t] = "done" /\ ~stuck' => cwd' = Home)
    BY <1>0, <1>5, <2>1 DEF ChdirFail, taskVars, InPlace, Uploading
  <2> QED
    BY <2>1, <2>2, <2>3, Alone
<1>6. ASSUME NEW t \in Tasks, Command(t) PROVE Serial'
  <2>1. /\ place'[t] = "wait" /\ \A u \in Tasks \ {t} : place'[u] = place[u]
        /\ Running(t) /\ overlap' = overlap
    BY <1>6, Moves DEF Command, Running
  <2>2. ~overlap => OwnFiles'
    BY <1>0, <1>6 DEF Command, taskVars, OwnFiles
  <2>3. ~overlap => InPlace(t)' /\ (place'[t] = "done" /\ ~stuck' => cwd' = Home)
    BY <1>0, <1>6, <2>1 DEF Command, taskVars, InPlace, Uploading, DeployInv, TaskTypeOK
  <2> QED
    BY <2>1, <2>2, <2>3, Alone
<1>7. ASSUME NEW t \in Tasks, Built(t) PROVE Serial'
  <2>1. /\ place'[t] = "end" /\ \A u \in Tasks \ {t} : place'[u] = place[u]
        /\ Running(t) /\ overlap' = overlap
    BY <1>7, Moves DEF Built, Running
  <2>2. ~overlap => OwnFiles'
    <3>1. ~overlap => bin' = [bin EXCEPT ![<<t, Project[t]>>] = t] /\ UNCHANGED <<tar, sent>>
      BY <1>0, <1>7, Zenon DEF Built, taskVars, File, InPlace
    <3>2. Project[t] \in Names
      BY DEF Names
    <3>3. /\ <<t, Project[t]>> \in DOMAIN bin
          /\ \A u \in Tasks, m \in Names : <<u, m>> \in DOMAIN bin
      BY <3>2 DEF DeployInv, TaskTypeOK, Dirs
    <3>4. ~overlap => \A u \in Tasks, m \in Names :
             bin'[<<u, m>>] = bin[<<u, m>>] \/ (u = t /\ bin'[<<u, m>>] = t)
      BY <3>1, <3>3, Zenon
    <3> QED
      BY <1>0, <3>1, <3>2, <3>4 DEF OwnFiles
  <2>3. ~overlap => InPlace(t)' /\ (place'[t] = "done" /\ ~stuck' => cwd' = Home)
    BY <1>0, <1>7, <2>1 DEF Built, taskVars, InPlace, Uploading
  <2> QED
    BY <2>1, <2>2, <2>3, Alone
<1>8. ASSUME NEW t \in Tasks, BuildFail(t) PROVE Serial'
  <2>1. /\ place'[t] = "end" /\ \A u \in Tasks \ {t} : place'[u] = place[u]
        /\ Running(t) /\ overlap' = overlap
    BY <1>8, Moves DEF BuildFail, Running
  <2>2. ~overlap => OwnFiles'
    BY <1>0, <1>8 DEF BuildFail, taskVars, OwnFiles
  <2>3. ~overlap => InPlace(t)' /\ (place'[t] = "done" /\ ~stuck' => cwd' = Home)
    BY <1>0, <1>8, <2>1 DEF BuildFail, taskVars, InPlace, Uploading
  <2> QED
    BY <2>1, <2>2, <2>3, Alone
<1>9. ASSUME NEW t \in Tasks, Packed(t) PROVE Serial'
  <2>1. /\ place'[t] = "script" /\ \A u \in Tasks \ {t} : place'[u] = place[u]
        /\ Running(t) /\ overlap' = overlap
    BY <1>9, Moves DEF Packed, Running
  <2>2. ~overlap => OwnFiles'
    <3>1. ~overlap => /\ tar' = [tar EXCEPT ![<<t, Project[t]>>] = bin[<<t, Project[t]>>]]
                      /\ UNCHANGED <<bin, sent>>
      BY <1>0, <1>9, Zenon DEF Packed, taskVars, File, InPlace
    <3>2. Project[t] \in Names
      BY DEF Names
    <3>3. /\ <<t, Project[t]>> \in DOMAIN tar
          /\ \A u \in Tasks, m \in Names : <<u, m>> \in DOMAIN tar
      BY <3>2 DEF DeployInv, TaskTypeOK, Dirs
    <3>4. ~overlap => \A u \in Tasks, m \in Names :
             tar'[<<u, m>>] = tar[<<u, m>>] \/ (u = t /\ tar'[<<u, m>>] = bin[<<t,
               Project[t]>>])
      BY <3>1, <3>3, Zenon
    <3> QED
      BY <1>0, <3>1, <3>2, <3>4 DEF OwnFiles
  <2>3. ~overlap => InPlace(t)' /\ (place'[t] = "done" /\ ~stuck' => cwd' = Home)
    BY <1>0, <1>9, <2>1 DEF Packed, taskVars, InPlace, Uploading
  <2> QED
    BY <2>1, <2>2, <2>3, Alone
<1>10. ASSUME NEW t \in Tasks, UploadScript(t) PROVE Serial'
  <2>1. /\ place'[t] = "tar" /\ \A u \in Tasks \ {t} : place'[u] = place[u]
        /\ Running(t) /\ overlap' = overlap
    BY <1>10, Moves DEF UploadScript, Running
  <2>2. ~overlap => OwnFiles'
    BY <1>0, <1>10 DEF UploadScript, taskVars, OwnFiles
  <2>3. ~overlap => InPlace(t)' /\ (place'[t] = "done" /\ ~stuck' => cwd' = Home)
    BY <1>0, <1>10, <2>1 DEF UploadScript, taskVars, InPlace, Uploading
  <2> QED
    BY <2>1, <2>2, <2>3, Alone
<1>11. ASSUME NEW t \in Tasks, UploadTar(t) PROVE Serial'
  <2>1. /\ place'[t] = "exec" /\ \A u \in Tasks \ {t} : place'[u] = place[u]
        /\ Running(t) /\ overlap' = overlap
    BY <1>11, Moves DEF UploadTar, Running
  <2>2. ~overlap => OwnFiles'
    <3>1. ~overlap => /\ sent' = [sent EXCEPT ![t] = tar[<<t, Project[t]>>]]
                      /\ UNCHANGED <<bin, tar>>
      BY <1>0, <1>11, Zenon DEF UploadTar, File, InPlace, Uploading
    <3>2. Project[t] \in Names
      BY DEF Names
    <3> QED
      BY <1>0, <3>1, <3>2 DEF OwnFiles, DeployInv, TaskTypeOK
  <2>3. ~overlap => InPlace(t)' /\ (place'[t] = "done" /\ ~stuck' => cwd' = Home)
    BY <1>0, <1>11, <2>1 DEF UploadTar, taskVars, InPlace, Uploading
  <2> QED
    BY <2>1, <2>2, <2>3, Alone
<1>12. ASSUME NEW t \in Tasks, ExecPipe(t) PROVE Serial'
  <2>1. /\ place'[t] \in {"end", "script"} /\ \A u \in Tasks \ {t} : place'[u] = place[u]
        /\ Running(t) /\ overlap' = overlap
    BY <1>12, Moves DEF ExecPipe, Running
  <2>2. ~overlap => OwnFiles'
    BY <1>0, <1>12 DEF ExecPipe, taskVars, OwnFiles
  <2>3. ~overlap => InPlace(t)' /\ (place'[t] = "done" /\ ~stuck' => cwd' = Home)
    BY <1>0, <1>12, <2>1 DEF ExecPipe, taskVars, InPlace, Uploading
  <2> QED
    BY <2>1, <2>2, <2>3, Alone
<1>13. ASSUME NEW t \in Tasks, InstallFail(t) PROVE Serial'
  <2>1. /\ place'[t] = "end" /\ \A u \in Tasks \ {t} : place'[u] = place[u]
        /\ Running(t) /\ overlap' = overlap
    BY <1>13, Moves DEF InstallFail, Running
  <2>2. ~overlap => OwnFiles'
    BY <1>0, <1>13 DEF InstallFail, taskVars, OwnFiles
  <2>3. ~overlap => InPlace(t)' /\ (place'[t] = "done" /\ ~stuck' => cwd' = Home)
    BY <1>0, <1>13, <2>1 DEF InstallFail, taskVars, InPlace, Uploading
  <2> QED
    BY <2>1, <2>2, <2>3, Alone
<1>14. ASSUME NEW t \in Tasks, End(t) PROVE Serial'
  <2>1. /\ place'[t] = "record" /\ \A u \in Tasks \ {t} : place'[u] = place[u]
        /\ Running(t) /\ overlap' = overlap
    BY <1>14, Moves DEF End, Running
  <2>2. ~overlap => OwnFiles'
    BY <1>0, <1>14 DEF End, taskVars, OwnFiles
  <2>3. ~overlap => InPlace(t)' /\ (place'[t] = "done" /\ ~stuck' => cwd' = Home)
    BY <1>0, <1>14, <2>1 DEF End, taskVars, InPlace, Uploading
  <2> QED
    BY <2>1, <2>2, <2>3, Alone
<1>15. ASSUME NEW t \in Tasks, EndFail(t) PROVE Serial'
  <2>1. /\ place'[t] = "record" /\ \A u \in Tasks \ {t} : place'[u] = place[u]
        /\ Running(t) /\ overlap' = overlap /\ stuck' = TRUE
    BY <1>15, Moves DEF EndFail, Running
  <2>2. ~overlap => OwnFiles'
    BY <1>0, <1>15 DEF EndFail, taskVars, OwnFiles
  <2>3. ~overlap => InPlace(t)' /\ (place'[t] = "done" /\ ~stuck' => cwd' = Home)
    BY <2>1 DEF InPlace, Uploading
  <2> QED
    BY <2>1, <2>2, <2>3, Alone
<1>16. ASSUME NEW t \in Tasks, RecordCompile(t) PROVE Serial'
  <2>1. /\ place'[t] \in {"done", "begin"} /\ \A u \in Tasks \ {t} : place'[u] = place[u]
        /\ Running(t) /\ overlap' = overlap
    BY <1>16, Moves DEF RecordCompile, Running
  <2>2. ~overlap => OwnFiles'
    BY <1>0, <1>16 DEF RecordCompile, taskVars, OwnFiles
  <2>3. ~overlap => InPlace(t)' /\ (place'[t] = "done" /\ ~stuck' => cwd' = Home)
    BY <1>0, <1>16, <2>1 DEF RecordCompile, taskVars, InPlace, Uploading
  <2> QED
    BY <2>1, <2>2, <2>3, Alone
<1>17. ASSUME NEW t \in Tasks, RecordInstall(t) PROVE Serial'
  <2>1. /\ place'[t] = "done" /\ \A u \in Tasks \ {t} : place'[u] = place[u]
        /\ Running(t) /\ overlap' = overlap
    BY <1>17, Moves DEF RecordInstall, Running
  <2>2. ~overlap => OwnFiles'
    BY <1>0, <1>17 DEF RecordInstall, taskVars, OwnFiles
  <2>3. ~overlap => InPlace(t)' /\ (place'[t] = "done" /\ ~stuck' => cwd' = Home)
    BY <1>0, <1>17, <2>1 DEF RecordInstall, taskVars, InPlace, Uploading
  <2> QED
    BY <2>1, <2>2, <2>3, Alone
<1>18. CASE UNCHANGED allTaskVars
  BY <1>18, Zenon DEF allTaskVars, taskVars, DeployInv, Serial, InPlace, OwnFiles, Running
<1> QED
  BY <1>1, <1>2, <1>3, <1>4, <1>5, <1>6, <1>7, <1>8, <1>9, <1>10, <1>11, <1>12, <1>13,
    <1>14, <1>15, <1>16, <1>17, <1>18 DEF TaskNext

\* Every step of every task keeps the invariant.
LEMMA DeployStep == DeployInv /\ [TaskNext]_allTaskVars => DeployInv'
BY DeployTypeStep, ProgressStep, SerialStep DEF DeployInv

\* What is checked of Task follows.
LEMMA DeployInvIsSafe ==
  DeployInv => TaskTypeOK /\ SerialTasksAreIsolated /\ CompileIsRecorded
<1> SUFFICES ASSUME DeployInv
             PROVE  SerialTasksAreIsolated /\ CompileIsRecorded
  BY DEF DeployInv
<1>1. SerialTasksAreIsolated
  BY DEF DeployInv, Serial, InPlace, OwnFiles, SerialTasksAreIsolated
<1>2. CompileIsRecorded
  <2> SUFFICES ASSUME NEW t \in Tasks
               PROVE  /\ column[t] \in {2} \cup 4..6 => compiled[t]
                      /\ column[t] = 3 => ~compiled[t] /\ sent[t] = Nobody
    BY DEF CompileIsRecorded
  <2>1. phase[t] \in {"compile", "install"}
    BY DEF DeployInv, TaskTypeOK
  <2> QED
    BY <2>1 DEF DeployInv, Progress
<1> QED
  BY <1>1, <1>2

(***************************************************************************)
(* Deployments that do not overlap are isolated, for any tasks, projects   *)
(* and number of nodes: compile and install run in the directory of their  *)
(* task and upload what it built, and the process is back where it was     *)
(* started unless the Getwd or the Chdir back of some task has failed.     *)
(***************************************************************************)
THEOREM DeploymentsSafe ==
  TaskSpec => [](TaskTypeOK /\ SerialTasksAreIsolated)
<1>1. TaskSpec => []DeployInv
  BY DeployInit, DeployStep, PTL DEF TaskSpec
<1> QED
  BY <1>1, DeployInvIsSafe, PTL

(***************************************************************************)
(* updateState records what compile did, for any tasks and however they    *)
(* interleave: a task recorded as compiled or installing has built its     *)
(* project, and one recorded as failed to compile has sent nothing.        *)
(***************************************************************************)
THEOREM CompilesRecorded ==
  TaskSpec => []CompileIsRecorded
<1>1. TaskSpec => []DeployInv
  BY DeployInit, DeployStep, PTL DEF TaskSpec
<1> QED
  BY <1>1, DeployInvIsSafe, PTL

(***************************************************************************)
(* A deployment is at a step of the program, in a directory that there is, *)
(* and no task is installed on more nodes than there are, for any number   *)
(* of deployments.                                                         *)
(***************************************************************************)
THEOREM DeploymentsTyped == TaskSpec => []TaskTypeOK
BY DeploymentsSafe, PTL

HIDE TaskAssumption DEF stateCompileBegin, stateComplieSuccess,
        stateComplieFailed, stateInstallBegin, stateInstallSuccess,
        stateInstallFailed

-----------------------------------------------------------------------------

\* run takes the entries again only when it has inserted those it took before.
Drained == pc # "insert" => \A e \in Entries : batch[e] = 0

StatsInv == TypeOK /\ Conserved /\ Drained

\* The requests of this process that have taken a number.
Active(r) == at[r] \in {"put", "get", "check", "call", "count", "reply", "done"}

(***************************************************************************)
(* The counter has not wrapped, and no number was given twice.  A number   *)
(* that has not been put into the buffer is neither there nor anybody's    *)
(* identifier, so that whatever a request reads after it has put its own   *)
(* was put after the requests before it had read theirs.                   *)
(***************************************************************************)
IDInv ==
    /\ GatewayTypeOK
    /\ inc <= Cardinality({r \in Requests : at[r] # "idle"})
    /\ buf <= inc
    /\ \A r \in Requests :
         /\ Active(r) => num[r] <= inc
         /\ HasID(r) => id[r] <= inc
         /\ Active(r) => \A q \in before[r] : at[q] = "done"
         /\ at[r] \in {"call", "count"} => EntryOf[r] \in Entries
         /\ at[r] = "put" => /\ buf # num[r]
                             /\ \A q \in Requests : HasID(q) => id[q] # num[r]
         /\ at[r] = "get" => \A q \in before[r] : id[q] # buf
         /\ \A q \in Requests : Active(r) /\ Active(q) /\ q # r => num[q] # num[r]
    /\ LaterRequestsDiffer

-----------------------------------------------------------------------------
(* The statistics.                                                         *)

\* Nothing is counted yet.
LEMMA StatsInit == Init => StatsInv
BY DEF Init, StatsInv, TypeOK, Conserved, Drained, None

\* Each step moves counts from one place to another.
LEMMA StatsStep == StatsInv /\ [Next]_vars => StatsInv'
<1> SUFFICES ASSUME StatsInv, [Next]_vars PROVE StatsInv'
  OBVIOUS
<1> USE StatsAssumption DEF StatsInv, TypeOK, Conserved, Drained, countVars, errorVars
<1>1. ASSUME NEW e \in Entries, success(e) PROVE StatsInv'
  BY <1>1 DEF success
<1>2. ASSUME failed PROVE StatsInv'
  BY <1>2 DEF failed
<1>3. ASSUME entrys PROVE StatsInv'
  <2>1. /\ ies' = None /\ batch' = ies
        /\ served' = served /\ stored' = stored /\ again' = again /\ lost' = lost
        /\ \A e \in Entries : ies'[e] = 0
    BY <1>3 DEF entrys, None
  <2>2. None \in [Entries -> Nat]
    BY DEF None
  <2>3. TypeOK'
    BY <1>3, <2>1, <2>2 DEF entrys
  <2>4. (\A e \in Entries : batch[e] = 0) /\ pc' = "insert"
    BY <1>3 DEF entrys
  <2> QED
    BY <2>1, <2>3, <2>4
<1>4. ASSUME NEW e \in Entries, insertStats(e) PROVE StatsInv'
  <2>1. CASE lost' = lost
    <3>1. PICK repeats \in 0..(maxRetry - 1) :
             /\ stored' = [stored EXCEPT ![e] = @ + batch[e] + repeats * batch[e]]
             /\ again' = [again EXCEPT ![e] = @ + repeats * batch[e]]
      BY <1>4, <2>1 DEF insertStats
    <3> DEFINE more == repeats * batch[e]
    <3>2. more \in Nat
      BY <1>4
    <3>3. /\ stored' = [stored EXCEPT ![e] = @ + batch[e] + more]
          /\ again' = [again EXCEPT ![e] = @ + more]
      BY <3>1
    <3> HIDE DEF more
    <3>4. TypeOK'
      BY <1>4, <2>1, <3>2, <3>3 DEF insertStats
    <3>5. Conserved'
      <4>1. batch' = [batch EXCEPT ![e] = 0] /\ served' = served /\ ies' = ies
        BY <1>4 DEF insertStats
      <4> QED
        BY ONLY <2>1, <3>2, <3>3, <4>1, StatsInv DEF StatsInv, TypeOK, Conserved
    <3> QED
      BY <1>4, <3>4, <3>5 DEF insertStats
  <2>2. CASE lost' # lost
    BY <1>4, <2>2 DEF insertStats
  <2> QED
    BY <2>1, <2>2
<1>5. ASSUME errorEntrys PROVE StatsInv'
  BY <1>5 DEF errorEntrys, None
<1>6. ASSUME insertErrorStats PROVE StatsInv'
  <2>1. /\ errors' = errors - 1 /\ errors > 0 /\ errorRows' \in {errorRows, errorRows + 1}
        /\ UNCHANGED <<pc, countVars, failures, ees>>
    BY <1>6 DEF insertErrorStats
  <2> QED
    BY <2>1
<1>7. ASSUME runDone PROVE StatsInv'
  BY <1>7 DEF runDone
<1>8. ASSUME Restart PROVE StatsInv'
  BY <1>8 DEF Restart, None
<1>9. ASSUME UNCHANGED vars PROVE StatsInv'
  BY <1>9 DEF vars
<1> QED
  BY <1>1, <1>2, <1>3, <1>4, <1>5, <1>6, <1>7, <1>8, <1>9 DEF Next, run

(***************************************************************************)
(* Moving the counts loses none, in the statistics alone.                  *)
(***************************************************************************)
THEOREM StatsSafe == Spec => [](TypeOK /\ Conserved)
BY StatsInit, StatsStep, PTL DEF Spec, StatsInv

-----------------------------------------------------------------------------
(* The identifiers.                                                        *)

Taken == {r \in Requests : at[r] # "idle"}

\* Cardinalities of requests are numbers below the modulus.
LEMMA TakenFinite ==
    /\ IsFiniteSet(Taken) /\ Cardinality(Taken) \in Nat
    /\ Cardinality(Taken) <= Cardinality(Requests) /\ Cardinality(Requests) \in Nat
    /\ Cardinality(Requests) < Modulus
<1>1. IsFiniteSet(Taken) /\ Cardinality(Taken) <= Cardinality(Requests)
  BY GatewayAssumption, FS_Subset DEF Taken
<1> QED
  BY <1>1, GatewayAssumption, FS_CardinalityType

\* The counter does not wrap: there is a request that has not taken a number.
LEMMA NoWrap ==
    ASSUME IDInv, NEW r \in Requests, AddUint32(r)
    PROVE  /\ inc' = inc + 1 /\ inc' \in Numbers
           /\ inc' <= Cardinality(Taken')
<1>1. Taken' = Taken \cup {r} /\ r \notin Taken
  BY DEF AddUint32, Goto, Taken, IDInv, GatewayTypeOK
<1>2. Cardinality(Taken') = Cardinality(Taken) + 1
  BY <1>1, TakenFinite, FS_AddElement
<1>3. Taken' \subseteq Requests
  BY DEF Taken
<1>4. Cardinality(Taken') <= Cardinality(Requests)
  BY <1>3, GatewayAssumption, FS_Subset
<1>5. inc \in Nat /\ inc <= Cardinality(Taken)
  BY GatewayAssumption DEF IDInv, GatewayTypeOK, Numbers, Taken
<1>6. inc + 1 < Modulus
  BY <1>2, <1>4, <1>5, TakenFinite, GatewayAssumption
<1>7. inc' = inc + 1
  BY <1>5, <1>6, GatewayAssumption DEF AddUint32
<1> QED
  BY <1>2, <1>5, <1>6, <1>7, TakenFinite, GatewayAssumption DEF Numbers

\* No request has come.
LEMMA IDInit == GatewayInit => IDInv
<1> SUFFICES ASSUME GatewayInit PROVE IDInv
  OBVIOUS
<1>1. 0 \in Numbers
  BY GatewayAssumption, FS_CardinalityType DEF Numbers
<1>2. GatewayTypeOK
  BY <1>1 DEF GatewayInit, GatewayTypeOK
<1>3. inc <= Cardinality({r \in Requests : at[r] # "idle"})
  BY TakenFinite DEF GatewayInit, Taken
<1> QED
  BY <1>2, <1>3 DEF GatewayInit, IDInv, Active, HasID, LaterRequestsDiffer

\* Every step keeps the identifiers apart.
LEMMA IDStep == IDInv /\ [GatewayNext]_gatewayVars => IDInv'
<1> SUFFICES ASSUME IDInv, [GatewayNext]_gatewayVars PROVE IDInv'
  OBVIOUS
<1> DEFINE Rest(r) == /\ Active(r) => num[r] <= inc
                      /\ HasID(r) => id[r] <= inc
                      /\ Active(r) => \A q \in before[r] : at[q] = "done"
                      /\ at[r] \in {"call", "count"} => EntryOf[r] \in Entries
                      /\ at[r] = "put" => /\ buf # num[r]
                                          /\ \A q \in Requests : HasID(q) => id[q] # num[r]
                      /\ at[r] = "get" => \A q \in before[r] : id[q] # buf
                      /\ \A q \in Requests : Active(r) /\ Active(q) /\ q # r => num[q] # num[r]
                      /\ HasID(r) => \A q \in before[r] : id[q] # id[r]
<1>1. IDInv <=> /\ GatewayTypeOK /\ inc <= Cardinality(Taken) /\ buf <= inc
                /\ \A r \in Requests : Rest(r)
  BY DEF IDInv, Taken, LaterRequestsDiffer
<1>2. IDInv' <=> /\ GatewayTypeOK' /\ inc' <= Cardinality(Taken') /\ buf' <= inc'
                 /\ \A r \in Requests : Rest(r)'
  BY DEF IDInv, Taken, LaterRequestsDiffer
<1>3. /\ inc \in Nat /\ buf \in Nat
      /\ \A r \in Requests : num[r] \in Nat /\ id[r] \in Nat /\ before[r] \subseteq Requests
  BY GatewayAssumption DEF IDInv, GatewayTypeOK, Numbers
<1>4. ASSUME NEW r \in Requests, AddUint32(r)
      PROVE  IDInv'
  <2>1. inc' = inc + 1 /\ inc' \in Numbers /\ inc' <= Cardinality(Taken')
    BY <1>4, NoWrap
  <2>2. /\ at[r] = "idle" /\ at' = [at EXCEPT ![r] = "put"]
        /\ num' = [num EXCEPT ![r] = inc']
        /\ before' = [before EXCEPT ![r] = {q \in Requests : at[q] = "done"}]
        /\ buf' = buf /\ id' = id /\ answer' = answer
    BY <1>4 DEF AddUint32, Goto
  <2>3. GatewayTypeOK'
    BY <2>1, <2>2, <1>1 DEF GatewayTypeOK
  <2>4. buf' <= inc'
    BY <2>1, <2>2, <1>1, <1>3
  <2>5. \A x \in Requests : Rest(x)'
    BY <2>1, <2>2, <1>1, <1>3 DEF Active, HasID, GatewayTypeOK
  <2> QED
    BY <2>1, <2>3, <2>4, <2>5, <1>2
<1>5. ASSUME NEW r \in Requests, PutUint32(r)
      PROVE  IDInv'
  <2>1. /\ at[r] = "put" /\ at' = [at EXCEPT ![r] = "get"]
        /\ buf' = num[r] /\ inc' = inc /\ num' = num /\ id' = id /\ before' = before
        /\ answer' = answer
    BY <1>5 DEF PutUint32, Goto
  <2>2. Taken' = Taken
    BY <2>1, <1>1 DEF Taken, GatewayTypeOK
  <2>3. GatewayTypeOK' /\ buf' <= inc'
    BY <2>1, <1>1 DEF GatewayTypeOK, Active
  <2>4. \A x \in Requests : Rest(x)'
    BY <2>1, <1>1, <1>3 DEF Active, HasID, GatewayTypeOK
  <2> QED
    BY <2>1, <2>2, <2>3, <2>4, <1>1, <1>2
<1>6. ASSUME NEW r \in Requests, Uint64(r)
      PROVE  IDInv'
  <2>1. /\ at[r] = "get" /\ at' = [at EXCEPT ![r] = "check"]
        /\ id' = [id EXCEPT ![r] = buf] /\ inc' = inc /\ buf' = buf /\ num' = num /\ before' = before
        /\ answer' = answer
    BY <1>6 DEF Uint64, Goto
  <2>2. Taken' = Taken
    BY <2>1, <1>1 DEF Taken, GatewayTypeOK
  <2>3. GatewayTypeOK' /\ buf' <= inc'
    BY <2>1, <1>1 DEF GatewayTypeOK
  <2>4. \A x \in Requests : Rest(x)'
    BY <2>1, <1>1, <1>3 DEF Active, HasID, GatewayTypeOK
  <2> QED
    BY <2>1, <2>2, <2>3, <2>4, <1>1, <1>2
<1>7. ASSUME NEW r \in Requests, HasID(r), NEW l \in {"call", "count", "reply", "done"}, Goto(r, l),
             l \in {"call", "count"} => EntryOf[r] \in Entries, at[r] # "done",
             answer' \in [Requests -> {"none", "error", "status", "ok"}],
             UNCHANGED <<uuidVars, before>>
      PROVE  IDInv'
  <2>1. at' = [at EXCEPT ![r] = l] /\ inc' = inc /\ buf' = buf /\ num' = num /\ id' = id /\ before' = before
    BY <1>7 DEF Goto, uuidVars
  <2>2. Taken' = Taken
    BY <1>7, <2>1, <1>1 DEF Taken, GatewayTypeOK, HasID
  <2>3. GatewayTypeOK' /\ buf' <= inc'
    BY <1>7, <2>1, <1>1 DEF GatewayTypeOK
  <2>4. ASSUME NEW x \in Requests PROVE Rest(x)'
    <3>1. /\ (Active(x)' <=> Active(x)) /\ (HasID(x)' <=> HasID(x))
          /\ at[x] = "done" => at'[x] = "done"
          /\ at'[x] \in {"put", "get"} => at'[x] = at[x]
          /\ at'[x] \in {"call", "count"} => EntryOf[x] \in Entries
      BY <1>7, <2>1, <1>1 DEF Active, HasID, GatewayTypeOK
    <3>2. \A q \in Requests : /\ (Active(q)' <=> Active(q)) /\ (HasID(q)' <=> HasID(q))
                              /\ at[q] = "done" => at'[q] = "done"
      BY <1>7, <2>1, <1>1 DEF Active, HasID, GatewayTypeOK
    <3>3. Rest(x) /\ before[x] \subseteq Requests
      BY <1>1, <1>3
    <3> HIDE DEF Active, HasID
    <3> QED
      BY ONLY <2>1, <3>1, <3>2, <3>3
  <2> QED
    BY <2>1, <2>2, <2>3, <2>4, <1>1, <1>2
<1>8. ASSUME NEW r \in Requests, Prepare(r) \/ DoRequest(r) \/ Count(r) \/ Reply(r)
      PROVE  IDInv'
  <2>1. HasID(r) /\ at[r] # "done" /\ UNCHANGED <<uuidVars, before>>
    BY <1>8 DEF Prepare, DoRequest, Count, Reply, HasID
  <2>2. answer' \in [Requests -> {"none", "error", "status", "ok"}]
    BY <1>8, <1>1 DEF Prepare, DoRequest, Count, Reply, GatewayTypeOK
  <2>3. \/ Goto(r, "done") \/ Goto(r, "reply")
        \/ Goto(r, "call") /\ EntryOf[r] \in Entries
        \/ Goto(r, "count") /\ EntryOf[r] \in Entries
    BY <1>8, <1>1, GatewayAssumption DEF Prepare, DoRequest, Count, Reply
  <2> QED
    BY <2>1, <2>2, <2>3, <1>7
<1>9. ASSUME GatewayRestart
      PROVE  IDInv'
  <2>1. /\ at' = [r \in Requests |-> IF at[r] = "idle" THEN "idle" ELSE "gone"]
        /\ inc' = 0 /\ buf' = 0 /\ num' = num /\ id' = id /\ before' = before
        /\ answer' = [r \in Requests |-> IF at[r] = "count" THEN "none" ELSE answer[r]]
    BY <1>9 DEF GatewayRestart
  <2>2. Taken' = Taken
    BY <2>1, <1>1 DEF Taken
  <2>3. GatewayTypeOK'
    BY <2>1, <1>1, GatewayAssumption, FS_CardinalityType DEF GatewayTypeOK, Numbers
  <2>4. \A x \in Requests : Rest(x)'
    BY <2>1 DEF Active, HasID
  <2>5. inc' <= Cardinality(Taken') /\ buf' <= inc'
    BY <2>1, <2>2, TakenFinite
  <2> QED
    BY <2>3, <2>4, <2>5, <1>2
<1>10. ASSUME UNCHANGED requestVars
      PROVE  IDInv'
  BY <1>10 DEF requestVars, uuidVars, IDInv, GatewayTypeOK, Active, HasID, LaterRequestsDiffer
<1> QED
  BY <1>4, <1>5, <1>6, <1>8, <1>9, <1>10 DEF GatewayNext, ServeHTTP, gatewayVars

-----------------------------------------------------------------------------
(* The gateway and its statistics.                                         *)

\* A step of the gateway is a step of the statistics, or none.
LEMMA StatsUnderGateway == IDInv /\ [GatewayNext]_gatewayVars => [Next]_vars
<1> SUFFICES ASSUME IDInv, [GatewayNext]_gatewayVars PROVE [Next]_vars
  OBVIOUS
<1>1. ASSUME NEW r \in Requests,
             AddUint32(r) \/ PutUint32(r) \/ Uint64(r) \/ Prepare(r) \/ DoRequest(r) \/ Reply(r)
      PROVE  [Next]_vars
  BY <1>1 DEF AddUint32, PutUint32, Uint64, Prepare, DoRequest, Reply
<1>2. ASSUME NEW r \in Requests, Count(r)
      PROVE  [Next]_vars
  <2>1. EntryOf[r] \in Entries /\ (success(EntryOf[r]) \/ failed)
    BY <1>2 DEF Count, IDInv
  <2> QED
    BY <2>1 DEF Next
<1>3. ASSUME run \/ GatewayRestart
      PROVE  [Next]_vars
  BY <1>3 DEF GatewayRestart, Next
<1>4. ASSUME UNCHANGED gatewayVars
      PROVE  [Next]_vars
  BY <1>4 DEF gatewayVars
<1> QED
  BY <1>1, <1>2, <1>3, <1>4 DEF GatewayNext, ServeHTTP

(***************************************************************************)
(* The identifiers keep their types, and a request never gets that of a    *)
(* request that was answered before it came.                               *)
(***************************************************************************)
THEOREM IdentifiersSafe == GatewaySpec => [](GatewayTypeOK /\ LaterRequestsDiffer)
<1>1. IDInv => GatewayTypeOK /\ LaterRequestsDiffer
  BY DEF IDInv
<1> QED
  BY <1>1, IDInit, IDStep, PTL DEF GatewaySpec

\* Under the gateway the statistics keep their invariant.
LEMMA StatsSafeUnderGateway == GatewaySpec => [](TypeOK /\ Conserved)
<1>1. GatewayInit => Init
  BY DEF GatewayInit
<1>2. GatewaySpec => Spec
  BY <1>1, IDInit, IDStep, StatsUnderGateway, PTL DEF GatewaySpec, Spec
<1> QED
  BY <1>2, StatsSafe, PTL

(***************************************************************************)
(* The counts are moved without loss, for any number of requests, apart    *)
(* from the inserts that failed and those that executeDB repeated.         *)
(***************************************************************************)
THEOREM GatewayConserves == GatewaySpec => []Conserved
BY StatsSafeUnderGateway, PTL

(***************************************************************************)
(* Requests and identifiers keep their types: the counter of the process   *)
(* does not pass its width.                                                *)
(***************************************************************************)
THEOREM GatewayTyped == GatewaySpec => []GatewayTypeOK
BY IdentifiersSafe, PTL

(***************************************************************************)
(* The counts keep their types under the requests of the gateway.          *)
(***************************************************************************)
THEOREM StatsTyped == GatewaySpec => []TypeOK
BY StatsSafeUnderGateway, PTL

-----------------------------------------------------------------------------
(* Requests and what they are counted as.                                  *)

\* A request that has not been forwarded has no answer, one to be counted has.
Answered ==
    \A r \in Requests :
       /\ at[r] \in {"idle", "put", "get", "check", "call"} => answer[r] = "none"
       /\ at[r] = "count" => answer[r] # "none"

CountInv == CountedOnce /\ Answered

\* Requests are finitely many.
LEMMA CountedFinite ==
    ASSUME NEW S, S \subseteq Requests
    PROVE  IsFiniteSet(S) /\ Cardinality(S) \in Nat
BY GatewayAssumption, FS_Subset, FS_CardinalityType

\* A step that counts nothing.
LEMMA NothingCounted ==
    ASSUME CountedOnce, served' = served, failures' = failures,
           \A r \in Requests :
              \/ answer'[r] = answer[r] /\ (at'[r] = "count" <=> at[r] = "count")
              \/ (answer[r] = "none" \/ at[r] = "count") /\ (answer'[r] = "none" \/ at'[r] = "count")
    PROVE  CountedOnce'
<1>1. Counted({"ok"})' = Counted({"ok"}) /\ Counted({"error", "status"})' = Counted({"error", "status"})
  BY DEF Counted
<1>2. \A e \in Entries : {r \in Counted({"ok"})' : EntryOf[r] = e} = {r \in Counted({"ok"}) : EntryOf[r] = e}
  BY <1>1
<1> QED
  BY <1>1, <1>2 DEF CountedOnce

\* Count adds its request to one set, and one to its count.
LEMMA OneCounted ==
    ASSUME IDInv, CountInv, TypeOK, NEW r \in Requests, Count(r)
    PROVE  CountedOnce'
<1>1. /\ at[r] = "count" /\ answer' = answer /\ answer[r] \in {"ok", "error", "status"}
      /\ at'[r] # "count" /\ \A q \in Requests \ {r} : at'[q] = at[q]
      /\ EntryOf[r] \in Entries
  BY DEF Count, Goto, CountInv, Answered, IDInv, GatewayTypeOK
<1>2. CASE answer[r] = "ok"
  <2>1. /\ failures' = failures
        /\ served' = [served EXCEPT ![EntryOf[r]] = @ + 1]
    BY <1>2 DEF Count, success, errorVars
  <2>2. Counted({"error", "status"})' = Counted({"error", "status"})
    BY <1>1, <1>2 DEF Counted
  <2>3. ASSUME NEW e \in Entries
        PROVE  served'[e] = Cardinality({q \in Counted({"ok"})' : EntryOf[q] = e})
    <3> DEFINE S == {q \in Counted({"ok"}) : EntryOf[q] = e}
               T == {q \in Counted({"ok"})' : EntryOf[q] = e}
    <3>1. served[e] = Cardinality(S) /\ served \in [Entries -> Nat]
      BY DEF CountInv, CountedOnce, TypeOK
    <3>2. CASE e = EntryOf[r]
      <4>1. T = S \cup {r} /\ r \notin S /\ S \subseteq Requests
        BY <1>1, <1>2, <3>2 DEF Counted
      <4>2. Cardinality(T) = Cardinality(S) + 1
        BY <4>1, CountedFinite, FS_AddElement
      <4> QED
        BY <2>1, <3>1, <3>2, <4>2
    <3>3. CASE e # EntryOf[r]
      <4>1. T = S
        BY <1>1, <1>2, <3>3 DEF Counted
      <4> QED
        BY <2>1, <3>1, <3>3, <4>1
    <3> QED
      BY <3>2, <3>3
  <2> QED
    BY <2>1, <2>2, <2>3 DEF CountInv, CountedOnce
<1>3. CASE answer[r] # "ok"
  <2> DEFINE S == Counted({"error", "status"})
  <2>1. failures' = failures + 1 /\ served' = served
    BY <1>3 DEF Count, failed, countVars
  <2>2. S' = S \cup {r} /\ r \notin S /\ S \subseteq Requests
    BY <1>1, <1>3 DEF Counted
  <2>3. Cardinality(S') = Cardinality(S) + 1
    BY <2>2, CountedFinite, FS_AddElement
  <2>4. Counted({"ok"})' = Counted({"ok"})
    BY <1>1, <1>3 DEF Counted
  <2>5. \A e \in Entries : {q \in Counted({"ok"})' : EntryOf[q] = e} = {q \in Counted({"ok"}) : EntryOf[q] = e}
    BY <2>4
  <2> QED
    BY <2>1, <2>3, <2>5 DEF CountInv, CountedOnce
<1> QED
  BY <1>2, <1>3

\* No request has come and nothing is counted.
LEMMA CountInit == GatewayInit => CountInv
<1> SUFFICES ASSUME GatewayInit PROVE CountInv
  OBVIOUS
<1>1. Counted({"ok"}) = {} /\ Counted({"error", "status"}) = {}
  BY DEF GatewayInit, Counted
<1>2. \A e \in Entries : {r \in Counted({"ok"}) : EntryOf[r] = e} = {}
  BY <1>1
<1>3. Cardinality({}) = 0
  BY FS_EmptySet
<1>4. failures = 0 /\ \A e \in Entries : served[e] = 0
  BY DEF GatewayInit, Init, None
<1>5. CountedOnce
  BY <1>1, <1>2, <1>3, <1>4 DEF CountedOnce
<1> QED
  BY <1>5 DEF CountInv, Answered, GatewayInit

\* Only Count counts.
LEMMA CountStep == IDInv /\ TypeOK /\ CountInv /\ [GatewayNext]_gatewayVars => CountInv'
<1> SUFFICES ASSUME IDInv, TypeOK, CountInv, [GatewayNext]_gatewayVars PROVE CountInv'
  OBVIOUS
<1>0. /\ at \in [Requests -> {"idle", "put", "get", "check", "call", "count", "reply", "done", "gone"}]
      /\ answer \in [Requests -> {"none", "error", "status", "ok"}]
      /\ CountedOnce /\ Answered
  BY DEF IDInv, GatewayTypeOK, CountInv
<1>1. ASSUME NEW r \in Requests, AddUint32(r) \/ PutUint32(r) \/ Uint64(r) \/ Prepare(r) \/ Reply(r)
      PROVE  CountInv'
  <2>1. /\ answer' = answer /\ served' = served /\ failures' = failures
        /\ \E l \in {"put", "get", "check", "call", "done"} : Goto(r, l)
        /\ at[r] \in {"idle", "put", "get", "check"} \/ (at[r] = "reply" /\ Goto(r, "done"))
    BY <1>1 DEF AddUint32, PutUint32, Uint64, Prepare, Reply, vars, countVars, errorVars
  <2>2. Answered'
    BY <1>0, <2>1 DEF Answered, Goto
  <2>3. CountedOnce'
    BY <1>0, <2>1, NothingCounted DEF Goto
  <2> QED
    BY <2>2, <2>3 DEF CountInv
<1>2. ASSUME NEW r \in Requests, DoRequest(r)
      PROVE  CountInv'
  <2>1. /\ served' = served /\ failures' = failures /\ at[r] = "call" /\ Goto(r, "count")
        /\ \E a \in {"error", "status", "ok"} : answer' = [answer EXCEPT ![r] = a]
    BY <1>2 DEF DoRequest, vars, countVars, errorVars
  <2>2. Answered'
    BY <1>0, <2>1 DEF Answered, Goto
  <2>3. CountedOnce'
    BY <1>0, <2>1, NothingCounted DEF Goto, Answered
  <2> QED
    BY <2>2, <2>3 DEF CountInv
<1>3. ASSUME NEW r \in Requests, Count(r)
      PROVE  CountInv'
  <2>1. Answered'
    BY <1>0, <1>3 DEF Answered, Count, Goto
  <2> QED
    BY <1>3, <2>1, OneCounted DEF CountInv
<1>4. ASSUME run, UNCHANGED requestVars
      PROVE  CountInv'
  <2>1. served' = served /\ failures' = failures
    BY <1>4 DEF run, entrys, insertStats, errorEntrys, insertErrorStats, runDone, countVars, errorVars
  <2>2. answer' = answer /\ at' = at
    BY <1>4 DEF requestVars
  <2> QED
    BY <1>0, <2>1, <2>2, NothingCounted DEF CountInv, Answered
<1>5. ASSUME GatewayRestart
      PROVE  CountInv'
  <2>1. /\ served' = served /\ failures' = failures
        /\ at' = [r \in Requests |-> IF at[r] = "idle" THEN "idle" ELSE "gone"]
        /\ answer' = [r \in Requests |-> IF at[r] = "count" THEN "none" ELSE answer[r]]
    BY <1>5 DEF GatewayRestart, Restart
  <2>2. Answered'
    BY <1>0, <2>1 DEF Answered
  <2>3. CountedOnce'
    BY <1>0, <2>1, NothingCounted
  <2> QED
    BY <2>2, <2>3 DEF CountInv
<1>6. ASSUME UNCHANGED gatewayVars
      PROVE  CountInv'
  <2>1. served' = served /\ failures' = failures /\ answer' = answer /\ at' = at
    BY <1>6 DEF gatewayVars, vars, countVars, errorVars, requestVars
  <2> QED
    BY <1>0, <2>1, NothingCounted DEF CountInv, Answered
<1> QED
  BY <1>1, <1>2, <1>3, <1>4, <1>5, <1>6 DEF GatewayNext, ServeHTTP

(***************************************************************************)
(* ServeHTTP counts every request that it forwarded, once and as what the  *)
(* backend answered, and no other, for any finite set of requests.         *)
(***************************************************************************)
THEOREM RequestsCountedOnce == GatewaySpec => []CountedOnce
<1>1. GatewaySpec => []IDInv
  BY IDInit, IDStep, PTL DEF GatewaySpec
<1>2. GatewaySpec => []TypeOK
  BY StatsTyped
<1>3. CountInv => CountedOnce
  BY DEF CountInv
<1> QED
  BY <1>1, <1>2, <1>3, CountInit, CountStep, PTL DEF GatewaySpec

=============================================================================
