-------------------------------- MODULE Task --------------------------------
(***************************************************************************)
(* Deployments in the distributor (distributor/task.go): every POST starts *)
(* a goroutine that compiles a project in a directory of its own and then  *)
(* installs the result on the nodes of the project's cluster.  Commands    *)
(* and uploads use paths relative to the working directory, which belongs  *)
(* to the process: all tasks share it.                                     *)
(***************************************************************************)
EXTENDS Naturals, FiniteSets

CONSTANTS Tasks,      \* deployments; also names the directory of each
          Project,    \* the name of the project a task deploys
          Nodes,      \* number of nodes of a cluster
          Home,       \* the directory the distributor was started in
          Nowhere,    \* the empty path: what Getwd returns with an error
          Nobody

ASSUME TaskAssumption ==
    /\ Home \notin Tasks /\ Nowhere \notin Tasks \cup {Home}
    /\ Nobody \notin Tasks /\ Nodes \in Nat \ {0}

stateCompileBegin == 1
stateComplieSuccess == 2
stateComplieFailed == 3
stateInstallBegin == 4
stateInstallSuccess == 5
stateInstallFailed == 6

Dirs == Tasks \cup {Home}
Names == {Project[t] : t \in Tasks}

VARIABLES cwd,        \* the working directory of the process
          place,      \* where a task is
          phase,      \* compile or install
          oldPath,    \* the directory it goes back to
          dir,        \* the directory its command was started in
          err,        \* the outer err that the deferred function looks at
          column,     \* column state of its row in table distributor
          bin,        \* the task that built dir/bin/name, or Nobody
          tar,        \* the task that built what is in dir/name.tar.gz, or Nobody
          sent,       \* the task whose build was uploaded to a node last
          installed,  \* nodes where install.sh succeeded
          compiled,   \* whether its build succeeded
          overlap,    \* history: whether two tasks have run at the same time
          stuck       \* history: whether the way back of a task has failed

taskVars == <<oldPath, dir, err, column, sent, installed, compiled>>
allTaskVars == <<cwd, place, phase, taskVars, bin, tar, overlap, stuck>>

TaskTypeOK ==
    /\ cwd \in Dirs
    /\ place \in [Tasks -> {"idle", "begin", "getwd", "chdir", "command", "wait",
                            "script", "tar", "exec", "end", "record", "done"}]
    /\ phase \in [Tasks -> {"compile", "install"}]
    /\ oldPath \in [Tasks -> Dirs \cup {Nowhere}]
    /\ dir \in [Tasks -> Dirs]
    /\ err \in [Tasks -> BOOLEAN]
    /\ column \in [Tasks -> 0..stateInstallFailed]
    /\ bin \in [Dirs \X Names -> Tasks \cup {Nobody}]
    /\ tar \in [Dirs \X Names -> Tasks \cup {Nobody}]
    /\ sent \in [Tasks -> Tasks \cup {Nobody}]
    /\ installed \in [Tasks -> 0..Nodes]
    /\ compiled \in [Tasks -> BOOLEAN]
    /\ overlap \in BOOLEAN /\ stuck \in BOOLEAN

TaskInit ==
    /\ cwd = Home
    /\ place = [t \in Tasks |-> "idle"]
    /\ phase = [t \in Tasks |-> "compile"]
    /\ oldPath = [t \in Tasks |-> Home]
    /\ dir = [t \in Tasks |-> Home]
    /\ err = [t \in Tasks |-> FALSE]
    /\ column = [t \in Tasks |-> 0]
    /\ bin = [f \in Dirs \X Names |-> Nobody]
    /\ tar = [f \in Dirs \X Names |-> Nobody]
    /\ sent = [t \in Tasks |-> Nobody]
    /\ installed = [t \in Tasks |-> 0]
    /\ compiled = [t \in Tasks |-> FALSE]
    /\ overlap = FALSE /\ stuck = FALSE

Running(t) == place[t] \notin {"idle", "done"}
Proceed(t, l) == place' = [place EXCEPT ![t] = l]
File(t, d) == <<d, Project[t]>>

\* updateState: an update that fails is only logged.
updateState(t, s) ==
    \E written \in BOOLEAN : column' = IF written THEN [column EXCEPT ![t] = s] ELSE column

\* newTask makes the directory and the row; run is a goroutine.
POST(t) ==
    /\ place[t] = "idle"
    /\ Proceed(t, "begin")
    /\ overlap' = (overlap \/ \E u \in Tasks : Running(u))
    /\ UNCHANGED <<cwd, phase, taskVars, bin, tar, stuck>>

\* compile and install begin alike.
Begin(t) ==
    /\ place[t] = "begin"
    /\ updateState(t, IF phase[t] = "compile" THEN stateCompileBegin ELSE stateInstallBegin)
    /\ err' = [err EXCEPT ![t] = FALSE]
    /\ Proceed(t, "getwd")
    /\ UNCHANGED <<cwd, phase, oldPath, dir, bin, tar, sent, installed, compiled, overlap, stuck>>

\* The error of os.Getwd is ignored.
Getwd(t) ==
    /\ place[t] = "getwd"
    /\ \E d \in {cwd, Nowhere} : oldPath' = [oldPath EXCEPT ![t] = d]
    /\ Proceed(t, "chdir")
    /\ UNCHANGED <<cwd, phase, dir, err, column, bin, tar, sent, installed, compiled, overlap, stuck>>

Chdir(t) ==
    /\ place[t] = "chdir"
    /\ cwd' = t
    /\ Proceed(t, "command")
    /\ UNCHANGED <<phase, taskVars, bin, tar, overlap, stuck>>

\* The error is in the outer err, and nothing goes back to oldPath.
ChdirFail(t) ==
    /\ place[t] = "chdir"
    /\ err' = [err EXCEPT ![t] = TRUE]
    /\ Proceed(t, "record")
    /\ UNCHANGED <<cwd, phase, oldPath, dir, column, bin, tar, sent, installed, compiled, overlap, stuck>>

\* execSystemCmdWait: the command inherits the working directory.
Command(t) ==
    /\ place[t] = "command"
    /\ dir' = [dir EXCEPT ![t] = cwd]
    /\ Proceed(t, "wait")
    /\ UNCHANGED <<cwd, phase, oldPath, err, column, bin, tar, sent, installed, compiled, overlap, stuck>>

\* build.sh is there in the directory of any task.
Built(t) ==
    /\ place[t] = "wait" /\ phase[t] = "compile"
    /\ dir[t] # Home
    /\ bin' = [bin EXCEPT ![File(t, dir[t])] = t]
    /\ compiled' = [compiled EXCEPT ![t] = TRUE]
    /\ Proceed(t, "end")
    /\ UNCHANGED <<cwd, phase, oldPath, dir, err, column, tar, sent, installed, overlap, stuck>>

\* Mutant of BuildFail: the way back is not deferred.
BuildFailStays(t) ==
    /\ place[t] = "wait" /\ phase[t] = "compile"
    /\ err' = [err EXCEPT ![t] = TRUE]
    /\ Proceed(t, "record")
    /\ UNCHANGED <<cwd, phase, oldPath, dir, column, bin, tar, sent, installed, compiled, overlap, stuck>>

BuildFail(t) ==
    /\ place[t] = "wait" /\ phase[t] = "compile"
    /\ err' = [err EXCEPT ![t] = TRUE]
    /\ Proceed(t, "end")
    /\ UNCHANGED <<cwd, phase, oldPath, dir, column, bin, tar, sent, installed, compiled, overlap, stuck>>

Packed(t) ==
    /\ place[t] = "wait" /\ phase[t] = "install"
    /\ bin[File(t, dir[t])] # Nobody
    /\ tar' = [tar EXCEPT ![File(t, dir[t])] = bin[File(t, dir[t])]]
    /\ Proceed(t, "script")
    /\ UNCHANGED <<cwd, phase, taskVars, bin, overlap, stuck>>

\* For the next node: install.sh is uploaded ...
UploadScript(t) ==
    /\ place[t] = "script"
    /\ cwd # Home
    /\ Proceed(t, "tar")
    /\ UNCHANGED <<cwd, phase, taskVars, bin, tar, overlap, stuck>>

\* ... then the archive ...
UploadTar(t) ==
    /\ place[t] = "tar"
    /\ tar[File(t, cwd)] # Nobody
    /\ sent' = [sent EXCEPT ![t] = tar[File(t, cwd)]]
    /\ Proceed(t, "exec")
    /\ UNCHANGED <<cwd, phase, oldPath, dir, err, column, bin, tar, installed, compiled, overlap, stuck>>

\* Mutant of ExecPipe: the last node is not the last.
ExecPipeAgain(t) ==
    /\ place[t] = "exec"
    /\ installed' = [installed EXCEPT ![t] = @ + 1]
    /\ Proceed(t, "script")
    /\ UNCHANGED <<cwd, phase, oldPath, dir, err, column, bin, tar, sent, compiled, overlap, stuck>>

\* ... and install.sh runs there.
ExecPipe(t) ==
    /\ place[t] = "exec"
    /\ installed' = [installed EXCEPT ![t] = @ + 1]
    /\ Proceed(t, IF installed[t] + 1 = Nodes THEN "end" ELSE "script")
    /\ UNCHANGED <<cwd, phase, oldPath, dir, err, column, bin, tar, sent, compiled, overlap, stuck>>

\* tar, ssh.NewClient, Upload or ExecPipe fails: install returns an err that is
\* declared in the inner scope.
InstallFail(t) ==
    /\ \/ place[t] = "wait" /\ phase[t] = "install"
       \/ place[t] \in {"script", "tar", "exec"}
    /\ Proceed(t, "end")
    /\ UNCHANGED <<cwd, phase, taskVars, bin, tar, overlap, stuck>>

\* The deferred functions: back to oldPath, ...
End(t) ==
    /\ place[t] = "end"
    /\ oldPath[t] # Nowhere
    /\ cwd' = oldPath[t]
    /\ Proceed(t, "record")
    /\ UNCHANGED <<phase, taskVars, bin, tar, overlap, stuck>>

\* ... which may fail, as it does without one: the error is ignored ...
EndFail(t) ==
    /\ place[t] = "end"
    /\ stuck' = TRUE
    /\ Proceed(t, "record")
    /\ UNCHANGED <<cwd, phase, taskVars, bin, tar, overlap>>

\* Mutant of RecordCompile: the err of the build is shadowed, as in install.
RecordCompileShadowed(t) ==
    /\ place[t] = "record" /\ phase[t] = "compile"
    /\ updateState(t, stateComplieSuccess)
    /\ Proceed(t, IF err[t] THEN "done" ELSE "begin")
    /\ phase' = [phase EXCEPT ![t] = IF err[t] THEN "compile" ELSE "install"]
    /\ UNCHANGED <<cwd, oldPath, dir, err, bin, tar, sent, installed, compiled, overlap, stuck>>

\* ... then the state; run goes on to install unless compile returned an error.
RecordCompile(t) ==
    /\ place[t] = "record" /\ phase[t] = "compile"
    /\ updateState(t, IF err[t] THEN stateComplieFailed ELSE stateComplieSuccess)
    /\ Proceed(t, IF err[t] THEN "done" ELSE "begin")
    /\ phase' = [phase EXCEPT ![t] = IF err[t] THEN "compile" ELSE "install"]
    /\ UNCHANGED <<cwd, oldPath, dir, err, bin, tar, sent, installed, compiled, overlap, stuck>>

RecordInstall(t) ==
    /\ place[t] = "record" /\ phase[t] = "install"
    /\ updateState(t, IF err[t] THEN stateInstallFailed ELSE stateInstallSuccess)
    /\ Proceed(t, "done")
    /\ UNCHANGED <<cwd, phase, oldPath, dir, err, bin, tar, sent, installed, compiled, overlap, stuck>>

TaskNext ==
    \E t \in Tasks :
       \/ POST(t) \/ Begin(t) \/ Getwd(t) \/ Chdir(t) \/ ChdirFail(t) \/ Command(t)
       \/ Built(t) \/ BuildFail(t) \/ Packed(t)
       \/ UploadScript(t) \/ UploadTar(t) \/ ExecPipe(t) \/ InstallFail(t)
       \/ End(t) \/ EndFail(t) \/ RecordCompile(t) \/ RecordInstall(t)

TaskSpec == TaskInit /\ [][TaskNext]_allTaskVars

-----------------------------------------------------------------------------

(***************************************************************************)
(* As long as tasks have not overlapped, a task runs its commands in its   *)
(* own directory and installs what it built itself, even when the one      *)
(* before it could not go back; and the distributor is in its own          *)
(* directory again after each, however it failed, unless the Getwd or the  *)
(* deferred Chdir of a task has failed, whose errors the code ignores.     *)
(***************************************************************************)
SerialTasksAreIsolated ==
    ~overlap =>
       /\ \A t \in Tasks : place[t] = "wait" => dir[t] = t
       /\ \A t \in Tasks : sent[t] \in {t, Nobody}
       /\ ~stuck /\ (\A t \in Tasks : ~Running(t)) => cwd = Home

(***************************************************************************)
(* The recorded state agrees with the build, however tasks interleave: a   *)
(* task that is recorded as compiled, or beyond, has built its project,    *)
(* and one recorded as failed to compile has not; none of those installs.  *)
(***************************************************************************)
CompileIsRecorded ==
    \A t \in Tasks :
       /\ column[t] \in {stateComplieSuccess} \cup stateInstallBegin..stateInstallFailed => compiled[t]
       /\ column[t] = stateComplieFailed => ~compiled[t] /\ sent[t] = Nobody

(***************************************************************************)
(* State 5 is "安装成功" (installed, doodle.sql:51): a task in this state  *)
(* has run install.sh on every node.                                       *)
(***************************************************************************)
SuccessMeansInstalled ==
    \A t \in Tasks : column[t] = stateInstallSuccess => installed[t] = Nodes

=============================================================================
